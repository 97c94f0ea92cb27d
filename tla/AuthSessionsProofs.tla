--------------------------- MODULE AuthSessionsProofs ---------------------------
(***************************************************************************)
(* Proofs about AuthSessions, for any users, any number of requests and    *)
(* sessions, and any lifetimes.  What makes the index complete is that a   *)
(* session id is in the index of its own user only and is never used       *)
(* again: an id a listing has seen missing stays missing.                  *)
(***************************************************************************)
EXTENDS AuthSessions, TLAPS

\* What sessions, tokens and the index say of each other.
Linked ==
    /\ \A s \in Sessions : Live(s) =>
          subject[s] \in Users /\ current[s] \in Tokens /\ sid[current[s]] = s
    /\ \A s \in Sessions : ~Live(s) => current[s] = NoToken
    /\ \A t \in Tokens : sid[t] # NoSid => subject[sid[t]] # Nobody
    /\ \A u \in Users : \A s \in index[u] : subject[s] = u

\* What a request holds at each stage.
Held == \A c \in Calls :
    /\ stage[c] \in {"login", "create", "revoke", "revoke_all", "list", "fetch"} =>
          work[c].user \in Users
    /\ stage[c] \in {"revoke", "revoke_all"} => work[c].target \in Sessions
    /\ stage[c] = "rotate" =>
          /\ work[c].token \in Tokens
          /\ sid[work[c].token] # NoSid
          /\ work[c].keep > 0

\* A listing has seen ids of sessions that exist or existed, and those it will
\* remove are gone for good.
MissingForGood == \A c \in Calls :
    /\ stage[c] = "fetch" => \A s \in work[c].ids : subject[s] # Nobody
    /\ stage[c] \in {"list", "fetch"} =>
          \A s \in work[c].stale : subject[s] # Nobody /\ ~Live(s)

\* A token about to be issued will be backed: it ends with the session, and with
\* the limit the session has.
WillBeBacked == \A c \in Calls :
    /\ stage[c] = "create" => work[c].life <= SessionTtl /\ work[c].life <= work[c].limit
    /\ stage[c] = "rotate" =>
          /\ work[c].life <= work[c].keep
          /\ Live(sid[work[c].token]) => work[c].life <= absolute[sid[work[c].token]]

\* A counter that has counted expires, and a lock-out is not longer than the part
\* of the window that is over.
LockedWithinWindow == \A u \in Users :
    /\ attempts[u] > 0 => window[u] > 0
    /\ attempts[u] < MaxAttempts => locked[u] = 0
    /\ attempts[u] = MaxAttempts => locked[u] + window[u] <= Window

IInv ==
    /\ TypeOK
    /\ Linked
    /\ Held
    /\ MissingForGood
    /\ IndexComplete
    /\ WillBeBacked
    /\ TokenBacked
    /\ LockedWithinWindow
-----------------------------------------------------------------------------

\* Numbers of sessions and tokens; 0 is neither.
LEMMA Ranges ==
  /\ NoSid \notin Sessions /\ NoToken \notin Tokens
  /\ Sessions \subseteq Nat /\ Tokens \subseteq Nat
  BY AuthAssumption DEF Sessions, Tokens, NoSid, NoToken

\* DEL of the hashes of S: they are gone, the others are as before.
LEMMA Deleted ==
  ASSUME TypeOK, NEW S, DeleteHashes(S)
  PROVE  /\ ttl' \in [Sessions -> 0..AbsoluteMax]
         /\ current' \in [Sessions -> Tokens \cup {NoToken}]
         /\ absolute' \in [Sessions -> Lives]
         /\ subject' = subject
         /\ \A s \in Sessions : s \in S => ttl'[s] = 0 /\ current'[s] = NoToken
         /\ \A s \in Sessions : s \notin S =>
               ttl'[s] = ttl[s] /\ current'[s] = current[s] /\ absolute'[s] = absolute[s]
  <1> USE DEF TypeOK, DeleteHashes, Without
  <1>1. ttl' \in [Sessions -> 0..AbsoluteMax]
    BY AuthAssumption
  <1>2. current' \in [Sessions -> Tokens \cup {NoToken}]
    OBVIOUS
  <1>3. absolute' \in [Sessions -> Lives]
    BY AuthAssumption DEF Lives
  <1> QED
    BY <1>1, <1>2, <1>3

\* What an idle request holds is well-typed.
LEMMA NoWorkWorks == NoWork \in Works
  BY AuthAssumption DEF NoWork, Works, Lives, Sessions, Tokens

\* Times stay in their range.
LEMMA AgedLives == \A n \in Lives : Aged(n) \in Lives
  BY AuthAssumption DEF Lives, Aged

\* Two times grow older together, and no time grows.
LEMMA AgedOrder ==
  /\ \A m, n \in Lives : m <= n => Aged(m) <= Aged(n)
  /\ \A m \in Lives, k \in Nat : m <= k => Aged(m) <= k
  /\ \A m \in Lives, k \in Nat : m <= k /\ k > 1 => Aged(m) <= k - 1
  BY AuthAssumption DEF Lives, Aged

\* A second for the sessions: those on their last one are gone.
LEMMA TickSessions ==
  ASSUME TypeOK, Tick
  PROVE  /\ ttl' \in [Sessions -> 0..AbsoluteMax]
         /\ current' \in [Sessions -> Tokens \cup {NoToken}]
         /\ absolute' \in [Sessions -> Lives]
         /\ subject' = subject /\ sid' = sid /\ index' = index
         /\ \A s \in Sessions :
               \/ ttl[s] > 1 /\ ttl'[s] = ttl[s] - 1 /\ current'[s] = current[s]
                    /\ absolute'[s] = Aged(absolute[s]) /\ Live(s) /\ Live(s)'
               \/ ttl[s] <= 1 /\ ttl'[s] = 0 /\ current'[s] = NoToken /\ ~Live(s)'
  <1> DEFINE due == {s \in Sessions : ttl[s] <= 1}
  <1>1. /\ ttl' = [s \in Sessions |-> IF s \in due THEN 0 ELSE ttl[s] - 1]
        /\ current' = [s \in Sessions |-> IF s \in due THEN NoToken ELSE current[s]]
        /\ absolute' = [s \in Sessions |-> IF s \in due THEN -1 ELSE Aged(absolute[s])]
    BY DEF Tick, Without
  <1>2. \A s \in Sessions : ttl[s] \in Nat /\ ttl[s] <= AbsoluteMax /\ absolute[s] \in Lives
                             /\ current[s] \in Tokens \cup {NoToken}
    BY AuthAssumption DEF TypeOK
  <1>3. ttl' \in [Sessions -> 0..AbsoluteMax]
    BY <1>1, <1>2, AuthAssumption
  <1>4. current' \in [Sessions -> Tokens \cup {NoToken}]
    BY <1>1, <1>2
  <1>5. absolute' \in [Sessions -> Lives]
    <2>1. -1 \in Lives
      BY AuthAssumption DEF Lives
    <2> QED
      BY <1>1, <1>2, <2>1, AgedLives
  <1>6. subject' = subject /\ sid' = sid /\ index' = index
    BY DEF Tick
  <1>7. ASSUME NEW s \in Sessions, ttl[s] > 1
        PROVE  ttl'[s] = ttl[s] - 1 /\ current'[s] = current[s] /\ absolute'[s] = Aged(absolute[s])
    BY <1>1, <1>2, <1>7
  <1>8. ASSUME NEW s \in Sessions, ttl[s] <= 1
        PROVE  ttl'[s] = 0 /\ current'[s] = NoToken
    BY <1>1, <1>2, <1>8
  <1> QED
    BY <1>2, <1>3, <1>4, <1>5, <1>6, <1>7, <1>8 DEF Live

\* A second for the requests: only the lives they are about to write are relative.
LEMMA TickWork ==
  ASSUME TypeOK, Tick
  PROVE  /\ work' \in [Calls -> Works]
         /\ stage' = stage /\ sid' = sid
         /\ \A c \in Calls :
               /\ work'[c].user = work[c].user /\ work'[c].token = work[c].token
               /\ work'[c].target = work[c].target /\ work'[c].keep = work[c].keep
               /\ work'[c].ids = work[c].ids /\ work'[c].stale = work[c].stale
               /\ stage[c] \in {"create", "rotate"} =>
                     /\ work'[c].life = Aged(work[c].life)
                     /\ work'[c].limit = Aged(work[c].limit)
  <1> DEFINE older(c) == [work[c] EXCEPT !.life = Aged(@), !.limit = Aged(@)]
  <1>1. work' = [c \in Calls |-> IF stage[c] \in {"create", "rotate"} THEN older(c) ELSE work[c]]
    BY DEF Tick
  <1>2. \A c \in Calls : work[c] \in Works
    BY DEF TypeOK
  <1>3. \A c \in Calls : older(c) \in Works
    BY <1>2, AgedLives DEF Works
  <1>4. work' \in [Calls -> Works]
    BY <1>1, <1>2, <1>3
  <1>5. stage' = stage /\ sid' = sid
    BY DEF Tick
  <1> QED
    BY <1>1, <1>2, <1>4, <1>5 DEF Works

\* The invariant is preserved by every action, a conjunct at a time.
USE DEF vars, hash, tokens, limiter, NoWork, Works, Stages, Modes, Lives, Live

LEMMA ReserveAttemptStep ==
  ASSUME NEW c \in Calls, NEW u \in Users, IInv, ReserveAttempt(c, u)
  PROVE  IInv'
  <1> USE DEF IInv, ReserveAttempt, Lesser, Goes
  <1>1. TypeOK'
    <2>1. [NoWork EXCEPT !.user = u] \in Works
      BY NoWorkWorks
    <2>2. stage' \in [Calls -> Stages] /\ work' \in [Calls -> Works]
      <3>1. CASE attempts[u] + 1 <= MaxAttempts
        <4> DEFINE w == [NoWork EXCEPT !.user = u]
        <4>1. Goes(c, "login", w)
          BY <3>1
        <4> HIDE DEF w
        <4>2. stage' \in [Calls -> Stages]
          BY <4>1 DEF TypeOK
        <4>3. work' \in [Calls -> Works]
          BY <4>1, <2>1 DEF TypeOK, w
        <4> QED
          BY <4>2, <4>3
      <3>2. CASE ~(attempts[u] + 1 <= MaxAttempts)
        BY <3>2 DEF TypeOK
      <3> QED
        BY <3>1, <3>2
    <2>3. attempts' \in [Users -> 0..MaxAttempts] /\ window' \in [Users -> 0..Window]
      BY AuthAssumption DEF TypeOK
    <2> QED
      BY <2>2, <2>3 DEF TypeOK
  <1>2. Linked'
    BY Ranges DEF TypeOK, Linked, Held
  <1>3. Held'
    BY Ranges DEF TypeOK, Held, Linked
  <1>4. MissingForGood'
    BY Ranges DEF TypeOK, MissingForGood, Linked, Held
  <1>5. IndexComplete'
    BY Ranges DEF TypeOK, IndexComplete, Linked, Held, MissingForGood
  <1>6. WillBeBacked'
    BY Ranges, AuthAssumption DEF TypeOK, WillBeBacked, Held, Linked, TokenBacked
  <1>7. TokenBacked'
    BY Ranges, AuthAssumption DEF TypeOK, TokenBacked, WillBeBacked, Linked, Held
  <1>8. LockedWithinWindow'
    BY Ranges, AuthAssumption DEF TypeOK, LockedWithinWindow
  <1> QED
    BY <1>1, <1>2, <1>3, <1>4, <1>5, <1>6, <1>7, <1>8

LEMMA ResetAttemptsStep ==
  ASSUME NEW c \in Calls, IInv, ResetAttempts(c)
  PROVE  IInv'
  <1> USE DEF IInv, ResetAttempts, Goes, InitialLimit
  <1>1. TypeOK'
    <2> DEFINE w == [work[c] EXCEPT !.life = SessionTtl, !.limit = InitialLimit]
    <2>1. SessionTtl \in Lives /\ InitialLimit \in Lives
      BY AuthAssumption DEF TypeOK
    <2>2. work[c] \in Works
      BY DEF TypeOK
    <2>3. w \in Works
      BY <2>1, <2>2
    <2>4. Goes(c, "create", w)
      OBVIOUS
    <2> HIDE DEF w
    <2>5. stage' \in [Calls -> Stages] /\ work' \in [Calls -> Works]
      BY <2>3, <2>4 DEF TypeOK
    <2>6. attempts' \in [Users -> 0..MaxAttempts] /\ window' \in [Users -> 0..Window]
      <3>1. 0 \in 0..MaxAttempts /\ 0 \in 0..Window
        BY AuthAssumption
      <3> QED
        BY <3>1 DEF TypeOK
    <2>7. locked' \in [Users -> Nat]
      BY DEF TypeOK
    <2> QED
      BY <2>5, <2>6, <2>7 DEF TypeOK
  <1>2. Linked'
    BY Ranges DEF TypeOK, Linked, Held
  <1>3. Held'
    BY Ranges DEF TypeOK, Held, Linked
  <1>4. MissingForGood'
    BY Ranges DEF TypeOK, MissingForGood, Linked, Held
  <1>5. IndexComplete'
    BY Ranges DEF TypeOK, IndexComplete, Linked, Held, MissingForGood
  <1>6. WillBeBacked'
    BY Ranges, AuthAssumption DEF TypeOK, WillBeBacked, Held, Linked, TokenBacked
  <1>7. TokenBacked'
    BY Ranges, AuthAssumption DEF TypeOK, TokenBacked, WillBeBacked, Linked, Held
  <1>8. LockedWithinWindow'
    BY Ranges, AuthAssumption DEF TypeOK, LockedWithinWindow
  <1> QED
    BY <1>1, <1>2, <1>3, <1>4, <1>5, <1>6, <1>7, <1>8

LEMMA CreateSessionStep ==
  ASSUME NEW c \in Calls, NEW s \in Sessions, NEW t \in Tokens, IInv, CreateSession(c, s, t)
  PROVE  IInv'
  <1> USE DEF IInv, CreateSession, IssueToken, FreshSession, FreshToken, Ends, Goes
  <1>1. TypeOK'
    BY Ranges, AuthAssumption DEF TypeOK, Held, Linked
  <1>2. Linked'
    <2>1. work[c].user \in Users
      BY DEF Held
    <2>2. \A r \in Sessions : r # s =>
            subject'[r] = subject[r] /\ current'[r] = current[r] /\ ttl'[r] = ttl[r]
      BY DEF TypeOK
    <2>3. subject'[s] = work[c].user /\ current'[s] = t /\ sid'[t] = s
      BY DEF TypeOK
    <2>4. ttl'[s] = SessionTtl /\ SessionTtl > 0
      BY AuthAssumption DEF TypeOK
    <2>5. \A q \in Tokens : q # t => sid'[q] = sid[q]
      BY DEF TypeOK
    <2>6. subject[s] = Nobody /\ sid[t] = NoSid
      OBVIOUS
    <2>7. \A r \in Sessions : Live(r)' =>
            subject'[r] \in Users /\ current'[r] \in Tokens /\ sid'[current'[r]] = r
      <3> TAKE r \in Sessions
      <3>1. CASE r = s
        BY <3>1, <2>1, <2>3
      <3>2. CASE r # s
        <4>1. HAVE Live(r)'
        <4>2. Live(r) /\ sid[current[r]] = r /\ current[r] \in Tokens /\ subject[r] \in Users
          BY <4>1, <3>2, <2>2 DEF Linked
        <4>3. current[r] # t
          BY <4>2, <2>6, Ranges
        <4> QED
          BY <4>2, <4>3, <3>2, <2>2, <2>5
      <3> QED
        BY <3>1, <3>2
    <2>8. \A r \in Sessions : ~Live(r)' => current'[r] = NoToken
      BY <2>2, <2>4 DEF Linked
    <2>9. \A q \in Tokens : sid'[q] # NoSid => subject'[sid'[q]] # Nobody
      BY <2>1, <2>2, <2>3, <2>5, AuthAssumption DEF Linked, TypeOK
    <2>10. \A u \in Users : \A r \in index'[u] : subject'[r] = u
      <3> TAKE u \in Users
      <3>1. index[u] \subseteq Sessions /\ s \notin index[u]
        BY <2>6, AuthAssumption DEF TypeOK, Linked
      <3>2. index'[u] = IF u = work[c].user THEN index[u] \cup {s} ELSE index[u]
        BY DEF TypeOK
      <3> QED
        BY <3>1, <3>2, <2>2, <2>3 DEF Linked
    <2> QED
      BY <2>7, <2>8, <2>9, <2>10 DEF Linked
  <1>3. Held'
    BY Ranges DEF TypeOK, Held, Linked
  <1>4. MissingForGood'
    BY Ranges DEF TypeOK, MissingForGood, Linked, Held
  <1>5. IndexComplete'
    BY Ranges DEF TypeOK, IndexComplete, Linked, Held, MissingForGood
  <1>6. WillBeBacked'
    <2>1. subject[s] = Nobody
      OBVIOUS
    <2> SUFFICES ASSUME NEW d \in Calls, d # c
                 PROVE  WillBeBacked!(d)'
      BY DEF WillBeBacked, TypeOK
    <2> QED
      BY SMTT(20) DEF WillBeBacked, TypeOK, Held, Linked
  <1>7. TokenBacked'
    BY Ranges, AuthAssumption DEF TypeOK, TokenBacked, WillBeBacked, Linked, Held
  <1>8. LockedWithinWindow'
    BY Ranges, AuthAssumption DEF TypeOK, LockedWithinWindow
  <1> QED
    BY <1>1, <1>2, <1>3, <1>4, <1>5, <1>6, <1>7, <1>8

LEMMA BeginRefreshStep ==
  ASSUME NEW c \in Calls, NEW t \in Tokens, IInv, BeginRefresh(c, t)
  PROVE  IInv'
  <1> USE DEF IInv, BeginRefresh, Accepted, RotatedLife, Lesser, Goes
  <1>1. TypeOK'
    <2> DEFINE l == RotatedLife(sid[t])
               w == [NoWork EXCEPT !.token = t, !.life = l, !.keep = l]
    <2>1. sid[t] \in Sessions /\ current[sid[t]] \in Tokens
      BY DEF TypeOK, Linked
    <2>2. l \in Lives /\ l \in 0..AbsoluteMax
      BY <2>1, AuthAssumption DEF TypeOK
    <2>3. Goes(c, "rotate", w)
      OBVIOUS
    <2> HIDE DEF l
    <2>4. w \in Works
      BY <2>2, NoWorkWorks
    <2> HIDE DEF w
    <2>5. stage' \in [Calls -> Stages] /\ work' \in [Calls -> Works]
      BY <2>3, <2>4 DEF TypeOK
    <2> QED
      BY <2>5 DEF TypeOK
  <1>2. Linked'
    BY Ranges DEF TypeOK, Linked, Held
  <1>3. Held'
    BY Ranges DEF TypeOK, Held, Linked
  <1>4. MissingForGood'
    BY Ranges DEF TypeOK, MissingForGood, Linked, Held
  <1>5. IndexComplete'
    BY Ranges DEF TypeOK, IndexComplete, Linked, Held, MissingForGood
  <1>6. WillBeBacked'
    BY Ranges, AuthAssumption DEF TypeOK, WillBeBacked, Held, Linked, TokenBacked
  <1>7. TokenBacked'
    BY Ranges, AuthAssumption DEF TypeOK, TokenBacked, WillBeBacked, Linked, Held
  <1>8. LockedWithinWindow'
    BY Ranges, AuthAssumption DEF TypeOK, LockedWithinWindow
  <1> QED
    BY <1>1, <1>2, <1>3, <1>4, <1>5, <1>6, <1>7, <1>8

LEMMA RotateStep ==
  ASSUME NEW c \in Calls, NEW t \in Tokens, IInv, Rotate(c, t)
  PROVE  IInv'
  <1> USE DEF IInv, Rotate, IssueToken, FreshToken, Ends, Goes
  <1>1. TypeOK'
    <2> DEFINE s == sid[work[c].token]
    <2>1. s \in Sessions /\ subject[s] \in Users
      BY DEF TypeOK, Held, Linked
    <2>2. work[c].keep \in 0..AbsoluteMax /\ work[c].life \in Lives /\ work[c].token \in Tokens
      BY DEF TypeOK, Held
    <2>3. stage' \in [Calls -> Stages] /\ work' \in [Calls -> Works]
      BY NoWorkWorks DEF TypeOK
    <2>4. ttl' \in [Sessions -> 0..AbsoluteMax]
      BY <2>2 DEF TypeOK
    <2>5. sid' \in [Tokens -> Sessions \cup {NoSid}] /\ life' \in [Tokens -> Lives]
      BY <2>1, <2>2 DEF TypeOK
    <2>6. index' \in [Users -> SUBSET Sessions]
      BY <2>1 DEF TypeOK
    <2>7. current' \in [Sessions -> Tokens \cup {NoToken}] /\ spent' \subseteq Tokens
      BY <2>2 DEF TypeOK
    <2> QED
      BY <2>3, <2>4, <2>5, <2>6, <2>7 DEF TypeOK
  <1>2. Linked'
    <2> DEFINE s == sid[work[c].token]
    <2>1. s \in Sessions /\ subject[s] \in Users /\ ttl'[s] > 0
      BY DEF TypeOK, Held, Linked
    <2>2. current'[s] = t /\ sid'[t] = s /\ sid[t] = NoSid
      BY <2>1 DEF TypeOK
    <2>3. \A r \in Sessions : r # s => current'[r] = current[r] /\ ttl'[r] = ttl[r]
      BY DEF TypeOK
    <2>4. \A q \in Tokens : q # t => sid'[q] = sid[q]
      BY DEF TypeOK
    <2>5. subject' = subject /\ \A u \in Users :
            index'[u] = IF u = subject[s] THEN index[u] \cup {s} ELSE index[u]
      BY <2>1 DEF TypeOK
    <2> HIDE DEF s
    <2>6. \A r \in Sessions : Live(r)' =>
            subject'[r] \in Users /\ current'[r] \in Tokens /\ sid'[current'[r]] = r
      <3> SUFFICES ASSUME NEW r \in Sessions, Live(r)'
                   PROVE  subject'[r] \in Users /\ current'[r] \in Tokens /\ sid'[current'[r]] = r
        OBVIOUS
      <3>1. CASE r = s
        BY <3>1, <2>1, <2>2, <2>5
      <3>2. CASE r # s
        <4>1. Live(r) /\ current'[r] = current[r]
          BY <3>2, <2>3
        <4>2. sid[current[r]] = r /\ current[r] \in Tokens /\ subject[r] \in Users
          BY <4>1 DEF Linked
        <4>3. current[r] # t
          BY <4>2, <2>2, Ranges
        <4> QED
          BY <4>1, <4>2, <4>3, <2>4, <2>5
      <3> QED
        BY <3>1, <3>2
    <2>7. \A r \in Sessions : ~Live(r)' => current'[r] = NoToken
      BY <2>1, <2>3 DEF Linked
    <2>8. \A q \in Tokens : sid'[q] # NoSid => subject'[sid'[q]] # Nobody
      BY <2>1, <2>2, <2>4, <2>5, AuthAssumption DEF Linked
    <2>9. \A u \in Users : \A r \in index'[u] : subject'[r] = u
      BY <2>5 DEF Linked
    <2> QED
      BY <2>6, <2>7, <2>8, <2>9 DEF Linked
  <1>3. Held'
    BY Ranges DEF TypeOK, Held, Linked
  <1>4. MissingForGood'
    BY Ranges DEF TypeOK, MissingForGood, Linked, Held
  <1>5. IndexComplete'
    BY Ranges DEF TypeOK, IndexComplete, Linked, Held, MissingForGood
  <1>6. WillBeBacked'
    <2> SUFFICES ASSUME NEW d \in Calls, d # c
                 PROVE  WillBeBacked!(d)'
      BY DEF WillBeBacked, TypeOK
    <2>1. stage'[d] = stage[d] /\ work'[d] = work[d] /\ absolute' = absolute
      BY DEF TypeOK
    <2>2. stage[d] = "rotate" => work[d].token \in Tokens /\ sid[work[d].token] # NoSid
      BY DEF Held
    <2>3. stage[d] = "rotate" => sid'[work[d].token] = sid[work[d].token]
      BY <2>2 DEF TypeOK
    <2>4. Live(sid[work[c].token])
      OBVIOUS
    <2>5. \A s \in Sessions : Live(s)' => Live(s)
      BY <2>4 DEF TypeOK
    <2>6. stage[d] = "rotate" => sid[work[d].token] \in Sessions
      BY <2>2 DEF TypeOK
    <2> QED
      BY <2>1, <2>3, <2>5, <2>6 DEF WillBeBacked
  <1>7. TokenBacked'
    BY Ranges, AuthAssumption DEF TypeOK, TokenBacked, WillBeBacked, Linked, Held
  <1>8. LockedWithinWindow'
    BY Ranges, AuthAssumption DEF TypeOK, LockedWithinWindow
  <1> QED
    BY <1>1, <1>2, <1>3, <1>4, <1>5, <1>6, <1>7, <1>8

LEMMA RotateReplayStep ==
  ASSUME NEW c \in Calls, IInv, RotateReplay(c)
  PROVE  IInv'
  <1> USE DEF IInv, RotateReplay, DeleteSession, DeleteHashes, Without, Ends, Goes
  <1>1. TypeOK'
    <2> DEFINE S == {sid[work[c].token]}
    <2>1. DeleteHashes(S)
      OBVIOUS
    <2>2. ttl' \in [Sessions -> 0..AbsoluteMax] /\ current' \in [Sessions -> Tokens \cup {NoToken}]
            /\ absolute' \in [Sessions -> Lives]
      BY ONLY <2>1, Deleted, TypeOK
    <2>3. index' \in [Users -> SUBSET Sessions]
      BY DEF TypeOK
    <2>4. stage' \in [Calls -> Stages] /\ work' \in [Calls -> Works]
      BY NoWorkWorks DEF TypeOK
    <2> QED
      BY <2>2, <2>3, <2>4 DEF TypeOK
  <1>2. Linked'
    <2> DEFINE S == {sid[work[c].token]}
    <2>1. DeleteHashes(S)
      OBVIOUS
    <2>2. \A u \in Users : index'[u] \subseteq index[u]
      BY DEF TypeOK
    <2>3. sid' = sid
      OBVIOUS
    <2> HIDE DEF S
    <2>4. \A s \in Sessions : \/ Live(s)' /\ Live(s) /\ current'[s] = current[s]
                              \/ ~Live(s)' /\ current'[s] = NoToken
      BY <2>1, Deleted DEF Linked
    <2>5. subject' = subject
      BY <2>1, Deleted
    <2> QED
      BY ONLY <2>2, <2>3, <2>4, <2>5, Linked DEF Linked
  <1>3. Held'
    BY Ranges DEF TypeOK, Held, Linked
  <1>4. MissingForGood'
    BY Ranges DEF TypeOK, MissingForGood, Linked, Held
  <1>5. IndexComplete'
    BY Ranges DEF TypeOK, IndexComplete, Linked, Held, MissingForGood
  <1>6. WillBeBacked'
    <2> DEFINE S == {sid[work[c].token]}
    <2>1. DeleteHashes(S)
      OBVIOUS
    <2> HIDE DEF S
    <2>2. \A s \in Sessions : Live(s)' => Live(s) /\ absolute'[s] = absolute[s]
      BY <2>1, Deleted
    <2> SUFFICES ASSUME NEW d \in Calls, d # c
                 PROVE  WillBeBacked!(d)'
      BY DEF WillBeBacked, TypeOK
    <2>3. stage'[d] = stage[d] /\ work'[d] = work[d] /\ sid' = sid
      BY DEF TypeOK
    <2>4. stage[d] = "rotate" => sid[work[d].token] \in Sessions
      BY DEF Held, TypeOK
    <2> QED
      BY <2>2, <2>3, <2>4 DEF WillBeBacked
  <1>7. TokenBacked'
    <2> DEFINE S == {sid[work[c].token]}
    <2>1. DeleteHashes(S)
      OBVIOUS
    <2> HIDE DEF S
    <2>2. \A s \in Sessions : Live(s)' => Live(s) /\ ttl'[s] = ttl[s]
            /\ absolute'[s] = absolute[s] /\ current'[s] = current[s]
      BY <2>1, Deleted
    <2>3. life' = life
      OBVIOUS
    <2> QED
      BY ONLY <2>2, <2>3, TokenBacked DEF TokenBacked, Live
  <1>8. LockedWithinWindow'
    BY Ranges, AuthAssumption DEF TypeOK, LockedWithinWindow
  <1> QED
    BY <1>1, <1>2, <1>3, <1>4, <1>5, <1>6, <1>7, <1>8

LEMMA RotateMissingStep ==
  ASSUME NEW c \in Calls, IInv, RotateMissing(c)
  PROVE  IInv'
  <1> USE DEF IInv, RotateMissing, Ends, Goes
  <1>1. TypeOK'
    BY Ranges, AuthAssumption DEF TypeOK, Held, Linked
  <1>2. Linked'
    BY Ranges DEF TypeOK, Linked, Held
  <1>3. Held'
    BY Ranges DEF TypeOK, Held, Linked
  <1>4. MissingForGood'
    BY Ranges DEF TypeOK, MissingForGood, Linked, Held
  <1>5. IndexComplete'
    BY Ranges DEF TypeOK, IndexComplete, Linked, Held, MissingForGood
  <1>6. WillBeBacked'
    BY Ranges, AuthAssumption DEF TypeOK, WillBeBacked, Held, Linked, TokenBacked
  <1>7. TokenBacked'
    BY Ranges, AuthAssumption DEF TypeOK, TokenBacked, WillBeBacked, Linked, Held
  <1>8. LockedWithinWindow'
    BY Ranges, AuthAssumption DEF TypeOK, LockedWithinWindow
  <1> QED
    BY <1>1, <1>2, <1>3, <1>4, <1>5, <1>6, <1>7, <1>8

LEMMA BeginManageStep ==
  ASSUME NEW c \in Calls, NEW t \in Tokens, NEW op \in Stages,
         NEW s \in Sessions \cup {NoSid}, IInv, BeginManage(c, t, op, s)
  PROVE  IInv'
  <1> USE DEF IInv, BeginManage, AccessAccepted, Accepted, Goes
  <1>1. TypeOK'
    <2> DEFINE w == [NoWork EXCEPT !.user = subject[sid[t]], !.target = s]
    <2>1. sid[t] \in Sessions /\ subject[sid[t]] \in Users
      BY DEF TypeOK, Linked
    <2>2. Goes(c, op, w)
      OBVIOUS
    <2>3. w \in Works
      BY <2>1, NoWorkWorks
    <2> HIDE DEF w
    <2>4. stage' \in [Calls -> Stages] /\ work' \in [Calls -> Works]
      BY <2>2, <2>3 DEF TypeOK
    <2> QED
      BY <2>4 DEF TypeOK
  <1>2. Linked'
    BY Ranges DEF TypeOK, Linked, Held
  <1>3. Held'
    BY Ranges DEF TypeOK, Held, Linked
  <1>4. MissingForGood'
    BY Ranges DEF TypeOK, MissingForGood, Linked, Held
  <1>5. IndexComplete'
    BY Ranges DEF TypeOK, IndexComplete, Linked, Held, MissingForGood
  <1>6. WillBeBacked'
    BY Ranges, AuthAssumption DEF TypeOK, WillBeBacked, Held, Linked, TokenBacked
  <1>7. TokenBacked'
    BY Ranges, AuthAssumption DEF TypeOK, TokenBacked, WillBeBacked, Linked, Held
  <1>8. LockedWithinWindow'
    BY Ranges, AuthAssumption DEF TypeOK, LockedWithinWindow
  <1> QED
    BY <1>1, <1>2, <1>3, <1>4, <1>5, <1>6, <1>7, <1>8

LEMMA RevokeStep ==
  ASSUME NEW c \in Calls, IInv, Revoke(c)
  PROVE  IInv'
  <1> USE DEF IInv, Revoke, Owned, DeleteSession, DeleteHashes, Without, Ends, Goes
  <1>1. TypeOK'
    BY Ranges, AuthAssumption DEF TypeOK, Held, Linked
  <1>2. Linked'
    BY Ranges DEF TypeOK, Linked, Held
  <1>3. Held'
    BY Ranges DEF TypeOK, Held, Linked
  <1>4. MissingForGood'
    BY Ranges DEF TypeOK, MissingForGood, Linked, Held
  <1>5. IndexComplete'
    BY Ranges DEF TypeOK, IndexComplete, Linked, Held, MissingForGood
  <1>6. WillBeBacked'
    <2> DEFINE S == {work[c].target}
    <2>1. DeleteHashes(S)
      OBVIOUS
    <2> HIDE DEF S
    <2>2. \A s \in Sessions : Live(s)' => Live(s) /\ absolute'[s] = absolute[s]
      BY <2>1, Deleted
    <2> SUFFICES ASSUME NEW d \in Calls, d # c
                 PROVE  WillBeBacked!(d)'
      BY DEF WillBeBacked, TypeOK
    <2>3. stage'[d] = stage[d] /\ work'[d] = work[d] /\ sid' = sid
      BY DEF TypeOK
    <2>4. stage[d] = "rotate" => sid[work[d].token] \in Sessions
      BY DEF Held, TypeOK
    <2> QED
      BY <2>2, <2>3, <2>4 DEF WillBeBacked
  <1>7. TokenBacked'
    <2> DEFINE S == {work[c].target}
    <2>1. DeleteHashes(S)
      OBVIOUS
    <2> HIDE DEF S
    <2>2. \A s \in Sessions : Live(s)' => Live(s) /\ ttl'[s] = ttl[s]
            /\ absolute'[s] = absolute[s] /\ current'[s] = current[s]
      BY <2>1, Deleted
    <2>3. life' = life
      OBVIOUS
    <2> QED
      BY ONLY <2>2, <2>3, TokenBacked DEF TokenBacked, Live
  <1>8. LockedWithinWindow'
    BY Ranges, AuthAssumption DEF TypeOK, LockedWithinWindow
  <1> QED
    BY <1>1, <1>2, <1>3, <1>4, <1>5, <1>6, <1>7, <1>8

LEMMA RevokeAllStep ==
  ASSUME NEW c \in Calls, IInv, RevokeAll(c)
  PROVE  IInv'
  <1> USE DEF IInv, RevokeAll, Owned, DeleteHashes, Without, Goes
  <1>1. TypeOK'
    BY Ranges, AuthAssumption DEF TypeOK, Held, Linked
  <1>2. Linked'
    BY Ranges DEF TypeOK, Linked, Held
  <1>3. Held'
    BY Ranges DEF TypeOK, Held, Linked
  <1>4. MissingForGood'
    BY Ranges DEF TypeOK, MissingForGood, Linked, Held
  <1>5. IndexComplete'
    BY Ranges DEF TypeOK, IndexComplete, Linked, Held, MissingForGood
  <1>6. WillBeBacked'
    <2> DEFINE S == {work[c].target} \cup {r \in index[work[c].user] : subject[r] = work[c].user}
    <2>1. DeleteHashes(S)
      OBVIOUS
    <2> HIDE DEF S
    <2>2. \A s \in Sessions : Live(s)' => Live(s) /\ absolute'[s] = absolute[s]
      BY <2>1, Deleted
    <2> SUFFICES ASSUME NEW d \in Calls, d # c
                 PROVE  WillBeBacked!(d)'
      BY DEF WillBeBacked, TypeOK
    <2>3. stage'[d] = stage[d] /\ work'[d] = work[d] /\ sid' = sid
      BY DEF TypeOK
    <2>4. stage[d] = "rotate" => sid[work[d].token] \in Sessions
      BY DEF Held, TypeOK
    <2> QED
      BY <2>2, <2>3, <2>4 DEF WillBeBacked
  <1>7. TokenBacked'
    <2> DEFINE S == {work[c].target} \cup {r \in index[work[c].user] : subject[r] = work[c].user}
    <2>1. DeleteHashes(S)
      OBVIOUS
    <2> HIDE DEF S
    <2>2. \A s \in Sessions : Live(s)' => Live(s) /\ ttl'[s] = ttl[s]
            /\ absolute'[s] = absolute[s] /\ current'[s] = current[s]
      BY <2>1, Deleted
    <2>3. life' = life
      OBVIOUS
    <2> QED
      BY ONLY <2>2, <2>3, TokenBacked DEF TokenBacked, Live
  <1>8. LockedWithinWindow'
    BY Ranges, AuthAssumption DEF TypeOK, LockedWithinWindow
  <1> QED
    BY <1>1, <1>2, <1>3, <1>4, <1>5, <1>6, <1>7, <1>8

LEMMA ListIdsStep ==
  ASSUME NEW c \in Calls, IInv, ListIds(c)
  PROVE  IInv'
  <1> USE DEF IInv, ListIds, Goes
  <1>1. TypeOK'
    <2> DEFINE ids == index[work[c].user]
               w == [work[c] EXCEPT !.ids = ids]
    <2>1. work[c] \in Works
      BY DEF TypeOK
    <2>2. ids \in SUBSET Sessions
      BY DEF TypeOK, Held
    <2>3. Goes(c, "fetch", w)
      OBVIOUS
    <2> HIDE DEF ids
    <2>4. w \in Works
      BY <2>1, <2>2
    <2> HIDE DEF w
    <2>5. stage' \in [Calls -> Stages]
      BY <2>3 DEF TypeOK
    <2>6. work' \in [Calls -> Works]
      BY <2>3, <2>4 DEF TypeOK
    <2> QED
      BY <2>5, <2>6 DEF TypeOK
  <1>2. Linked'
    BY Ranges DEF TypeOK, Linked, Held
  <1>3. Held'
    BY Ranges DEF TypeOK, Held, Linked
  <1>4. MissingForGood'
    <2>1. \A s \in index[work[c].user] : subject[s] # Nobody
      BY AuthAssumption DEF Linked, Held
    <2>2. work'[c].ids = index[work[c].user] /\ work'[c].stale = work[c].stale
      BY DEF TypeOK
    <2>3. \A d \in Calls : d # c => stage'[d] = stage[d] /\ work'[d] = work[d]
      BY DEF TypeOK
    <2> QED
      BY <2>1, <2>2, <2>3 DEF MissingForGood
  <1>5. IndexComplete'
    BY Ranges DEF TypeOK, IndexComplete, Linked, Held, MissingForGood
  <1>6. WillBeBacked'
    BY Ranges, AuthAssumption DEF TypeOK, WillBeBacked, Held, Linked, TokenBacked
  <1>7. TokenBacked'
    BY Ranges, AuthAssumption DEF TypeOK, TokenBacked, WillBeBacked, Linked, Held
  <1>8. LockedWithinWindow'
    BY Ranges, AuthAssumption DEF TypeOK, LockedWithinWindow
  <1> QED
    BY <1>1, <1>2, <1>3, <1>4, <1>5, <1>6, <1>7, <1>8

LEMMA FetchRecordStep ==
  ASSUME NEW c \in Calls, NEW s \in Sessions, IInv, FetchRecord(c, s)
  PROVE  IInv'
  <1> USE DEF IInv, FetchRecord, Goes
  <1>1. TypeOK'
    <2> DEFINE left == work[c].ids \ {s}
               seen == IF Live(s) THEN work[c].stale ELSE work[c].stale \cup {s}
               w == [work[c] EXCEPT !.ids = left, !.stale = seen]
    <2>1. work[c] \in Works
      BY DEF TypeOK
    <2>2. left \in SUBSET Sessions /\ seen \in SUBSET Sessions
      BY <2>1
    <2>3. Goes(c, "fetch", w)
      OBVIOUS
    <2> HIDE DEF left, seen
    <2>4. w \in Works
      BY <2>1, <2>2
    <2> HIDE DEF w
    <2>5. stage' \in [Calls -> Stages] /\ work' \in [Calls -> Works]
      BY <2>3, <2>4 DEF TypeOK
    <2> QED
      BY <2>5 DEF TypeOK
  <1>2. Linked'
    BY Ranges DEF TypeOK, Linked, Held
  <1>3. Held'
    BY Ranges DEF TypeOK, Held, Linked
  <1>4. MissingForGood'
    BY Ranges DEF TypeOK, MissingForGood, Linked, Held
  <1>5. IndexComplete'
    BY Ranges DEF TypeOK, IndexComplete, Linked, Held, MissingForGood
  <1>6. WillBeBacked'
    BY Ranges, AuthAssumption DEF TypeOK, WillBeBacked, Held, Linked, TokenBacked
  <1>7. TokenBacked'
    BY Ranges, AuthAssumption DEF TypeOK, TokenBacked, WillBeBacked, Linked, Held
  <1>8. LockedWithinWindow'
    BY Ranges, AuthAssumption DEF TypeOK, LockedWithinWindow
  <1> QED
    BY <1>1, <1>2, <1>3, <1>4, <1>5, <1>6, <1>7, <1>8

LEMMA PruneStep ==
  ASSUME NEW c \in Calls, IInv, Prune(c)
  PROVE  IInv'
  <1> USE DEF IInv, Prune, Ends, Goes
  <1>1. TypeOK'
    BY Ranges, AuthAssumption DEF TypeOK, Held, Linked
  <1>2. Linked'
    BY Ranges DEF TypeOK, Linked, Held
  <1>3. Held'
    BY Ranges DEF TypeOK, Held, Linked
  <1>4. MissingForGood'
    BY Ranges DEF TypeOK, MissingForGood, Linked, Held
  <1>5. IndexComplete'
    BY Ranges DEF TypeOK, IndexComplete, Linked, Held, MissingForGood
  <1>6. WillBeBacked'
    BY Ranges, AuthAssumption DEF TypeOK, WillBeBacked, Held, Linked, TokenBacked
  <1>7. TokenBacked'
    BY Ranges, AuthAssumption DEF TypeOK, TokenBacked, WillBeBacked, Linked, Held
  <1>8. LockedWithinWindow'
    BY Ranges, AuthAssumption DEF TypeOK, LockedWithinWindow
  <1> QED
    BY <1>1, <1>2, <1>3, <1>4, <1>5, <1>6, <1>7, <1>8

LEMMA LeaveStep ==
  ASSUME NEW c \in Calls, IInv, Leave(c)
  PROVE  IInv'
  <1> USE DEF IInv, Leave, Ends, Goes
  <1>1. TypeOK'
    BY Ranges, AuthAssumption DEF TypeOK, Held, Linked
  <1>2. Linked'
    BY Ranges DEF TypeOK, Linked, Held
  <1>3. Held'
    BY Ranges DEF TypeOK, Held, Linked
  <1>4. MissingForGood'
    BY Ranges DEF TypeOK, MissingForGood, Linked, Held
  <1>5. IndexComplete'
    BY Ranges DEF TypeOK, IndexComplete, Linked, Held, MissingForGood
  <1>6. WillBeBacked'
    BY Ranges, AuthAssumption DEF TypeOK, WillBeBacked, Held, Linked, TokenBacked
  <1>7. TokenBacked'
    BY Ranges, AuthAssumption DEF TypeOK, TokenBacked, WillBeBacked, Linked, Held
  <1>8. LockedWithinWindow'
    BY Ranges, AuthAssumption DEF TypeOK, LockedWithinWindow
  <1> QED
    BY <1>1, <1>2, <1>3, <1>4, <1>5, <1>6, <1>7, <1>8

LEMMA LogoutStep ==
  ASSUME NEW t \in Tokens, IInv, Logout(t)
  PROVE  IInv'
  <1> USE DEF IInv, Logout, Accepted, DeleteSession, DeleteHashes, Without
  <1>1. TypeOK'
    <2> DEFINE S == {sid[t]}
    <2>1. DeleteHashes(S)
      OBVIOUS
    <2>2. ttl' \in [Sessions -> 0..AbsoluteMax] /\ current' \in [Sessions -> Tokens \cup {NoToken}]
            /\ absolute' \in [Sessions -> Lives]
      BY ONLY <2>1, Deleted, TypeOK
    <2>3. index' \in [Users -> SUBSET Sessions]
      BY DEF TypeOK
    <2>4. stage' \in [Calls -> Stages] /\ work' \in [Calls -> Works]
      BY NoWorkWorks DEF TypeOK
    <2> QED
      BY <2>2, <2>3, <2>4 DEF TypeOK
  <1>2. Linked'
    BY Ranges DEF TypeOK, Linked, Held
  <1>3. Held'
    BY Ranges DEF TypeOK, Held, Linked
  <1>4. MissingForGood'
    BY Ranges DEF TypeOK, MissingForGood, Linked, Held
  <1>5. IndexComplete'
    BY Ranges DEF TypeOK, IndexComplete, Linked, Held, MissingForGood
  <1>6. WillBeBacked'
    <2> DEFINE S == {sid[t]}
    <2>1. DeleteHashes(S)
      OBVIOUS
    <2> HIDE DEF S
    <2>2. \A s \in Sessions : Live(s)' => Live(s) /\ absolute'[s] = absolute[s]
      BY <2>1, Deleted
    <2> SUFFICES ASSUME NEW d \in Calls
                 PROVE  WillBeBacked!(d)'
      BY DEF WillBeBacked, TypeOK
    <2>3. stage'[d] = stage[d] /\ work'[d] = work[d] /\ sid' = sid
      BY DEF TypeOK
    <2>4. stage[d] = "rotate" => sid[work[d].token] \in Sessions
      BY DEF Held, TypeOK
    <2> QED
      BY <2>2, <2>3, <2>4 DEF WillBeBacked
  <1>7. TokenBacked'
    <2> DEFINE S == {sid[t]}
    <2>1. DeleteHashes(S)
      OBVIOUS
    <2> HIDE DEF S
    <2>2. \A s \in Sessions : Live(s)' => Live(s) /\ ttl'[s] = ttl[s]
            /\ absolute'[s] = absolute[s] /\ current'[s] = current[s]
      BY <2>1, Deleted
    <2>3. life' = life
      OBVIOUS
    <2> QED
      BY ONLY <2>2, <2>3, TokenBacked DEF TokenBacked, Live
  <1>8. LockedWithinWindow'
    BY Ranges, AuthAssumption DEF TypeOK, LockedWithinWindow
  <1> QED
    BY <1>1, <1>2, <1>3, <1>4, <1>5, <1>6, <1>7, <1>8

LEMMA TickStep ==
  ASSUME IInv, Tick
  PROVE  IInv'
  <1> USE DEF IInv
  <1>1. TypeOK'
    <2>1. ttl' \in [Sessions -> 0..AbsoluteMax]
      BY TickSessions
    <2>2. current' \in [Sessions -> Tokens \cup {NoToken}] /\ absolute' \in [Sessions -> Lives]
      BY TickSessions
    <2>3. life' \in [Tokens -> Lives]
      BY AgedLives DEF TypeOK, Tick
    <2>4. work' \in [Calls -> Works]
      BY TickWork
    <2>5. attempts' \in [Users -> 0..MaxAttempts]
      <3>1. 0 \in 0..MaxAttempts
        BY AuthAssumption
      <3> QED
        BY <3>1 DEF TypeOK, Tick
    <2>8. window' \in [Users -> 0..Window]
      <3>1. \A u \in Users : window[u] \in 0..Window
        BY DEF TypeOK
      <3>2. \A u \in Users : (IF window[u] > 0 THEN window[u] - 1 ELSE 0) \in 0..Window
        <4> SUFFICES ASSUME NEW u \in Users
                     PROVE  (IF window[u] > 0 THEN window[u] - 1 ELSE 0) \in 0..Window
          OBVIOUS
        <4> DEFINE n == window[u]
        <4>1. n \in 0..Window
          BY <3>1
        <4> HIDE DEF n
        <4>2. (IF n > 0 THEN n - 1 ELSE 0) \in 0..Window
          BY <4>1, AuthAssumption
        <4> QED
          BY <4>2 DEF n
      <3> QED
        BY <3>2 DEF Tick
    <2>6. locked' \in [Users -> Nat]
      <3>1. \A u \in Users : locked[u] + 1 \in Nat
        BY DEF TypeOK
      <3> QED
        BY <3>1 DEF Tick
    <2>7. UNCHANGED <<mode, index, sid, spent, stage, subject>>
      BY DEF Tick
    <2> QED
      BY <2>1, <2>2, <2>3, <2>4, <2>5, <2>6, <2>7, <2>8 DEF TypeOK
  <1>2. Linked'
    BY TickSessions DEF Linked, TypeOK
  <1>3. Held'
    BY TickWork DEF Held, TypeOK
  <1>4. MissingForGood'
    BY TickSessions, TickWork DEF MissingForGood, TypeOK
  <1>5. IndexComplete'
    BY TickSessions DEF IndexComplete, TypeOK
  <1>6. WillBeBacked'
    <2> SUFFICES ASSUME NEW d \in Calls
                 PROVE  WillBeBacked!(d)'
      BY DEF WillBeBacked
    <2>1. work[d].life \in Lives /\ work[d].limit \in Lives /\ work[d].keep \in 0..AbsoluteMax
      BY DEF TypeOK
    <2>2. CASE stage[d] = "create"
      <3>1. work'[d].life = Aged(work[d].life) /\ work'[d].limit = Aged(work[d].limit)
        BY <2>2, TickWork
      <3>2. work[d].life <= SessionTtl /\ work[d].life <= work[d].limit
        BY <2>2 DEF WillBeBacked
      <3>3. Aged(work[d].life) <= SessionTtl
        BY <2>1, <3>2, AuthAssumption, AgedOrder
      <3>4. Aged(work[d].life) <= Aged(work[d].limit)
        BY <2>1, <3>2, AuthAssumption, AgedOrder
      <3> QED
        BY <2>2, <3>1, <3>3, <3>4, TickWork
    <2>3. CASE stage[d] = "rotate"
      <3> DEFINE s == sid[work[d].token]
      <3>1. work'[d].life = Aged(work[d].life) /\ work'[d].keep = work[d].keep
              /\ sid'[work'[d].token] = s
        BY <2>3, TickWork
      <3>2. work[d].life <= work[d].keep
        BY <2>3 DEF WillBeBacked
      <3>3. Aged(work[d].life) <= work[d].keep
        BY <2>1, <3>2, AuthAssumption, AgedOrder
      <3>4. s \in Sessions
        BY <2>3 DEF Held, TypeOK
      <3>5. ASSUME NEW r \in Sessions, r = s, ttl'[r] > 0
            PROVE  Aged(work[d].life) <= absolute'[r]
        <4>1. Live(r) /\ absolute'[r] = Aged(absolute[r])
          BY <3>5, TickSessions
        <4>2. work[d].life <= absolute[r] /\ absolute[r] \in Lives
          BY <4>1, <3>5, <2>3 DEF WillBeBacked, TypeOK
        <4> QED
          BY <4>1, <4>2, <2>1, AgedOrder
      <3> QED
        BY <2>3, <3>1, <3>3, <3>4, <3>5, TickWork
    <2> QED
      BY <2>2, <2>3, TickWork
  <1>7. TokenBacked'
    <2> SUFFICES ASSUME NEW s \in Sessions, Live(s)'
                 PROVE  TokenBacked!(s)!2'
      BY DEF TokenBacked
    <2>1. Live(s) /\ ttl'[s] = ttl[s] - 1 /\ ttl[s] > 1 /\ current'[s] = current[s]
            /\ absolute'[s] = Aged(absolute[s])
      BY TickSessions
    <2>2. current[s] \in Tokens /\ life[current[s]] <= ttl[s] /\ life[current[s]] <= absolute[s]
      BY <2>1 DEF TokenBacked, Linked
    <2>3. life'[current[s]] = Aged(life[current[s]])
      BY <2>2 DEF TypeOK, Tick
    <2>4. life[current[s]] \in Lives /\ absolute[s] \in Lives /\ ttl[s] \in Nat
      BY <2>2, AuthAssumption DEF TypeOK
    <2>5. Aged(life[current[s]]) <= ttl[s] - 1
      BY <2>1, <2>2, <2>4, AgedOrder
    <2>6. Aged(life[current[s]]) <= Aged(absolute[s])
      BY <2>2, <2>4, AgedOrder
    <2> QED
      BY <2>1, <2>3, <2>5, <2>6
  <1>8. LockedWithinWindow'
    <2> SUFFICES ASSUME NEW u \in Users
                 PROVE  LockedWithinWindow!(u)'
      BY DEF LockedWithinWindow
    <2>1. window[u] \in Nat /\ attempts[u] \in Nat /\ locked[u] \in Nat /\ attempts[u] <= MaxAttempts
      BY AuthAssumption DEF TypeOK
    <2>2. window'[u] = IF window[u] > 0 THEN window[u] - 1 ELSE 0
      BY DEF TypeOK, Tick
    <2>3. attempts'[u] = IF window[u] = 1 THEN 0 ELSE attempts[u]
      BY DEF TypeOK, Tick
    <2>4. locked'[u] = IF attempts'[u] = MaxAttempts THEN locked[u] + 1 ELSE 0
      BY DEF TypeOK, Tick
    <2> QED
      BY <2>1, <2>2, <2>3, <2>4, AuthAssumption DEF LockedWithinWindow
  <1> QED
    BY <1>1, <1>2, <1>3, <1>4, <1>5, <1>6, <1>7, <1>8

-----------------------------------------------------------------------------

LEMMA InitIInv == Init => IInv
  <1> SUFFICES ASSUME Init PROVE IInv
    OBVIOUS
  <1> USE AuthAssumption, Ranges DEF Init
  <1>1. -1 \in Lives
    OBVIOUS
  <1>2. TypeOK
    BY <1>1, NoWorkWorks DEF TypeOK
  <1>3. Linked /\ Held /\ MissingForGood /\ IndexComplete /\ WillBeBacked /\ TokenBacked
    BY DEF Linked, Held, MissingForGood, IndexComplete, WillBeBacked, TokenBacked
  <1>4. LockedWithinWindow
    BY DEF LockedWithinWindow
  <1> QED
    BY <1>2, <1>3, <1>4 DEF IInv

LEMMA StepIInv == IInv /\ [Next]_vars => IInv'
  <1> SUFFICES ASSUME IInv, [Next]_vars PROVE IInv'
    OBVIOUS
  <1>1. ASSUME NEW c \in Calls, Login(c) PROVE IInv'
    BY <1>1, ReserveAttemptStep, ResetAttemptsStep, CreateSessionStep DEF Login
  <1>2. ASSUME NEW c \in Calls, Refresh(c) PROVE IInv'
    BY <1>2, BeginRefreshStep, RotateStep, RotateReplayStep, RotateMissingStep DEF Refresh
  <1>3. ASSUME NEW c \in Calls, Manage(c) PROVE IInv'
    <2>1. ASSUME NEW t \in Tokens, NEW op \in Stages, NEW s \in Sessions \cup {NoSid},
                 BeginManage(c, t, op, s)
          PROVE  IInv'
      BY <2>1, BeginManageStep
    <2>2. ASSUME NEW s \in Sessions, FetchRecord(c, s) PROVE IInv'
      BY <2>2, FetchRecordStep
    <2>3. CASE Revoke(c) \/ RevokeAll(c) \/ ListIds(c) \/ Prune(c)
      BY <2>3, RevokeStep, RevokeAllStep, ListIdsStep, PruneStep
    <2> QED
      BY <1>3, <2>1, <2>2, <2>3 DEF Manage
  <1>4. ASSUME NEW c \in Calls, Leave(c) PROVE IInv'
    BY <1>4, LeaveStep
  <1>5. ASSUME NEW t \in Tokens, Logout(t) PROVE IInv'
    BY <1>5, LogoutStep
  <1>6. CASE Tick
    BY <1>6, TickStep
  <1>7. CASE UNCHANGED vars
    BY <1>7 DEF IInv, TypeOK, Linked, Held, MissingForGood, IndexComplete, WillBeBacked,
       TokenBacked, LockedWithinWindow
  <1> QED
    BY <1>1, <1>2, <1>3, <1>4, <1>5, <1>6, <1>7 DEF Next

LEMMA Inductive == Spec => []IInv
  BY InitIInv, StepIInv, PTL DEF Spec

\* Every variable has its type; in particular no time to live is negative or
\* beyond the absolute maximum.
THEOREM TypeCorrect == Spec => []TypeOK
  <1>1. IInv => TypeOK
    BY DEF IInv
  <1> QED
    BY <1>1, Inductive, PTL

\* IndexComplete, for any number of concurrent requests: listing and pruning, and
\* every script, keep each live session in its user's index.
THEOREM IndexCorrect == Spec => []IndexComplete
  <1>1. IInv => IndexComplete
    BY DEF IInv
  <1> QED
    BY <1>1, Inductive, PTL

\* TokenBacked, for all lifetimes and both expiration modes.
THEOREM BackingCorrect == Spec => []TokenBacked
  <1>1. IInv => TokenBacked
    BY DEF IInv
  <1> QED
    BY <1>1, Inductive, PTL

\* LockoutEnds, for any limit and window.
THEOREM LockoutCorrect == Spec => []LockoutEnds
  <1>1. ASSUME IInv, NEW u \in Users PROVE locked[u] < Window
    <2>1. attempts[u] \in 0..MaxAttempts /\ window[u] \in 0..Window /\ locked[u] \in Nat
      BY <1>1 DEF IInv, TypeOK
    <2> QED
      BY <1>1, <2>1, AuthAssumption DEF IInv, LockedWithinWindow
  <1>2. IInv => LockoutEnds
    BY <1>1 DEF LockoutEnds
  <1> QED
    BY <1>2, Inductive, PTL

-----------------------------------------------------------------------------

\* The action that lets a request be "swept" is RevokeAll.
LEMMA SweptByScript ==
  ASSUME IInv, [Next]_vars, NEW c \in Calls, stage[c] = "revoke_all", stage'[c] = "swept"
  PROVE  RevokeAll(c)
  <1> USE DEF IInv, TypeOK, Goes, Ends
  <1>1. ASSUME NEW d \in Calls, Login(d) PROVE FALSE
    <2>1. ASSUME NEW u \in Users, ReserveAttempt(d, u) PROVE FALSE
      BY <2>1 DEF ReserveAttempt
    <2>2. CASE ResetAttempts(d)
      BY <2>2 DEF ResetAttempts
    <2>3. ASSUME NEW s \in Sessions, NEW t \in Tokens, CreateSession(d, s, t) PROVE FALSE
      BY <2>3 DEF CreateSession
    <2> QED
      BY <1>1, <2>1, <2>2, <2>3 DEF Login
  <1>2. ASSUME NEW d \in Calls, Refresh(d) PROVE FALSE
    BY <1>2 DEF Refresh, BeginRefresh, Rotate, RotateReplay, RotateMissing
  <1>3. ASSUME NEW d \in Calls, Manage(d) PROVE RevokeAll(c)
    <2>1. CASE RevokeAll(d)
      BY <2>1 DEF RevokeAll
    <2>2. CASE Revoke(d) \/ ListIds(d) \/ Prune(d)
      BY <2>2 DEF Revoke, ListIds, Prune
    <2>3. ASSUME NEW t \in Tokens, NEW op \in Stages, NEW s \in Sessions \cup {NoSid},
                 BeginManage(d, t, op, s)
          PROVE  FALSE
      BY <2>3 DEF BeginManage
    <2>4. ASSUME NEW s \in Sessions, FetchRecord(d, s) PROVE FALSE
      BY <2>4 DEF FetchRecord
    <2> QED
      BY <1>3, <2>1, <2>2, <2>3, <2>4 DEF Manage
  <1>4. ASSUME NEW d \in Calls, Leave(d) PROVE FALSE
    BY <1>4 DEF Leave
  <1>5. ASSUME NEW t \in Tokens, Logout(t) PROVE FALSE
    BY <1>5 DEF Logout
  <1>6. CASE Tick
    BY <1>6 DEF Tick
  <1> QED
    BY <1>1, <1>2, <1>3, <1>4, <1>5, <1>6 DEF Next

\* RevokeAllSweeps, for any number of sessions: the script deletes what the index
\* names, and the index misses nothing.
THEOREM SweepCorrect == Spec => RevokeAllSweeps
  <1>1. ASSUME IInv, [Next]_vars, NEW c \in Calls, stage[c] = "revoke_all", stage'[c] = "swept",
               NEW s \in Sessions, subject[s] = work[c].user
        PROVE  ~Live(s)'
    <2> DEFINE u == work[c].user
               S == {work[c].target} \cup {r \in index[u] : subject[r] = u}
    <2>1. RevokeAll(c)
      BY <1>1, SweptByScript
    <2>2. DeleteHashes(S)
      BY <2>1 DEF RevokeAll
    <2>3. TypeOK
      BY <1>1 DEF IInv
    <2>4. Live(s) => s \in S
      BY <1>1 DEF IInv, IndexComplete
    <2> HIDE DEF S
    <2>5. s \in S => ttl'[s] = 0
      BY <2>2, <2>3, Deleted
    <2>6. s \notin S => ttl'[s] = ttl[s]
      BY <2>2, <2>3, Deleted
    <2> QED
      BY <2>4, <2>5, <2>6
  <1>2. IInv /\ [Next]_vars =>
          [\A c \in Calls : stage[c] = "revoke_all" /\ stage'[c] = "swept" =>
             \A s \in Sessions : subject[s] = work[c].user => ~Live(s)']_vars
    BY <1>1
  <1> QED
    BY <1>2, Inductive, PTL DEF Spec, RevokeAllSweeps

-----------------------------------------------------------------------------

USE DEF Chain!vars, Phase

\* What leaves the sessions' phases and the tokens alone is a stutter.
LEMMA ChainStutter ==
  ASSUME UNCHANGED <<subject, sid, current, spent>>,
         \A s \in Sessions : Live(s)' <=> Live(s)
  PROVE  UNCHANGED Chain!vars
  BY DEF Live

\* A fresh token bears no session, then the one it is issued for.
LEMMA ChainIssue ==
  ASSUME TypeOK, NEW s \in Sessions, NEW t \in Tokens, NEW exp, IssueToken(t, s, exp)
  PROVE  Chain!Issue(s, t)
  <1> USE DEF IssueToken, FreshToken, TypeOK
  <1>1. {sid[t]} \ {NoSid} = {}
    OBVIOUS
  <1>2. {s} \ {NoSid} = {s}
    BY Ranges
  <1>3. \A q \in Tokens : sid'[q] = IF q = t THEN s ELSE sid[q]
    OBVIOUS
  <1>4. [q \in Tokens |-> {sid'[q]} \ {NoSid}] =
          [[q \in Tokens |-> {sid[q]} \ {NoSid}] EXCEPT ![t] = {s}]
    BY <1>2, <1>3
  <1>5. current' = [current EXCEPT ![s] = t]
    OBVIOUS
  <1> QED
    BY <1>1, <1>4, <1>5 DEF Chain!Issue

\* A login opens a session.
LEMMA ChainOpen ==
  ASSUME IInv, NEW c \in Calls, NEW s \in Sessions, NEW t \in Tokens, CreateSession(c, s, t)
  PROVE  Chain!Open(s, t)
  <1> USE DEF IInv, CreateSession, FreshSession
  <1>1. work[c].user # Nobody /\ ttl'[s] > 0 /\ subject'[s] # Nobody
    BY AuthAssumption DEF TypeOK, Held
  <1>2. \A r \in Sessions : r # s => subject'[r] = subject[r] /\ ttl'[r] = ttl[r]
    BY DEF TypeOK
  <1>3. Chain!Issue(s, t)
    BY ChainIssue DEF TypeOK
  <1> QED
    BY <1>1, <1>2, <1>3 DEF Chain!Open

\* A rotation exchanges the token.
LEMMA ChainExchange ==
  ASSUME IInv, NEW c \in Calls, NEW t \in Tokens, Rotate(c, t),
         NEW s \in Sessions, s = sid[work[c].token]
  PROVE  Chain!Exchange(s, t)
  <1> USE DEF IInv, Rotate
  <1>1. s \in Sessions /\ subject[s] # Nobody /\ ttl[s] > 0 /\ ttl'[s] > 0
    BY AuthAssumption DEF TypeOK, Held, Linked
  <1>2. \A r \in Sessions : r # s => ttl'[r] = ttl[r]
    BY DEF TypeOK
  <1>3. Chain!Issue(s, t)
    BY <1>1, ChainIssue DEF TypeOK
  <1> QED
    BY <1>1, <1>2, <1>3 DEF Chain!Exchange

\* Where hashes go, whatever the reason, sessions end.
LEMMA ChainEnd ==
  ASSUME IInv, UNCHANGED <<subject, sid, spent>>,
         current' \in [Sessions -> Tokens \cup {NoToken}],
         \A s \in Sessions : \/ (Live(s)' <=> Live(s)) /\ current'[s] = current[s]
                             \/ ~Live(s)' /\ current'[s] = NoToken
  PROVE  Chain!Next
  <1>1. PICK S \in SUBSET Sessions : S = {s \in Sessions : Live(s) /\ ~Live(s)'}
    OBVIOUS
  <1>2. \A s \in S : Phase(s) = "live"
    BY <1>1, AuthAssumption DEF IInv, Linked
  <1>3. \A s \in Sessions : Phase(s)' = IF s \in S THEN "ended" ELSE Phase(s)
    BY <1>1, <1>2
  <1>4. \A s \in Sessions : current'[s] = IF s \in S THEN NoToken ELSE current[s]
    BY <1>1 DEF IInv, Linked
  <1>5. Chain!End(S)
    BY <1>2, <1>3, <1>4 DEF Chain!End
  <1> QED
    BY <1>5 DEF Chain!Next

\* ChainSpec, for any number of requests, sessions and tokens: whatever is
\* interleaved, tokens are exchanged along one chain for each session.
THEOREM ImplementsChain == Spec => ChainSpec
  <1>1. Init => Chain!Init
    BY Ranges DEF Init, Chain!Init
  <1>2. ASSUME IInv, [Next]_vars PROVE [Chain!Next]_(Chain!vars)
    <2> USE <1>2 DEF IInv
    <2>1. ASSUME NEW c \in Calls, Login(c) PROVE [Chain!Next]_(Chain!vars)
      <3>1. ASSUME NEW s \in Sessions, NEW t \in Tokens, CreateSession(c, s, t)
            PROVE  Chain!Next
        BY <3>1, ChainOpen DEF Chain!Next
      <3>2. ASSUME NEW u \in Users, ReserveAttempt(c, u) PROVE UNCHANGED Chain!vars
        BY <3>2, ChainStutter DEF ReserveAttempt
      <3>3. CASE ResetAttempts(c)
        BY <3>3, ChainStutter DEF ResetAttempts
      <3> QED
        BY <2>1, <3>1, <3>2, <3>3 DEF Login
    <2>2. ASSUME NEW c \in Calls, Refresh(c) PROVE [Chain!Next]_(Chain!vars)
      <3>1. ASSUME NEW t \in Tokens, Rotate(c, t) PROVE Chain!Next
        <4>1. PICK s \in Sessions : s = sid[work[c].token]
          BY <3>1 DEF Rotate, TypeOK, Held
        <4>2. Chain!Exchange(s, t)
          BY <3>1, <4>1, ChainExchange
        <4> QED
          BY <4>2 DEF Chain!Next
      <3>2. ASSUME NEW t \in Tokens, BeginRefresh(c, t) PROVE UNCHANGED Chain!vars
        BY <3>2, ChainStutter DEF BeginRefresh
      <3>3. CASE RotateReplay(c)
        <4> DEFINE S == {sid[work[c].token]}
        <4>1. DeleteHashes(S) /\ UNCHANGED <<sid, spent>>
          BY <3>3 DEF RotateReplay, DeleteSession
        <4> HIDE DEF S
        <4> QED
          BY <4>1, Deleted, ChainEnd
      <3>4. CASE RotateMissing(c)
        BY <3>4, ChainStutter DEF RotateMissing
      <3> QED
        BY <2>2, <3>1, <3>2, <3>3, <3>4 DEF Refresh
    <2>3. ASSUME NEW c \in Calls, Manage(c) PROVE [Chain!Next]_(Chain!vars)
      <3>1. CASE Revoke(c)
        <4> DEFINE S == {work[c].target}
        <4>1. DeleteHashes(S) /\ UNCHANGED <<sid, spent>>
          BY <3>1 DEF Revoke, DeleteSession
        <4> HIDE DEF S
        <4> QED
          BY <4>1, Deleted, ChainEnd
      <3>2. CASE RevokeAll(c)
        <4> DEFINE S == {work[c].target}
                          \cup {r \in index[work[c].user] : subject[r] = work[c].user}
        <4>1. DeleteHashes(S) /\ UNCHANGED <<sid, spent>>
          BY <3>2 DEF RevokeAll
        <4> HIDE DEF S
        <4> QED
          BY <4>1, Deleted, ChainEnd
      <3>3. ASSUME NEW t \in Tokens, NEW op \in Stages, NEW s \in Sessions \cup {NoSid},
                   BeginManage(c, t, op, s)
            PROVE  UNCHANGED Chain!vars
        BY <3>3, ChainStutter DEF BeginManage
      <3>4. ASSUME NEW s \in Sessions, FetchRecord(c, s) PROVE UNCHANGED Chain!vars
        BY <3>4, ChainStutter DEF FetchRecord
      <3>5. CASE ListIds(c) \/ Prune(c)
        BY <3>5, ChainStutter DEF ListIds, Prune
      <3> QED
        BY <2>3, <3>1, <3>2, <3>3, <3>4, <3>5 DEF Manage
    <2>4. ASSUME NEW c \in Calls, Leave(c) PROVE UNCHANGED Chain!vars
      BY <2>4, ChainStutter DEF Leave
    <2>5. ASSUME NEW t \in Tokens, Logout(t) PROVE Chain!Next
      <3> DEFINE S == {sid[t]}
      <3>1. DeleteHashes(S) /\ UNCHANGED <<sid, spent>>
        BY <2>5 DEF Logout, DeleteSession
      <3> HIDE DEF S
      <3> QED
        BY <3>1, Deleted, ChainEnd
    <2>6. CASE Tick
      <3>1. UNCHANGED <<subject, sid, spent>>
        BY <2>6 DEF Tick
      <3>2. \A s \in Sessions : \/ (Live(s)' <=> Live(s)) /\ current'[s] = current[s]
                                \/ ~Live(s)' /\ current'[s] = NoToken
        BY <2>6, TickSessions
      <3> QED
        BY <2>6, <3>1, <3>2, TickSessions, ChainEnd
    <2>7. CASE UNCHANGED vars
      BY <2>7, ChainStutter
    <2> QED
      BY <2>1, <2>2, <2>3, <2>4, <2>5, <2>6, <2>7 DEF Next
  <1> QED
    BY <1>1, <1>2, Inductive, PTL DEF Spec, ChainSpec, Chain!Spec
================================================================================
