---------------------------- MODULE SessionRotation ----------------------------
(***************************************************************************)
(* One login session and the refresh tokens that renew it:                 *)
(*   backend/src/auth/auth.service.ts, token.service.ts,                   *)
(*   backend/src/auth/guards/jwt-auth.guard.ts,                            *)
(*   backend/src/sessions/sessions.service.ts.                             *)
(* Sessions share no row but the user's, which they only read.             *)
(*                                                                         *)
(* A refresh reads the session, signs a new token and then replaces the    *)
(* old one with a compare-and-swap; a logout passes the guard and then     *)
(* revokes; a login reads the user, signs and then inserts the row.        *)
(* Nothing is locked in between, and the client may have sent the same     *)
(* cookie several times, or never get its answer.  Every condition on the  *)
(* time compares with a `now` taken in the process before the statement is *)
(* sent, so that the clock may advance until the statement runs.           *)
(*                                                                         *)
(* Left out: passwords and roles; access tokens, which carry no state; the *)
(* hash, which is taken to tell tokens apart.                              *)
(***************************************************************************)
EXTENDS Integers, Sequences

CONSTANTS
  Requests,    \* requests in flight at once
  Second,      \* the ticks of the clock in a second
  Ttl,         \* jwtRefreshTtlSeconds, in ticks
  MaxTokens,   \* bounds the refresh tokens that are signed
  MaxClock     \* bounds the clock

ASSUME BoundsAssumption ==
  Second \in Nat \ {0} /\ Ttl \in Nat /\ MaxTokens \in Nat /\ MaxClock \in Nat

VARIABLES
  session,     \* the row; token 0: not logged in yet
  expiries,    \* when the n-th signed refresh token expires, and the row it is for
  cookies,     \* tokens that have reached the client
  rotations,   \* history: the swaps that were done, <<old, new>>
  suspended,   \* User.status
  requests,    \* the local state of each request
  clock

vars == <<session, expiries, cookies, rotations, suspended, requests, clock>>

Tokens == 1..Len(expiries)

SessionStates ==
  [token : Nat, rotationVersion : Nat, revoked : BOOLEAN, expiresAt : Nat]

\* token: the cookie presented; version: the rotation_version read; next: the
\* token signed; now: the time its next statement compares with.
RequestStates ==
  [at : {"idle", "sign", "create", "read", "issue", "rotate", "update", "answer", "guard", "revoke"},
   token : Nat, version : Nat, next : Nat, now : Nat]

NoRequest == [at |-> "idle", token |-> 0, version |-> 0, next |-> 0, now |-> 0]

Init ==
  /\ session = [token |-> 0, rotationVersion |-> 0, revoked |-> FALSE, expiresAt |-> 0]
  /\ expiries = <<>>
  /\ cookies = {} /\ rotations = {}
  /\ suspended = FALSE
  /\ requests = [r \in Requests |-> NoRequest]
  /\ clock = 0

-----------------------------------------------------------------------------

At(r, step) == requests[r].at = step
Ends(r) == requests' = [requests EXCEPT ![r] = NoRequest]
Goes(r, step) == requests' = [requests EXCEPT ![r].at = step]
Reads == UNCHANGED <<session, expiries, cookies, rotations, suspended, clock>>

LoggedIn == session.token # 0
Expired == session.expiresAt <= clock
Unexpired(r) == requests[r].now < session.expiresAt

\* AuthService.login: the user is read and the password verified.  Every login
\* opens a session of its own; this is the one of the model's row.
BeginLogin(r) ==
  /\ At(r, "idle") /\ ~LoggedIn /\ ~suspended
  /\ expiries = <<>> /\ \A q \in Requests : ~At(q, "sign")
  /\ Goes(r, "sign") /\ Reads

\* issueRefreshToken: jwt counts whole seconds from the second it is signed in,
\* the row's expiresAt milliseconds.
Issue(r) ==
  /\ At(r, "sign") \/ At(r, "issue")
  /\ Len(expiries) < MaxTokens
  /\ expiries' = Append(expiries, [jwt |-> clock - (clock % Second) + Ttl, row |-> clock + Ttl])
  /\ requests' = [requests EXCEPT ![r].at = IF At(r, "sign") THEN "create" ELSE "rotate",
                                  ![r].next = Len(expiries) + 1]
  /\ UNCHANGED <<session, cookies, rotations, suspended, clock>>

\* SessionsService.create; the status of the user is not looked at again.
Create(r) ==
  LET n == requests[r].next IN
  /\ At(r, "create")
  /\ session' = [token |-> n, rotationVersion |-> 0, revoked |-> FALSE,
                 expiresAt |-> expiries[n].row]
  /\ Goes(r, "answer")
  /\ UNCHANGED <<expiries, cookies, rotations, suspended, clock>>

\* verifyRefreshToken: the signature and the token's own expiry; then the `now`
\* of getActiveWithUser.
BeginRefresh(r, t) ==
  /\ At(r, "idle") /\ clock < expiries[t].jwt
  /\ requests' = [requests EXCEPT ![r].at = "read", ![r].token = t, ![r].now = clock]
  /\ Reads

\* Mutant: reading the session counts as its use.
ReadCounts(r) ==
  /\ At(r, "read")
  /\ IF ~session.revoked /\ Unexpired(r) /\ ~suspended /\ session.token = requests[r].token
     THEN /\ requests' = [requests EXCEPT ![r].at = "issue",
                                          ![r].version = session.rotationVersion + 1]
          /\ session' = [session EXCEPT !.rotationVersion = @ + 1]
     ELSE Ends(r) /\ UNCHANGED session
  /\ UNCHANGED <<expiries, cookies, rotations, suspended, clock>>

\* Mutant: the user's status is looked at by the guard alone.
ReadsOnlySession(r) ==
  /\ At(r, "read")
  /\ IF ~session.revoked /\ Unexpired(r) /\ session.token = requests[r].token
     THEN requests' = [requests EXCEPT ![r].at = "issue", ![r].version = session.rotationVersion]
     ELSE Ends(r)
  /\ Reads

\* getActiveWithUser, hashesMatch.
Read(r) ==
  /\ At(r, "read")
  /\ IF ~session.revoked /\ Unexpired(r) /\ ~suspended /\ session.token = requests[r].token
     THEN requests' = [requests EXCEPT ![r].at = "issue", ![r].version = session.rotationVersion]
     ELSE Ends(r)
  /\ Reads

\* SessionsService.rotate, its first line.
TakeNow(r) ==
  /\ At(r, "rotate")
  /\ requests' = [requests EXCEPT ![r].at = "update", ![r].now = clock]
  /\ Reads

Expected(r) ==
  session.token = requests[r].token /\ session.rotationVersion = requests[r].version

\* Mutant: the row is written by its id, as long as the session is open.
SwapsById(r) == ~session.revoked /\ Unexpired(r)

\* Mutant: the session was seen to be open when it was read.
SwapsAnyState(r) == Expected(r)

\* SessionsService.rotate: the condition of its one UPDATE.
Swaps(r) == Expected(r) /\ ~session.revoked /\ Unexpired(r)

\* The UPDATE, when it runs.
Rotate(r) ==
  LET n == requests[r].next IN
  /\ At(r, "update")
  /\ IF Swaps(r)
     THEN /\ session' = [session EXCEPT !.token = n, !.rotationVersion = @ + 1,
                                        !.expiresAt = expiries[n].row]
          /\ rotations' = rotations \cup {<<requests[r].token, n>>}
          /\ Goes(r, "answer")
     ELSE Ends(r) /\ UNCHANGED <<session, rotations>>
  /\ UNCHANGED <<expiries, cookies, suspended, clock>>

\* The new cookie reaches the client; when it does not, BreaksOff.
Answer(r) ==
  /\ At(r, "answer")
  /\ cookies' = cookies \cup {requests[r].next}
  /\ Ends(r)
  /\ UNCHANGED <<session, expiries, rotations, suspended, clock>>

\* The access token came with a cookie; the guard takes its `now`.
BeginLogout(r) ==
  /\ cookies # {} /\ At(r, "idle")
  /\ requests' = [requests EXCEPT ![r].at = "guard", ![r].now = clock]
  /\ Reads

\* JwtAuthGuard.
Guard(r) ==
  /\ At(r, "guard")
  /\ IF ~session.revoked /\ Unexpired(r) /\ ~suspended THEN Goes(r, "revoke") ELSE Ends(r)
  /\ Reads

\* SessionsService.revoke.
Revoke(r) ==
  /\ At(r, "revoke")
  /\ session' = [session EXCEPT !.revoked = TRUE]
  /\ Ends(r)
  /\ UNCHANGED <<expiries, cookies, rotations, suspended, clock>>

\* A lost connection, a failing statement, a restart.
BreaksOff(r) == ~At(r, "idle") /\ Ends(r) /\ Reads

\* External: an operator suspends the user.
Suspend ==
  /\ ~suspended /\ suspended' = TRUE
  /\ UNCHANGED <<session, expiries, cookies, rotations, requests, clock>>

Tick ==
  /\ clock < MaxClock /\ clock' = clock + 1
  /\ UNCHANGED <<session, expiries, cookies, rotations, suspended, requests>>

Next ==
  \/ Suspend \/ Tick
  \/ \E r \in Requests :
       \/ BeginLogin(r) \/ Create(r)
       \/ \E t \in cookies : BeginRefresh(r, t)
       \/ Read(r) \/ Issue(r) \/ TakeNow(r) \/ Rotate(r) \/ Answer(r)
       \/ BeginLogout(r) \/ Guard(r) \/ Revoke(r)
       \/ BreaksOff(r)

Spec == Init /\ [][Next]_vars

-----------------------------------------------------------------------------
(* Properties *)

\* Every variable has its type.
TypeOK ==
  /\ session \in SessionStates
  /\ expiries \in Seq([jwt : Int, row : Nat])
  /\ cookies \subseteq Nat /\ rotations \subseteq Nat \X Nat
  /\ suspended \in BOOLEAN
  /\ requests \in [Requests -> RequestStates]
  /\ clock \in Nat

\* "concurrent refresh with the same token has exactly one winner": at most one,
\* ever; a token that was replaced replaces nothing again.
AtMostOneWinner == \A p, q \in rotations : p[1] = q[1] => p = q

\* ... and at least one: a compare-and-swap that is about to fail was beaten by
\* another one from the same token, or the session was revoked, or had expired
\* when the refresh took the time.
LosersHaveAWinner ==
  \A r \in Requests : At(r, "update") /\ ~Swaps(r) =>
    \/ session.revoked \/ session.expiresAt <= requests[r].now
    \/ \E p \in rotations : p[1] = requests[r].token

\* The refreshes whose `now` was before the row's expiry and that expect the row
\* as it is: when the session expires they may still rotate it.
Late == {r \in Requests : At(r, "update") /\ Expected(r) /\ Unexpired(r)}

\* "leaves the session revoked when logout races with refresh": a revoked session
\* is never opened or rotated again, whatever was read before.  An expired one is
\* rotated only by a refresh whose UPDATE was under way when it expired: none joins
\* these, and after one of them has rotated it no other one can.
ClosedForGood ==
  [][LoggedIn =>
       /\ session.revoked => session'.revoked /\ rotations' = rotations
       /\ Expired => /\ Late' \subseteq Late
                     /\ rotations' # rotations => Late # {} /\ Late' = {}]_vars

\* The refreshes that can still succeed: they have read what the row still holds.
Pending == {r \in Requests : requests[r].at \in {"issue", "rotate", "update"} /\ Expected(r)}

\* "Suspended users cannot refresh": rotate does not look at the user again, but
\* no refresh becomes able to succeed any more, and the first one that does makes
\* all others fail, so that at most one succeeds after the suspension.
SuspensionEndsRefreshes ==
  [][suspended => Pending' \subseteq Pending /\ (rotations' # rotations => Pending' = {})]_vars

\* The row outlives the token it names, by less than a second: a cookie that
\* verifyRefreshToken accepts is never refused because its session has expired.
RowOutlivesToken ==
  /\ \A t \in Tokens : expiries[t].jwt <= expiries[t].row /\ expiries[t].row < expiries[t].jwt + Second
  /\ LoggedIn => session.token \in Tokens /\ session.expiresAt = expiries[session.token].row
=============================================================================
