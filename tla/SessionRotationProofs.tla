------------------------- MODULE SessionRotationProofs -------------------------
(***************************************************************************)
(* Proofs about SessionRotation, for any number of requests and tokens.    *)
(* The argument: tokens are numbered in the order they are signed, every   *)
(* swap leads to a later token, and a request that has read the session    *)
(* either has read what the row still holds or was overtaken by a swap     *)
(* from the very token it presents (Fresh or Overtaken).                   *)
(***************************************************************************)
EXTENDS SessionRotation, TLAPS

Overtaken(t) == \E p \in rotations : p[1] = t

Signing(r) == requests[r].at \in {"sign", "create"}

RequestInv(r) ==
  /\ Signing(r) => ~LoggedIn
  /\ requests[r].at \in {"create", "answer"} => requests[r].next \in Tokens
  /\ requests[r].at \in {"read", "issue", "rotate", "update"} => requests[r].token \in Tokens
  /\ requests[r].at \in {"issue", "rotate", "update"}
       => Expected(r) \/ Overtaken(requests[r].token)
  /\ requests[r].at \in {"rotate", "update"}
       => requests[r].next \in Tokens /\ requests[r].token < requests[r].next

RowInv ==
  /\ RowOutlivesToken /\ cookies \subseteq Tokens
  /\ ~LoggedIn => rotations = {} /\ cookies = {} /\ \A r \in Requests : At(r, "idle") \/ Signing(r)
  /\ \A p \in rotations : p[1] < session.token

OneLogin == \A r, q \in Requests : Signing(r) /\ Signing(q) => r = q

IInv == TypeOK /\ RowInv /\ AtMostOneWinner /\ OneLogin /\ \A r \in Requests : RequestInv(r)

LEMMA RequestTypes ==
  ASSUME TypeOK, NEW r \in Requests
  PROVE  /\ requests \in [Requests -> RequestStates] /\ requests[r] \in RequestStates
         /\ requests[r].token \in Nat /\ requests[r].version \in Nat /\ requests[r].next \in Nat
         /\ requests[r].now \in Nat
<1>1. requests \in [Requests -> RequestStates] /\ requests[r] \in RequestStates
  BY DEF TypeOK
<1> QED BY <1>1 DEF RequestStates

LEMMA NoRequestType == NoRequest \in RequestStates /\ NoRequest.at = "idle"
BY DEF NoRequest, RequestStates

LEMMA RowTypes ==
  ASSUME TypeOK
  PROVE  /\ session.token \in Nat /\ session.rotationVersion \in Nat
         /\ session.revoked \in BOOLEAN /\ session.expiresAt \in Nat
         /\ Len(expiries) \in Nat
         /\ \A t \in Tokens : t \in Nat \ {0} /\ expiries[t].jwt \in Int /\ expiries[t].row \in Nat
<1>1. /\ session \in SessionStates /\ expiries \in Seq([jwt : Int, row : Nat])
      /\ Len(expiries) \in Nat
  BY DEF TypeOK
<1>2. ASSUME NEW t \in Tokens PROVE t \in Nat \ {0} /\ expiries[t] \in [jwt : Int, row : Nat]
  <2> DEFINE E == [jwt : Int, row : Nat]
  <2>1. expiries \in Seq(E) /\ t \in 1..Len(expiries)
    BY <1>1 DEF Tokens
  <2> HIDE DEF E
  <2>2. t \in Nat \ {0} /\ expiries[t] \in E
    BY <1>1, <2>1
  <2> QED BY <2>2 DEF E
<1> QED BY <1>1, <1>2 DEF SessionStates

-----------------------------------------------------------------------------
(* A step that writes only its own request. *)
LEMMA LocalStep ==
  ASSUME IInv, NEW r \in Requests, Reads,
         NEW s \in RequestStates, requests' = [requests EXCEPT ![r] = s],
         s.at \notin {"answer", "create"},
         s.at = "sign" => ~LoggedIn /\ \A q \in Requests \ {r} : ~Signing(q),
         LoggedIn \/ s.at \in {"idle", "sign"},
         s.at \in {"read", "issue", "rotate", "update"} => s.token \in Tokens,
         s.at \in {"issue", "rotate", "update"}
           => \/ s.token = session.token /\ s.version = session.rotationVersion
              \/ Overtaken(s.token),
         s.at \in {"rotate", "update"} => s.next \in Tokens /\ s.token < s.next
  PROVE  IInv'
<1>1. /\ requests' \in [Requests -> RequestStates] /\ requests'[r] = s
      /\ \A q \in Requests \ {r} : requests'[q] = requests[q]
  BY DEF IInv, TypeOK
<1>2. TypeOK' /\ AtMostOneWinner'
  BY <1>1 DEF IInv, TypeOK, AtMostOneWinner, Reads
<1>3. RowInv'
  BY <1>1 DEF IInv, RowInv, RowOutlivesToken, LoggedIn, Tokens, At, Signing, Reads
<1>4. OneLogin'
  BY <1>1 DEF IInv, OneLogin, Signing
<1>5. RequestInv(r)'
  BY <1>1 DEF RequestInv, Expected, Overtaken, Signing, LoggedIn, Tokens, Reads
<1>6. ASSUME NEW q \in Requests \ {r} PROVE RequestInv(q)'
  BY <1>1 DEF IInv, RequestInv, Expected, Overtaken, Signing, LoggedIn, Tokens, Reads
<1> QED BY <1>2, <1>3, <1>4, <1>5, <1>6 DEF IInv

LEMMA EndStep == ASSUME IInv, NEW r \in Requests, Reads, Ends(r) PROVE IInv'
BY NoRequestType, LocalStep DEF Ends

LEMMA BeginLoginKeeps == ASSUME IInv, NEW r \in Requests, BeginLogin(r) PROVE IInv'
<1> DEFINE s == [requests[r] EXCEPT !.at = "sign"]
<1>1. /\ TypeOK /\ requests[r] \in RequestStates /\ ~LoggedIn /\ expiries = <<>>
      /\ \A q \in Requests : ~At(q, "sign")
  BY RequestTypes DEF IInv, BeginLogin
<1>2. s \in RequestStates /\ s.at = "sign" /\ requests' = [requests EXCEPT ![r] = s]
  BY <1>1, RequestTypes DEF RequestStates, BeginLogin, Goes
<1>3. \A q \in Requests : ~Signing(q)
  <2>1. Tokens = {}
    BY <1>1 DEF Tokens
  <2> QED BY <1>1, <2>1 DEF IInv, RequestInv, Signing, At
<1> QED BY <1>1, <1>2, <1>3, LocalStep DEF BeginLogin

LEMMA BeginRefreshKeeps ==
  ASSUME IInv, NEW r \in Requests, NEW t \in cookies, BeginRefresh(r, t) PROVE IInv'
<1> DEFINE s == [requests[r] EXCEPT !.at = "read", !.token = t, !.now = clock]
<1>1. TypeOK /\ requests[r] \in RequestStates /\ t \in Tokens /\ LoggedIn /\ clock \in Nat
  BY RequestTypes DEF IInv, RowInv, TypeOK
<1>2. s \in RequestStates /\ s.at = "read" /\ s.token = t
  BY <1>1, RowTypes DEF RequestStates
<1>3. requests' = [requests EXCEPT ![r] = s]
  BY <1>1, RequestTypes DEF BeginRefresh
<1> QED BY <1>1, <1>2, <1>3, LocalStep DEF BeginRefresh

LEMMA ReadKeeps == ASSUME IInv, NEW r \in Requests, Read(r) PROVE IInv'
<1>1. TypeOK /\ requests[r] \in RequestStates /\ LoggedIn
  BY RequestTypes DEF IInv, RowInv, Read, At, Signing
<1>2. CASE Ends(r)
  BY <1>2, EndStep DEF Read
<1>3. CASE ~Ends(r)
  <2> DEFINE s == [requests[r] EXCEPT !.at = "issue", !.version = session.rotationVersion]
  <2>1. session.token = requests[r].token /\ requests' = [requests EXCEPT ![r] = s]
    BY <1>1, <1>3, RequestTypes DEF Read
  <2>2. /\ s \in RequestStates /\ s.at = "issue" /\ s.token = requests[r].token
        /\ s.version = session.rotationVersion
    BY <1>1, RowTypes DEF RequestStates
  <2>3. requests[r].token \in Tokens
    BY DEF IInv, RequestInv, Read, At
  <2> QED BY <1>1, <2>1, <2>2, <2>3, LocalStep DEF Read
<1> QED BY <1>2, <1>3

LEMMA LogoutKeeps == ASSUME IInv, NEW r \in Requests, BeginLogout(r) \/ Guard(r) PROVE IInv'
<1>1. TypeOK /\ requests[r] \in RequestStates /\ LoggedIn /\ clock \in Nat
  BY RequestTypes DEF IInv, RowInv, TypeOK, BeginLogout, Guard, At, Signing
<1>2. CASE Ends(r) /\ Guard(r)
  BY <1>2, EndStep DEF Guard
<1>3. CASE BeginLogout(r)
  <2> DEFINE s == [requests[r] EXCEPT !.at = "guard", !.now = clock]
  <2>1. s \in RequestStates /\ s.at = "guard" /\ requests' = [requests EXCEPT ![r] = s]
    BY <1>1, <1>3, RequestTypes DEF RequestStates, BeginLogout
  <2> QED BY <1>1, <1>3, <2>1, LocalStep DEF BeginLogout
<1>4. CASE Guard(r) /\ Goes(r, "revoke")
  <2> DEFINE s == [requests[r] EXCEPT !.at = "revoke"]
  <2>1. s \in RequestStates /\ s.at = "revoke" /\ requests' = [requests EXCEPT ![r] = s]
    BY <1>1, <1>4, RequestTypes DEF RequestStates, Goes
  <2> QED BY <1>1, <1>4, <2>1, LocalStep DEF Guard
<1> QED BY <1>2, <1>3, <1>4 DEF Guard

LEMMA TakeNowKeeps == ASSUME IInv, NEW r \in Requests, TakeNow(r) PROVE IInv'
<1> DEFINE s == [requests[r] EXCEPT !.at = "update", !.now = clock]
<1>1. TypeOK /\ requests[r] \in RequestStates /\ LoggedIn /\ clock \in Nat /\ RequestInv(r)
  BY RequestTypes DEF IInv, RowInv, TypeOK, TakeNow, At, Signing
<1>2. /\ s \in RequestStates /\ s.at = "update" /\ s.token = requests[r].token
      /\ s.version = requests[r].version /\ s.next = requests[r].next
  BY <1>1 DEF RequestStates
<1>3. requests' = [requests EXCEPT ![r] = s]
  BY <1>1, RequestTypes DEF TakeNow
<1>4. /\ s.token \in Tokens /\ s.next \in Tokens /\ s.token < s.next
      /\ Overtaken(s.token) \/ (s.token = session.token /\ s.version = session.rotationVersion)
  BY <1>1, <1>2 DEF RequestInv, TakeNow, At, Expected
<1> QED BY <1>1, <1>2, <1>3, <1>4, LocalStep DEF TakeNow

\* The second begins less than a second ago.
LEMMA SecondBegins ==
  ASSUME NEW c \in Nat PROVE c % Second \in Int /\ 0 <= c % Second /\ c % Second < Second
BY BoundsAssumption

LEMMA IssueKeeps == ASSUME IInv, NEW r \in Requests, Issue(r) PROVE IInv'
<1> DEFINE n == Len(expiries) + 1
<1> DEFINE e == [jwt |-> clock - (clock % Second) + Ttl, row |-> clock + Ttl]
<1> DEFINE step == IF At(r, "sign") THEN "create" ELSE "rotate"
<1>1. /\ TypeOK /\ requests[r] \in RequestStates /\ RequestInv(r)
      /\ At(r, "issue") \/ At(r, "sign")
      /\ At(r, "issue") => LoggedIn
  BY RequestTypes DEF IInv, RowInv, Issue, At, Signing
<1>2. /\ e \in [jwt : Int, row : Nat] /\ e.jwt <= e.row /\ e.row < e.jwt + Second
      /\ expiries \in Seq([jwt : Int, row : Nat]) /\ Len(expiries) \in Nat /\ n \in Nat
  <2>1. clock \in Nat /\ Ttl \in Nat /\ Second \in Nat
    BY <1>1, BoundsAssumption DEF TypeOK
  <2>2. clock % Second \in Int /\ 0 <= clock % Second /\ clock % Second < Second
    BY <2>1, SecondBegins
  <2> HIDE DEF n
  <2>3. e \in [jwt : Int, row : Nat] /\ e.jwt <= e.row /\ e.row < e.jwt + Second
    BY <2>1, <2>2
  <2> QED BY <1>1, <2>3 DEF TypeOK, n
<1> HIDE DEF e
<1>3. /\ expiries' \in Seq([jwt : Int, row : Nat]) /\ Len(expiries') = n
      /\ Tokens' = Tokens \cup {n} /\ n \notin Tokens /\ expiries'[n] = e
      /\ \A t \in Tokens : expiries'[t] = expiries[t] /\ t < n
  BY <1>2 DEF Issue, Tokens, e
<1>4. /\ requests' \in [Requests -> RequestStates]
      /\ \A q \in Requests \ {r} : requests'[q] = requests[q]
      /\ requests'[r] = [requests[r] EXCEPT !.at = step, !.next = n]
  BY <1>1, <1>2, RequestTypes DEF Issue, RequestStates
<1>5. TypeOK'
  BY <1>1, <1>3, <1>4 DEF TypeOK, Issue
<1>6. RowInv'
  <2>1. RowOutlivesToken'
    BY <1>1, <1>2, <1>3 DEF IInv, RowInv, RowOutlivesToken, LoggedIn, Issue
  <2>2. cookies' \subseteq Tokens' /\ \A p \in rotations' : p[1] < session'.token
    BY <1>3 DEF IInv, RowInv, Issue
  <2>3. ~LoggedIn' => At(r, "sign")
    BY <1>1 DEF LoggedIn, Issue
  <2>4. requests'[r].at = step
    BY <1>1, <1>4 DEF RequestStates
  <2> QED BY <1>4, <2>1, <2>2, <2>3, <2>4 DEF IInv, RowInv, LoggedIn, At, Signing, Issue
<1>7. AtMostOneWinner' /\ OneLogin'
  BY <1>1, <1>4 DEF IInv, AtMostOneWinner, OneLogin, Signing, At, Issue, RequestStates
<1>8. ASSUME NEW q \in Requests, q # r PROVE RequestInv(q)'
  <2>1. /\ RequestInv(q) /\ requests'[q] = requests[q] /\ Tokens \subseteq Tokens'
        /\ rotations' = rotations /\ session' = session
    BY <1>3, <1>4, <1>8 DEF IInv, Issue
  <2> QED BY <2>1 DEF RequestInv, Expected, Overtaken, Signing, LoggedIn
<1>9. RequestInv(r)'
  <2>1. /\ requests'[r].at = step /\ requests'[r].next = n /\ requests'[r].token = requests[r].token
        /\ requests'[r].version = requests[r].version
    BY <1>1, <1>4 DEF RequestStates
  <2>2. CASE At(r, "sign")
    BY <1>1, <1>3, <2>1, <2>2 DEF RequestInv, Issue, At, Signing, LoggedIn
  <2>3. CASE At(r, "issue")
    <3>1. /\ requests'[r].at = "rotate" /\ requests[r].token \in Tokens
          /\ Expected(r) \/ Overtaken(requests[r].token)
      BY <1>1, <2>1, <2>3 DEF At, RequestInv
    <3>2. requests[r].token \in Tokens' /\ n \in Tokens' /\ requests[r].token < n
      BY <1>3, <3>1
    <3>3. Expected(r)' \/ Overtaken(requests[r].token)'
      BY <2>1, <3>1 DEF Expected, Overtaken, Issue
    <3> QED BY <2>1, <3>1, <3>2, <3>3 DEF RequestInv, Signing, Overtaken
  <2> QED BY <1>1, <2>2, <2>3
<1> QED BY <1>5, <1>6, <1>7, <1>8, <1>9 DEF IInv

\* The first token is put into the row by the one login.
LEMMA CreateKeeps == ASSUME IInv, NEW r \in Requests, Create(r) PROVE IInv'
<1> DEFINE n == requests[r].next
<1>1. /\ TypeOK /\ requests[r] \in RequestStates /\ At(r, "create") /\ Signing(r)
      /\ n \in Tokens /\ n \in Nat \ {0} /\ expiries[n].row \in Nat /\ ~LoggedIn
  BY RequestTypes, RowTypes DEF IInv, RequestInv, Create, At, Signing
<1>2. /\ session' \in SessionStates /\ session'.token = n /\ session'.expiresAt = expiries[n].row
  BY <1>1 DEF Create, SessionStates
<1>3. /\ requests' \in [Requests -> RequestStates]
      /\ \A q \in Requests \ {r} : requests'[q] = requests[q]
      /\ requests'[r].at = "answer" /\ requests'[r].next = n
  BY <1>1, RequestTypes DEF Create, Goes, RequestStates
<1>4. rotations = {} /\ cookies = {} /\ \A q \in Requests \ {r} : At(q, "idle")
  BY <1>1 DEF IInv, RowInv, OneLogin
<1>5. TypeOK' /\ AtMostOneWinner' /\ OneLogin'
  BY <1>1, <1>2, <1>3 DEF IInv, TypeOK, AtMostOneWinner, OneLogin, Signing, Create
<1>6. RowInv'
  BY <1>1, <1>2, <1>4 DEF IInv, RowInv, RowOutlivesToken, LoggedIn, Tokens, Create
<1>7. ASSUME NEW q \in Requests PROVE RequestInv(q)'
  BY <1>1, <1>3, <1>4 DEF RequestInv, Signing, At, Tokens, Create
<1> QED BY <1>5, <1>6, <1>7 DEF IInv

\* A swap leads from the current token to a later one.
LEMMA RotateKeeps == ASSUME IInv, NEW r \in Requests, Rotate(r) PROVE IInv'
<1> DEFINE t == requests[r].token
<1> DEFINE n == requests[r].next
<1>1. /\ TypeOK /\ requests[r] \in RequestStates /\ RequestInv(r) /\ At(r, "update") /\ LoggedIn
      /\ expiries[n].row \in Nat
      /\ t \in Nat /\ n \in Nat /\ n \in Tokens /\ t < n /\ t \in Tokens
  BY RequestTypes, RowTypes DEF IInv, RowInv, RequestInv, Rotate, At, Signing
<1>2. CASE ~Swaps(r)
  BY <1>2, EndStep DEF Rotate, Reads
<1>3. CASE Swaps(r)
  <2>1. /\ session' = [session EXCEPT !.token = n, !.rotationVersion = @ + 1,
                                      !.expiresAt = expiries[n].row]
        /\ rotations' = rotations \cup {<<t, n>>} /\ session.token = t
        /\ requests' = [requests EXCEPT ![r].at = "answer"]
        /\ UNCHANGED <<expiries, cookies, suspended, clock>>
    BY <1>3 DEF Rotate, Swaps, Expected, Goes
  <2>2. /\ session' \in SessionStates /\ session'.token = n /\ session'.expiresAt = expiries[n].row
    <3>1. /\ session \in SessionStates /\ session.rotationVersion + 1 \in Nat
          /\ expiries[n].row \in Nat /\ n \in Nat
      BY <1>1, RowTypes DEF TypeOK
    <3> QED BY <2>1, <3>1 DEF SessionStates
  <2>3. /\ requests' \in [Requests -> RequestStates]
        /\ \A q \in Requests \ {r} : requests'[q] = requests[q]
        /\ requests'[r] = [requests[r] EXCEPT !.at = "answer"]
    BY <1>1, <2>1, RequestTypes DEF RequestStates
  <2>4. TypeOK'
    BY <1>1, <2>1, <2>2, <2>3 DEF TypeOK
  <2>5. \A p \in rotations : p[1] < t /\ p[1] \in Nat
    BY <1>1, <2>1 DEF IInv, RowInv, TypeOK
  <2>6. RowInv'
    <3>1. LoggedIn'
      BY <1>1, <2>2 DEF LoggedIn, Tokens
    <3>2. RowOutlivesToken' /\ cookies' \subseteq Tokens'
      BY <1>1, <2>1, <2>2 DEF IInv, RowInv, RowOutlivesToken, Tokens
    <3>3. \A p \in rotations' : p[1] < n
      BY <1>1, <2>1, <2>5
    <3> QED BY <2>2, <3>1, <3>2, <3>3 DEF RowInv
  <2>7. OneLogin'
    BY <1>1, <2>3 DEF IInv, OneLogin, Signing, RequestStates
  <2>10. AtMostOneWinner'
    BY <1>1, <2>1, <2>5 DEF IInv, AtMostOneWinner
  <2>8. ASSUME NEW q \in Requests, q # r PROVE RequestInv(q)'
    <3>1. RequestInv(q) /\ requests'[q] = requests[q] /\ Tokens' = Tokens /\ ~Signing(q)
      BY <1>1, <2>1, <2>3, <2>8 DEF IInv, RequestInv, Tokens
    <3>2. rotations \subseteq rotations'
      BY <2>1
    <3>3. \E p \in rotations' : p[1] = t
      <4>1. <<t, n>> \in rotations' /\ <<t, n>>[1] = t
        BY <2>1
      <4> QED BY <4>1
    <3>4. Expected(q) => requests[q].token = t
      BY <2>1 DEF Expected
    <3>5. requests[q].at \in {"issue", "rotate", "update"} => \E p \in rotations' : p[1] = requests[q].token
      BY <3>1, <3>2, <3>3, <3>4 DEF RequestInv, Overtaken
    <3> QED BY <3>1, <3>5 DEF RequestInv, Overtaken, Signing
  <2>9. RequestInv(r)'
    BY <1>1, <2>1, <2>3 DEF RequestInv, RequestStates, Tokens, Signing
  <2> QED BY <2>4, <2>6, <2>7, <2>8, <2>9, <2>10 DEF IInv
<1> QED BY <1>2, <1>3

LEMMA AnswerKeeps == ASSUME IInv, NEW r \in Requests, Answer(r) PROVE IInv'
<1>1. TypeOK /\ LoggedIn /\ requests[r].next \in Tokens /\ requests[r].next \in Nat
  BY RequestTypes DEF IInv, RowInv, RequestInv, Answer, At, Signing
<1>2. /\ requests' \in [Requests -> RequestStates] /\ requests'[r] = NoRequest
      /\ \A q \in Requests \ {r} : requests'[q] = requests[q]
  BY <1>1, RequestTypes, NoRequestType DEF Answer, Ends
<1>3. TypeOK'
  BY <1>1, <1>2 DEF TypeOK, Answer
<1>4. RowInv' /\ AtMostOneWinner'
  BY <1>1 DEF IInv, RowInv, RowOutlivesToken, LoggedIn, Tokens, AtMostOneWinner, Answer
<1>5. OneLogin'
  BY <1>2, NoRequestType DEF IInv, OneLogin, Signing
<1>6. ASSUME NEW q \in Requests PROVE RequestInv(q)'
  BY <1>2, NoRequestType
  DEF IInv, RequestInv, Expected, Overtaken, Signing, LoggedIn, Tokens, Answer
<1> QED BY <1>3, <1>4, <1>5, <1>6 DEF IInv

LEMMA RevokeKeeps == ASSUME IInv, NEW r \in Requests, Revoke(r) PROVE IInv'
<1>1. TypeOK /\ LoggedIn
  BY DEF IInv, RowInv, Revoke, At, Signing
<1>2. /\ requests' \in [Requests -> RequestStates] /\ requests'[r] = NoRequest
      /\ \A q \in Requests \ {r} : requests'[q] = requests[q]
  BY <1>1, RequestTypes, NoRequestType DEF Revoke, Ends
<1>3. /\ session' \in SessionStates /\ session'.token = session.token
      /\ session'.rotationVersion = session.rotationVersion
      /\ session'.expiresAt = session.expiresAt
  BY <1>1 DEF Revoke, TypeOK, SessionStates
<1>4. TypeOK'
  BY <1>1, <1>2, <1>3 DEF TypeOK, Revoke
<1>5. RowInv' /\ AtMostOneWinner'
  BY <1>1, <1>3 DEF IInv, RowInv, RowOutlivesToken, LoggedIn, Tokens, AtMostOneWinner, Revoke
<1>6. OneLogin'
  BY <1>2, NoRequestType DEF IInv, OneLogin, Signing
<1>7. ASSUME NEW q \in Requests PROVE RequestInv(q)'
  BY <1>2, <1>3, NoRequestType
  DEF IInv, RequestInv, Expected, Overtaken, Signing, LoggedIn, Tokens, Revoke
<1> QED BY <1>4, <1>5, <1>6, <1>7 DEF IInv

LEMMA InvInit == Init => IInv
<1> SUFFICES ASSUME Init PROVE IInv
  OBVIOUS
<1>1. TypeOK
  <2>1. session \in SessionStates
    BY DEF Init, SessionStates
  <2>2. /\ expiries \in Seq([jwt : Int, row : Nat]) /\ cookies \subseteq Nat /\ rotations \subseteq Nat \X Nat
        /\ requests \in [Requests -> RequestStates] /\ clock \in Nat
    BY NoRequestType DEF Init
  <2>3. suspended \in BOOLEAN
    BY DEF Init
  <2> QED BY <2>1, <2>2, <2>3 DEF TypeOK
<1>2. /\ ~LoggedIn /\ rotations = {} /\ cookies = {} /\ Tokens = {}
      /\ \A r \in Requests : requests[r].at = "idle"
  BY NoRequestType DEF Init, LoggedIn, Tokens
<1> QED BY <1>1, <1>2 DEF IInv, RowInv, RowOutlivesToken, AtMostOneWinner, OneLogin, Signing,
                         RequestInv, At

LEMMA InvStep == IInv /\ [Next]_vars => IInv'
<1> SUFFICES ASSUME IInv, [Next]_vars PROVE IInv'
  OBVIOUS
<1>1. CASE Suspend \/ Tick \/ UNCHANGED vars
  <2>1. suspended' \in BOOLEAN
    BY <1>1 DEF IInv, TypeOK, Suspend, Tick, vars
  <2>2. clock' \in Nat
    BY <1>1 DEF IInv, TypeOK, Suspend, Tick, vars
  <2>3. TypeOK'
    BY <1>1, <2>1, <2>2 DEF IInv, TypeOK, Suspend, Tick, vars
  <2> QED BY <1>1, <2>3 DEF IInv, RowInv, RowOutlivesToken, LoggedIn, Tokens, AtMostOneWinner,
                            OneLogin, Signing, At, RequestInv, Expected, Overtaken, Suspend, Tick, vars
<1>2. ASSUME NEW r \in Requests, BreaksOff(r) PROVE IInv'
  BY <1>2, EndStep DEF BreaksOff
<1> QED BY <1>1, <1>2, BeginLoginKeeps, CreateKeeps, BeginRefreshKeeps, ReadKeeps, LogoutKeeps,
           IssueKeeps, TakeNowKeeps, RotateKeeps, AnswerKeeps, RevokeKeeps DEF Next

LEMMA InvAlways == Spec => []IInv
BY InvInit, InvStep, PTL DEF Spec

-----------------------------------------------------------------------------
(* Theorems *)

\* Every variable always has its type.
THEOREM TypeCorrect == Spec => []TypeOK
<1>1. IInv => TypeOK
  BY DEF IInv
<1> QED BY <1>1, InvAlways, PTL

\* However many refreshes present a token, at most one of them ever replaces it.
THEOREM AtMostOneWinnerAlways == Spec => []AtMostOneWinner
<1>1. IInv => AtMostOneWinner
  BY DEF IInv
<1> QED BY <1>1, InvAlways, PTL

\* A refresh loses only to another refresh of the same token, a logout or the
\* expiry of the session before it took the time.
THEOREM LosersHaveAWinnerAlways == Spec => []LosersHaveAWinner
<1>1. IInv => LosersHaveAWinner
  <2> SUFFICES ASSUME IInv, NEW r \in Requests, At(r, "update"), ~Swaps(r)
               PROVE  \/ session.revoked \/ session.expiresAt <= requests[r].now
                      \/ Overtaken(requests[r].token)
    BY DEF LosersHaveAWinner, Overtaken
  <2>1. /\ Expected(r) \/ Overtaken(requests[r].token)
        /\ requests[r].now \in Nat /\ session.expiresAt \in Nat
    BY RequestTypes, RowTypes DEF IInv, RequestInv, At
  <2> QED BY <2>1 DEF Swaps, Unexpired
<1> QED BY <1>1, InvAlways, PTL

\* For every length of the second and of the tokens' life, the row expires less
\* than a second after the token it names, and never before.
THEOREM RowOutlivesTokenAlways == Spec => []RowOutlivesToken
<1>1. IInv => RowOutlivesToken
  BY DEF IInv, RowInv
<1> QED BY <1>1, InvAlways, PTL

-----------------------------------------------------------------------------
(* What a swap ends.  No request knows a version of the row that is yet to *)
(* come, so that none can follow a swap it has not read.                   *)

VersionsPassed ==
  \A r \in Requests : requests[r].at \in {"issue", "rotate", "update"}
                        => requests[r].version <= session.rotationVersion

RequestStep(r) ==
  \/ BeginLogin(r)
  \/ \E t \in cookies : BeginRefresh(r, t)
  \/ Read(r) \/ Issue(r) \/ TakeNow(r) \/ Rotate(r) \/ Answer(r)
  \/ BeginLogout(r) \/ Guard(r) \/ Revoke(r) \/ BreaksOff(r)

\* A request writes its own record only, and comes to wait for its swap by
\* reading the row of a user who is not suspended.
LEMMA RecordsAfterStep ==
  ASSUME TypeOK, NEW r \in Requests, RequestStep(r)
  PROVE  /\ \A q \in Requests : q # r => requests'[q] = requests[q]
         /\ requests'[r].at \in {"issue", "rotate", "update"} =>
              /\ session' = session /\ rotations' = rotations
              /\ requests'[r].token = requests[r].token
              /\ \/ /\ At(r, "issue") \/ At(r, "rotate")
                    /\ requests'[r].version = requests[r].version
                 \/ ~suspended /\ requests'[r].version = session.rotationVersion
<1> USE RequestTypes
<1>1. CASE Ends(r)
  BY <1>1, NoRequestType DEF Ends
<1>2. ASSUME NEW step \in {"sign", "revoke", "answer"}, Goes(r, step)
      PROVE  requests'[r].at = step /\ \A q \in Requests : q # r => requests'[q] = requests[q]
  BY <1>2 DEF Goes, RequestStates
<1>3. CASE \E t \in cookies : BeginRefresh(r, t)
  <2> PICK t \in cookies : BeginRefresh(r, t)
    BY <1>3
  <2>1. requests'[r].at = "read" /\ \A q \in Requests : q # r => requests'[q] = requests[q]
    BY DEF BeginRefresh, RequestStates
  <2> QED BY <2>1
<1>4. CASE Read(r) /\ ~Ends(r)
  <2>1. requests' = [requests EXCEPT ![r].at = "issue", ![r].version = session.rotationVersion]
    BY <1>4 DEF Read
  <2>2. /\ requests'[r].token = requests[r].token /\ requests'[r].version = session.rotationVersion
        /\ \A q \in Requests : q # r => requests'[q] = requests[q]
    BY <2>1 DEF RequestStates
  <2> QED BY <1>4, <2>2 DEF Read, Reads
<1>5. CASE Issue(r)
  <2>1. /\ requests'[r].token = requests[r].token /\ requests'[r].version = requests[r].version
        /\ requests'[r].at = IF At(r, "sign") THEN "create" ELSE "rotate"
        /\ \A q \in Requests : q # r => requests'[q] = requests[q]
    BY <1>5 DEF Issue, RequestStates
  <2> QED BY <1>5, <2>1 DEF Issue
<1>6. CASE TakeNow(r)
  <2>1. /\ requests'[r].token = requests[r].token /\ requests'[r].version = requests[r].version
        /\ \A q \in Requests : q # r => requests'[q] = requests[q]
    BY <1>6 DEF TakeNow, RequestStates
  <2> QED BY <1>6, <2>1 DEF TakeNow, Reads
<1>7. CASE BeginLogout(r)
  BY <1>7 DEF BeginLogout, RequestStates
<1> QED BY <1>1, <1>2, <1>3, <1>4, <1>5, <1>6, <1>7
     DEF RequestStep, BeginLogin, Rotate, Answer, Guard, Revoke, BreaksOff

\* Only a swap changes the token, the version and the expiry of the row.
LEMMA RowAfterStep ==
  ASSUME TypeOK, NEW r \in Requests, RequestStep(r)
  PROVE  \/ /\ session'.token = session.token /\ session'.expiresAt = session.expiresAt
            /\ session'.rotationVersion = session.rotationVersion
            /\ session.revoked => session'.revoked
            /\ rotations' = rotations
         \/ /\ At(r, "update") /\ Swaps(r) /\ requests'[r].at = "answer"
            /\ session'.rotationVersion = session.rotationVersion + 1
<1>1. session \in SessionStates /\ requests \in [Requests -> RequestStates]
  BY DEF TypeOK
<1>2. CASE Rotate(r)
  <2>1. CASE Swaps(r)
    <3>1. /\ At(r, "update") /\ requests' = [requests EXCEPT ![r].at = "answer"]
          /\ session'.rotationVersion = session.rotationVersion + 1
      BY <1>1, <1>2, <2>1 DEF Rotate, Goes, SessionStates
    <3>2. requests'[r].at = "answer"
      BY <1>1, <3>1 DEF RequestStates
    <3> QED BY <2>1, <3>1, <3>2
  <2> QED BY <1>2, <2>1 DEF Rotate
<1>3. CASE Revoke(r)
  BY <1>1, <1>3 DEF Revoke, SessionStates
<1> QED BY <1>2, <1>3 DEF RequestStep, BeginLogin, BeginRefresh, Read, Issue, TakeNow, Answer,
                         BeginLogout, Guard, BreaksOff, Reads

\* While a session is created nobody has read it.
LEMMA AfterCreate ==
  ASSUME IInv, NEW r \in Requests, Create(r), NEW q \in Requests
  PROVE  ~LoggedIn /\ requests'[q].at \notin {"issue", "rotate", "update"} /\ rotations' = rotations
<1>1. TypeOK /\ Signing(r) /\ ~LoggedIn
  BY DEF IInv, RequestInv, Create, At, Signing
<1>2. requests'[r].at = "answer" /\ (q # r => requests'[q] = requests[q])
  BY <1>1, RequestTypes DEF Create, Goes, RequestStates
<1>3. At(q, "idle") \/ Signing(q)
  BY <1>1 DEF IInv, RowInv
<1> QED BY <1>1, <1>2, <1>3 DEF Create, At, Signing

LEMMA VersionsPassedStep == IInv /\ VersionsPassed /\ [Next]_vars => VersionsPassed'
<1> SUFFICES ASSUME IInv, VersionsPassed, [Next]_vars, NEW q \in Requests,
                    requests'[q].at \in {"issue", "rotate", "update"}
             PROVE  requests'[q].version <= session'.rotationVersion
  BY DEF VersionsPassed
<1>1. TypeOK /\ requests[q].version \in Nat /\ session.rotationVersion \in Nat
  BY RequestTypes, RowTypes DEF IInv
<1>2. ASSUME NEW r \in Requests, RequestStep(r)
      PROVE  requests'[q].version <= session'.rotationVersion
  <2>1. CASE q = r
    BY <1>1, <1>2, <2>1, RecordsAfterStep DEF VersionsPassed, At
  <2>2. CASE q # r
    BY <1>1, <1>2, <2>2, RecordsAfterStep, RowAfterStep DEF VersionsPassed
  <2> QED BY <2>1, <2>2
<1>3. ASSUME NEW r \in Requests, Create(r) PROVE FALSE
  BY <1>3, AfterCreate
<1>4. CASE Suspend \/ Tick \/ UNCHANGED vars
  BY <1>4 DEF Suspend, Tick, vars, VersionsPassed
<1> QED BY <1>2, <1>3, <1>4 DEF Next, RequestStep

\* A request that expects the row after a step of another one has seen no swap.
LEMMA ExpectsNoSwap ==
  ASSUME IInv, VersionsPassed, NEW r \in Requests, RequestStep(r), NEW q \in Requests,
         requests'[q].at \in {"issue", "rotate", "update"}, Expected(q)'
  PROVE  /\ session'.token = session.token /\ session'.expiresAt = session.expiresAt
         /\ session'.rotationVersion = session.rotationVersion /\ rotations' = rotations
<1>1. TypeOK /\ requests[q].version \in Nat /\ session.rotationVersion \in Nat
  BY RequestTypes, RowTypes DEF IInv
<1>2. CASE q = r
  BY <1>1, <1>2, RowAfterStep
<1>3. CASE q # r
  <2>1. requests'[q] = requests[q]
    BY <1>1, <1>3, RecordsAfterStep
  <2>2. session'.rotationVersion # session.rotationVersion + 1
    BY <1>1, <2>1 DEF VersionsPassed, Expected
  <2> QED BY <1>1, <2>2, RowAfterStep
<1> QED BY <1>2, <1>3

LEMMA SuspensionStep ==
  IInv /\ VersionsPassed /\ [Next]_vars
    => [suspended => Pending' \subseteq Pending /\ (rotations' # rotations => Pending' = {})]_vars
<1> SUFFICES ASSUME IInv, VersionsPassed, Next, suspended, NEW q \in Requests,
                    requests'[q].at \in {"issue", "rotate", "update"}, Expected(q)'
             PROVE  q \in Pending /\ rotations' = rotations
  BY DEF Pending, vars
<1>1. TypeOK
  BY DEF IInv
<1>2. ASSUME NEW r \in Requests, RequestStep(r) PROVE q \in Pending /\ rotations' = rotations
  <2>1. /\ session'.token = session.token /\ session'.rotationVersion = session.rotationVersion
        /\ rotations' = rotations
    BY <1>2, ExpectsNoSwap
  <2>2. CASE q = r
    BY <1>1, <1>2, <2>1, <2>2, RecordsAfterStep DEF Pending, Expected, At
  <2>3. CASE q # r
    <3>1. requests'[q] = requests[q]
      BY <1>1, <1>2, <2>3, RecordsAfterStep
    <3> QED BY <2>1, <3>1 DEF Pending, Expected
  <2> QED BY <2>1, <2>2, <2>3
<1>3. ASSUME NEW r \in Requests, Create(r) PROVE FALSE
  BY <1>3, AfterCreate
<1>4. CASE Tick
  BY <1>4 DEF Tick, Pending, Expected
<1> QED BY <1>2, <1>3, <1>4 DEF Next, RequestStep, Suspend

\* After the suspension of the user no refresh becomes able to succeed, and the
\* first one that still does makes every other one fail.
THEOREM SuspensionEndsRefreshesAlways == Spec => SuspensionEndsRefreshes
<1>1. Init => VersionsPassed
  BY NoRequestType DEF Init, VersionsPassed
<1> QED BY <1>1, InvAlways, VersionsPassedStep, SuspensionStep, PTL DEF Spec, SuspensionEndsRefreshes

\* The `now` of a request is written by its own steps, and at "update" only by
\* the one that leads there.
LEMMA NowAfterStep ==
  ASSUME TypeOK, NEW r \in Requests, RequestStep(r), requests'[r].at = "update"
  PROVE  requests'[r].now = clock
<1> USE RequestTypes
<1>1. CASE TakeNow(r)
  BY <1>1 DEF TakeNow, RequestStates
<1>2. CASE Ends(r)
  BY <1>2, NoRequestType DEF Ends
<1>3. ASSUME NEW step \in {"sign", "revoke", "answer"}, Goes(r, step) PROVE FALSE
  BY <1>3 DEF Goes, RequestStates
<1>4. CASE Issue(r)
  BY <1>4 DEF Issue, RequestStates
<1>5. CASE Read(r) /\ ~Ends(r)
  BY <1>5 DEF Read, RequestStates
<1>6. CASE BeginLogout(r) \/ \E t \in cookies : BeginRefresh(r, t)
  <2>1. CASE BeginLogout(r)
    BY <2>1 DEF BeginLogout, RequestStates
  <2>2. ASSUME NEW t \in cookies, BeginRefresh(r, t) PROVE requests'[r].at = "read"
    BY <2>2 DEF BeginRefresh, RequestStates
  <2> QED BY <1>6, <2>1, <2>2
<1> QED BY <1>1, <1>2, <1>3, <1>4, <1>5, <1>6
     DEF RequestStep, BeginLogin, Rotate, Answer, Guard, Revoke, BreaksOff

Closed ==
  /\ session.revoked => session'.revoked /\ rotations' = rotations
  /\ Expired => /\ Late' \subseteq Late
                /\ rotations' # rotations => Late # {} /\ Late' = {}

LEMMA ClosedAfterRequest ==
  ASSUME IInv, VersionsPassed, NEW r \in Requests, RequestStep(r), LoggedIn
  PROVE  Closed
<1>1. TypeOK /\ session.expiresAt \in Nat /\ clock \in Nat
  BY RowTypes DEF IInv, TypeOK
<1>2. session.revoked => session'.revoked /\ rotations' = rotations
  BY <1>1, RowAfterStep DEF Swaps
<1>3. ASSUME Expired, NEW q \in Late' PROVE q \in Late /\ rotations' = rotations
  <2>1. /\ q \in Requests /\ requests'[q].at = "update" /\ Expected(q)'
        /\ requests'[q].now < session'.expiresAt
    BY <1>3 DEF Late, At, Unexpired
  <2>2. /\ session'.token = session.token /\ session'.expiresAt = session.expiresAt
        /\ session'.rotationVersion = session.rotationVersion /\ rotations' = rotations
    BY <2>1, ExpectsNoSwap
  <2>3. q # r
    BY <1>1, <1>3, <2>1, <2>2, NowAfterStep DEF Expired
  <2>4. requests'[q] = requests[q]
    BY <1>1, <2>1, <2>3, RecordsAfterStep
  <2> QED BY <2>1, <2>2, <2>4 DEF Late, At, Unexpired, Expected
<1>4. rotations' # rotations => r \in Late
  BY <1>1, RowAfterStep DEF Late, Swaps
<1> QED BY <1>2, <1>3, <1>4 DEF Closed

LEMMA ClosedStep ==
  IInv /\ VersionsPassed /\ [Next]_vars => [LoggedIn => Closed]_vars
<1> SUFFICES ASSUME IInv, VersionsPassed, Next, LoggedIn PROVE Closed
  BY DEF vars
<1>1. ASSUME NEW r \in Requests, RequestStep(r) PROVE Closed
  BY <1>1, ClosedAfterRequest
<1>2. ASSUME NEW r \in Requests, Create(r) PROVE FALSE
  BY <1>2, AfterCreate
<1>3. CASE Suspend \/ Tick
  BY <1>3 DEF Suspend, Tick, Closed, Late, Expected, Unexpired, At
<1> QED BY <1>1, <1>2, <1>3 DEF Next, RequestStep

\* A revoked session is never opened or rotated again; an expired one is rotated
\* at most by one of the refreshes whose UPDATE was under way when it expired.
THEOREM ClosedForGoodAlways == Spec => ClosedForGood
<1>1. Init => VersionsPassed
  BY NoRequestType DEF Init, VersionsPassed
<1> QED BY <1>1, InvAlways, VersionsPassedStep, ClosedStep, PTL DEF Spec, ClosedForGood, Closed
=============================================================================
