------------------------ MODULE WalletSessionsProofs ------------------------
(***************************************************************************)
(* Theorems about WalletSessions, for any number of wallets, phones,       *)
(* challenges, sessions, requests at a time and servers that die.          *)
(***************************************************************************)
EXTENDS WalletSessions, TLAPS

Assumptions == CodesAssumption /\ BoundsAssumption

-----------------------------------------------------------------------------
(***************************************************************************)
(* The inductive invariant                                                 *)
(***************************************************************************)

Session == [wallet : Wallets, phone : Phones, challenge : Challenges, live : BOOLEAN, fair : BOOLEAN]
Logins == [step : {"login"}, challenge : Challenges, wallet : Wallets, phone : Phones,
           good : BOOLEAN, fair : BOOLEAN]
Revocations == [step : {"revocation"}, phone : Phones]

SessionsTyped == sessions \in Seq(Session)
RequestsTyped == requests \in [Requests -> {Idle} \cup Logins \cup Revocations]
Types == TypeOK /\ SessionsTyped /\ RequestsTyped

(* A login that nobody was shut out behind is of someone who is welcome.   *)
FairLoginsAreWelcome ==
    \A r \in Requests :
        requests[r].step = "login" /\ requests[r].fair =>
            Welcome(requests[r].wallet, requests[r].phone)

IInv == Types /\ SessionsAreRight /\ FairLoginsAreWelcome

-----------------------------------------------------------------------------
(***************************************************************************)
(* What a step does to the sessions                                        *)
(***************************************************************************)

EndedAt(S) ==
    [i \in DOMAIN sessions |->
        IF i \in S THEN [sessions[i] EXCEPT !.live = FALSE] ELSE sessions[i]]
OfWallet(w) == {i \in DOMAIN sessions : sessions[i].wallet = w}
OfPhone(p) == {i \in DOMAIN sessions : sessions[i].phone = p}

(* What becomes of the sessions there were: those of S end.                *)
Ends(S) ==
    /\ DOMAIN sessions \subseteq DOMAIN sessions'
    /\ \A i \in DOMAIN sessions :
          /\ sessions'[i].wallet = sessions[i].wallet
          /\ sessions'[i].phone = sessions[i].phone
          /\ sessions'[i].challenge = sessions[i].challenge
          /\ sessions'[i].fair = sessions[i].fair
          /\ sessions'[i].live <=> sessions[i].live /\ i \notin S
NoneIsMade == DOMAIN sessions' = DOMAIN sessions
OneIsMade(login) ==
    /\ DOMAIN sessions' = DOMAIN sessions \cup {Len(sessions) + 1}
    /\ Len(sessions) + 1 \notin DOMAIN sessions
    /\ sessions'[Len(sessions) + 1] = SessionOf(login)

(* The sessions of S end and no other one begins.                          *)
LEMMA EndedSessions ==
    ASSUME SessionsTyped, NEW S, sessions' = EndedAt(S)
    PROVE  SessionsTyped' /\ Ends(S) /\ NoneIsMade /\ Len(sessions') = Len(sessions)
<1>1. \A s \in Session : [s EXCEPT !.live = FALSE] \in Session
  BY DEF Session
<1>2. EndedAt(S) \in Seq(Session) /\ Len(EndedAt(S)) = Len(sessions)
  BY <1>1 DEF SessionsTyped, EndedAt
<1>3. DOMAIN sessions' = DOMAIN sessions
  BY DEF EndedAt
<1>4. \A i \in DOMAIN sessions :
         /\ sessions[i] \in Session
         /\ sessions'[i] = IF i \in S THEN [sessions[i] EXCEPT !.live = FALSE] ELSE sessions[i]
  BY DEF SessionsTyped, EndedAt
<1>5. Ends(S)
  BY <1>3, <1>4 DEF Ends, Session
<1> QED
  BY <1>2, <1>3, <1>5 DEF SessionsTyped, NoneIsMade

(* The sessions of S end and a new one begins.                             *)
LEMMA AppendedSession ==
    ASSUME SessionsTyped, NEW S, NEW login \in Logins,
           sessions' = Append(EndedAt(S), SessionOf(login))
    PROVE  SessionsTyped' /\ Ends(S) /\ OneIsMade(login) /\ Len(sessions') = Len(sessions) + 1
<1> DEFINE t == EndedAt(S)
<1>1. \A s \in Session : [s EXCEPT !.live = FALSE] \in Session
  BY DEF Session
<1>2. t \in Seq(Session) /\ Len(t) = Len(sessions)
  BY <1>1 DEF SessionsTyped, EndedAt
<1>3. SessionOf(login) \in Session
  BY DEF SessionOf, Session, Logins
<1>4. \A i \in DOMAIN sessions :
         /\ sessions[i] \in Session
         /\ t[i] = IF i \in S THEN [sessions[i] EXCEPT !.live = FALSE] ELSE sessions[i]
  BY DEF SessionsTyped, EndedAt
<1> HIDE DEF t
<1>5. sessions' = Append(t, SessionOf(login))
  BY DEF t
<1>6. /\ sessions' \in Seq(Session) /\ Len(sessions') = Len(sessions) + 1
      /\ sessions'[Len(sessions) + 1] = SessionOf(login)
      /\ \A i \in 1..Len(sessions) : sessions'[i] = t[i]
  BY <1>2, <1>3, <1>5
<1>7. DOMAIN sessions = 1..Len(sessions) /\ DOMAIN sessions' = 1..Len(sessions') /\ Len(sessions) \in Nat
  BY <1>6 DEF SessionsTyped
<1>8. OneIsMade(login)
  BY <1>6, <1>7 DEF OneIsMade
<1>9. Ends(S)
  <2>1. \A i \in DOMAIN sessions : sessions'[i] = IF i \in S THEN [sessions[i] EXCEPT !.live = FALSE] ELSE sessions[i]
    BY <1>4, <1>6, <1>7
  <2>2. DOMAIN sessions \subseteq DOMAIN sessions'
    BY <1>8 DEF OneIsMade
  <2> QED
    BY <2>1, <2>2, <1>4 DEF Ends, Session
<1> QED
  BY <1>6, <1>8, <1>9 DEF SessionsTyped

(* A session that ends only, or that is left alone.                        *)
LEMMA EndedOne ==
    ASSUME SessionsTyped, NEW i \in DOMAIN sessions, sessions' = [sessions EXCEPT ![i].live = FALSE]
    PROVE  sessions' = EndedAt({i})
  BY DEF SessionsTyped, EndedAt

LEMMA NoneEnded ==
    ASSUME SessionsTyped, sessions' = sessions
    PROVE  SessionsTyped' /\ Ends({}) /\ NoneIsMade /\ Len(sessions') = Len(sessions)
  BY DEF SessionsTyped, Ends, NoneIsMade, Session

(***************************************************************************)
(* Requests                                                                *)
(***************************************************************************)

LEMMA RequestKinds ==
    ASSUME RequestsTyped, NEW r \in Requests
    PROVE  /\ requests[r].step = "login" => requests[r] \in Logins
           /\ requests[r].step = "revocation" =>
                 requests[r] \in Revocations /\ requests[r] = RevocationOf(requests[r].phone)
  BY DEF RequestsTyped, Idle, Logins, Revocations, RevocationOf

LEMMA RequestDone ==
    ASSUME RequestsTyped, NEW r \in Requests, requests' = [requests EXCEPT ![r] = Idle]
    PROVE  RequestsTyped'
  BY DEF RequestsTyped

(* What became of the logins: those of T were overtaken, one may be new,   *)
(* and nothing else is.                                                    *)
Overtakes(T) ==
    \A r \in Requests : requests'[r].step = "login" /\ requests'[r].fair =>
        requests[r].step = "login" /\ requests[r].fair /\ r \notin T /\ requests'[r] = requests[r]
LoginsOfWallet(w) == {r \in Requests : requests[r].step = "login" /\ requests[r].wallet = w}
LoginsOfPhone(p) == {r \in Requests : requests[r].step = "login" /\ requests[r].phone = p}
OvertakenAt(T) ==
    [r \in Requests |-> IF r \in T THEN [requests[r] EXCEPT !.fair = FALSE] ELSE requests[r]]

LEMMA DoneOvertakesNone ==
    ASSUME RequestsTyped, NEW r \in Requests, requests' = [requests EXCEPT ![r] = Idle]
    PROVE  Overtakes({})
  BY DEF RequestsTyped, Overtakes, Idle

LEMMA OvertakenLogins ==
    ASSUME RequestsTyped, NEW T \in SUBSET Requests,
           \A r \in T : requests[r].step = "login"
    PROVE  /\ OvertakenAt(T) \in [Requests -> {Idle} \cup Logins \cup Revocations]
           /\ \A r \in Requests :
                 /\ OvertakenAt(T)[r].step = requests[r].step
                 /\ OvertakenAt(T)[r].step = "login" /\ OvertakenAt(T)[r].fair =>
                       requests[r].fair /\ r \notin T
                 /\ r \notin T => OvertakenAt(T)[r] = requests[r]
                 /\ requests[r] = Idle => OvertakenAt(T)[r] = Idle
                 /\ \A p : requests[r] = RevocationOf(p) <=> OvertakenAt(T)[r] = RevocationOf(p)
<1>1. \A l \in Logins : [l EXCEPT !.fair = FALSE] \in Logins /\ [l EXCEPT !.fair = FALSE].fair = FALSE
  BY DEF Logins
<1>2. \A r \in T : requests[r] \in Logins
  BY RequestKinds
<1>3. \A r \in Requests :
         /\ OvertakenAt(T)[r] = IF r \in T THEN [requests[r] EXCEPT !.fair = FALSE] ELSE requests[r]
         /\ requests[r] \in {Idle} \cup Logins \cup Revocations
  BY DEF OvertakenAt, RequestsTyped
<1>4. OvertakenAt(T) \in [Requests -> {Idle} \cup Logins \cup Revocations]
  BY <1>1, <1>2, <1>3 DEF OvertakenAt
<1>5. ASSUME NEW r \in Requests, r \notin T
      PROVE  OvertakenAt(T)[r] = requests[r]
  BY <1>3, <1>5
<1>6. ASSUME NEW r \in Requests, r \in T
      PROVE  /\ OvertakenAt(T)[r] \in Logins /\ ~OvertakenAt(T)[r].fair
             /\ requests[r] \in Logins /\ OvertakenAt(T)[r].step = "login" /\ requests[r].step = "login"
             /\ \A p : requests[r] # RevocationOf(p) /\ OvertakenAt(T)[r] # RevocationOf(p)
             /\ requests[r] # Idle
  <2>1. OvertakenAt(T)[r] \in Logins /\ ~OvertakenAt(T)[r].fair /\ requests[r] \in Logins
    BY <1>1, <1>2, <1>3, <1>6
  <2> QED
    BY <2>1 DEF Logins, RevocationOf, Idle
<1> QED
  BY <1>4, <1>5, <1>6

-----------------------------------------------------------------------------
(***************************************************************************)
(* Types                                                                   *)
(***************************************************************************)

LEMMA TypesInit == ASSUME Assumptions, Init PROVE Types
  BY DEF Assumptions, BoundsAssumption, Init, Types, TypeOK, SessionsTyped, RequestsTyped, NoUser,
         NoChallenge, Idle

LEMMA OvertakenOfWallet ==
    ASSUME RequestsTyped, NEW w, BlockAddress(w)
    PROVE  requests' = OvertakenAt(LoginsOfWallet(w))
  BY DEF BlockAddress, Overtaken, OvertakenAt, LoginsOfWallet

LEMMA OvertakenOfPhone ==
    ASSUME RequestsTyped, NEW r, NEW p, RevokePhone(r, p)
    PROVE  requests' = [OvertakenAt(LoginsOfPhone(p)) EXCEPT ![r] = RevocationOf(p)]
<1>1. Overtaken(LAMBDA login : login.phone = p) = OvertakenAt(LoginsOfPhone(p))
  BY DEF Overtaken, OvertakenAt, LoginsOfPhone
<1> QED
  BY <1>1 DEF RevokePhone
(* The ways in which the sessions change.                                  *)
SessionsMove ==
    \/ UNCHANGED sessions
    \/ \E i \in DOMAIN sessions : EndSession(i) /\ sessions' = EndedAt({i})
    \/ \E w \in Wallets : (Block(w) \/ BlockAddress(w)) /\ sessions' = EndedAt(OfWallet(w))
    \/ \E r \in Requests :
          EndSessionsOfPhone(r) /\ sessions' = EndedAt(OfPhone(requests[r].phone))
    \/ \E r \in Requests :
          /\ SignIn(r) /\ requests[r] \in Logins
          /\ sessions' = Append(EndedAt(OfPhone(requests[r].phone)), SessionOf(requests[r]))

LEMMA MovesOfSessions ==
    ASSUME Types, [Next]_vars
    PROVE  SessionsMove
<1> USE DEF Types
<1>1. ASSUME NEW i \in DOMAIN sessions, EndSession(i)
      PROVE  SessionsMove
  <2>1. sessions' = EndedAt({i})
    BY <1>1, EndedOne DEF EndSession
  <2> QED
    BY <1>1, <2>1 DEF SessionsMove
<1>2. ASSUME NEW w \in Wallets, Block(w) \/ BlockAddress(w)
      PROVE  SessionsMove
  <2>1. sessions' = EndedAt(OfWallet(w))
    BY <1>2 DEF Block, BlockAddress, Ended, EndedAt, OfWallet
  <2> QED
    BY <1>2, <2>1 DEF SessionsMove
<1>3. ASSUME NEW r \in Requests, EndSessionsOfPhone(r)
      PROVE  SessionsMove
  <2>1. sessions' = EndedAt(OfPhone(requests[r].phone))
    BY <1>3 DEF EndSessionsOfPhone, Ended, EndedAt, OfPhone
  <2> QED
    BY <1>3, <2>1 DEF SessionsMove
<1>4. ASSUME NEW r \in Requests, SignIn(r)
      PROVE  SessionsMove
  <2>1. requests[r] \in Logins
    BY <1>4, RequestKinds DEF SignIn
  <2>2. Ended(LAMBDA s : s.phone = requests[r].phone) = EndedAt(OfPhone(requests[r].phone))
    BY DEF Ended, EndedAt, OfPhone
  <2>3. sessions' = Append(EndedAt(OfPhone(requests[r].phone)), SessionOf(requests[r]))
    BY <1>4, <2>2 DEF SignIn
  <2> QED
    BY <1>4, <2>1, <2>3 DEF SessionsMove
<1>5. CASE UNCHANGED sessions
  BY <1>5 DEF SessionsMove
<1>6. CASE Next /\ ~UNCHANGED sessions
  <2>1. \/ \E i \in DOMAIN sessions : EndSession(i)
        \/ \E w \in Wallets : Block(w) \/ BlockAddress(w)
        \/ \E r \in Requests : EndSessionsOfPhone(r) \/ SignIn(r)
    BY <1>6 DEF Next, Issue, ChallengeExpires, BeginLogin, RefuseChallenge, RefuseSignature, Undo,
                Die, RevokePhone, Unblock, UnblockAddress
  <2> QED
    BY <2>1, <1>1, <1>2, <1>3, <1>4
<1> QED
  BY <1>5, <1>6 DEF vars

(* Seen from a session: some end, and at most one begins.                  *)
LEMMA SessionsStep ==
    ASSUME Types, [Next]_vars
    PROVE  /\ SessionsTyped'
           /\ \/ \E S : Ends(S) /\ NoneIsMade /\ Len(sessions') = Len(sessions)
              \/ \E r \in Requests :
                    /\ SignIn(r) /\ requests[r] \in Logins
                    /\ Ends(OfPhone(requests[r].phone)) /\ OneIsMade(requests[r])
                    /\ Len(sessions') = Len(sessions) + 1
<1>0. SessionsTyped /\ SessionsMove
  BY MovesOfSessions DEF Types
<1>1. CASE UNCHANGED sessions
  BY <1>0, <1>1, NoneEnded
<1>2. ASSUME NEW S, sessions' = EndedAt(S)
      PROVE  /\ SessionsTyped' /\ Ends(S) /\ NoneIsMade /\ Len(sessions') = Len(sessions)
  BY <1>0, <1>2, EndedSessions
<1>3. ASSUME NEW r \in Requests, SignIn(r), requests[r] \in Logins,
             sessions' = Append(EndedAt(OfPhone(requests[r].phone)), SessionOf(requests[r]))
      PROVE  /\ SessionsTyped' /\ Ends(OfPhone(requests[r].phone)) /\ OneIsMade(requests[r])
             /\ Len(sessions') = Len(sessions) + 1
  BY <1>0, <1>3, AppendedSession
<1> QED
  BY <1>0, <1>1, <1>2, <1>3 DEF SessionsMove

LEMMA ChallengesTyped ==
    ASSUME Types, [Next]_vars
    PROVE  challenges' \in [Challenges -> {NoChallenge} \cup [state : {"open", "spent"}, wallet : Wallets]]
<1> DEFINE T == {NoChallenge} \cup [state : {"open", "spent"}, wallet : Wallets]
<1>1. challenges \in [Challenges -> T]
  BY DEF Types, TypeOK
<1>2. \A c \in Challenges : challenges[c].state \in {"open", "spent"} =>
          [challenges[c] EXCEPT !.state = "spent"] \in T
  BY <1>1 DEF NoChallenge
<1>3. ASSUME NEW c \in Challenges, challenges[c].state = "open", challenges' = [challenges EXCEPT ![c].state = "spent"]
      PROVE  challenges' \in [Challenges -> T]
  BY <1>1, <1>2, <1>3
<1>4. ASSUME NEW c \in Challenges, NEW w \in Wallets, Issue(c, w)
      PROVE  challenges' \in [Challenges -> T]
  BY <1>1, <1>4 DEF Issue
<1>5. ASSUME NEW r \in Requests, RefuseSignature(r) \/ SignIn(r)
      PROVE  challenges' \in [Challenges -> T]
  <2>1. requests[r] \in Logins
    BY <1>5, RequestKinds DEF SignIn, RefuseSignature, Types
  <2> QED
    BY <2>1, <1>3, <1>5 DEF SignIn, RefuseSignature, Answers, Spent, Logins
<1> QED
  <2>1. CASE UNCHANGED challenges
    BY <2>1, <1>1
  <2>2. CASE Next /\ ~UNCHANGED challenges
    <3>1. \/ \E c \in Challenges : ChallengeExpires(c) \/ \E w \in Wallets : Issue(c, w)
          \/ \E r \in Requests : RefuseSignature(r) \/ SignIn(r)
      BY <2>2 DEF Next, BeginLogin, RefuseChallenge, Undo, EndSession, EndSessionsOfPhone,
                  Die, RevokePhone, Block, BlockAddress, Unblock, UnblockAddress
    <3> QED
      BY <3>1, <1>3, <1>4, <1>5 DEF ChallengeExpires
  <2> QED
    BY <2>1, <2>2 DEF vars

(* Accounts are made by logins and blocked by the tenant.                  *)
LEMMA RegisteredUsers ==
    ASSUME users \in [Wallets -> [status : {"none", "active", "blocked"}, code : Codes \cup {NoCode}]],
           NEW w \in Wallets, NEW code \in Drawn(w)
    PROVE  /\ Registered(w, code) \in
                  [Wallets -> [status : {"none", "active", "blocked"}, code : Codes \cup {NoCode}]]
           /\ Registered(w, code)[w].code = code
           /\ Registered(w, code)[w].status =
                  IF users[w].status = "none" THEN "active" ELSE users[w].status
           /\ \A v \in Wallets \ {w} : Registered(w, code)[v] = users[v]
<1> DEFINE T == [status : {"none", "active", "blocked"}, code : Codes \cup {NoCode}]
           s == IF users[w].status = "none" THEN "active" ELSE users[w].status
           u == [[users[w] EXCEPT !.status = s] EXCEPT !.code = code]
<1>1. users[w] \in T /\ s \in {"active", "blocked"}
  OBVIOUS
<1>2. code \in Codes \cup {NoCode}
  BY DEF Drawn
<1>3. u \in T /\ u.code = code /\ u.status = s
  BY <1>1, <1>2
<1>4. Registered(w, code) = [users EXCEPT ![w] = u]
  BY <1>1 DEF Registered
<1> QED
  BY <1>3, <1>4

LEMMA UsersTyped ==
    ASSUME Types, [Next]_vars
    PROVE  users' \in [Wallets -> [status : {"none", "active", "blocked"}, code : Codes \cup {NoCode}]]
<1>0. users \in [Wallets -> [status : {"none", "active", "blocked"}, code : Codes \cup {NoCode}]]
  BY DEF Types, TypeOK
<1>1. CASE UNCHANGED users
  BY <1>0, <1>1
<1>2. CASE Next /\ ~UNCHANGED users
  <2>1. \/ \E r \in Requests : SignIn(r)
        \/ \E w \in Wallets : Block(w) \/ Unblock(w)
    BY <1>2 DEF Next, Issue, ChallengeExpires, BeginLogin, RefuseChallenge, RefuseSignature, Undo,
                Die, RevokePhone, UnblockAddress, BlockAddress, EndSession, EndSessionsOfPhone
  <2>2. ASSUME NEW r \in Requests, SignIn(r)
        PROVE  users' \in [Wallets -> [status : {"none", "active", "blocked"}, code : Codes \cup {NoCode}]]
    <3>1. requests[r].wallet \in Wallets
      BY <2>2, RequestKinds DEF SignIn, Types, Logins
    <3>2. PICK code \in Drawn(requests[r].wallet) : users' = Registered(requests[r].wallet, code)
      BY <2>2 DEF SignIn
    <3> QED
      BY <3>1, <3>2, <1>0, RegisteredUsers
  <2>3. ASSUME NEW w \in Wallets, Block(w) \/ Unblock(w)
        PROVE  users' \in [Wallets -> [status : {"none", "active", "blocked"}, code : Codes \cup {NoCode}]]
    BY <1>0, <2>3 DEF Block, Unblock
  <2> QED
    BY <2>1, <2>2, <2>3
<1> QED
  BY <1>1, <1>2 DEF vars

LEMMA RequestsStayTyped ==
    ASSUME Types, [Next]_vars
    PROVE  RequestsTyped'
<1>0. RequestsTyped
  BY DEF Types
<1>1. CASE UNCHANGED requests
  BY <1>0, <1>1 DEF RequestsTyped
<1>2. ASSUME NEW r \in Requests, requests' = [requests EXCEPT ![r] = Idle]
      PROVE  RequestsTyped'
  BY <1>0, <1>2, RequestDone
<1>3. ASSUME NEW r \in Requests, NEW c \in Challenges, NEW w \in Wallets, NEW p \in Phones,
             NEW good \in BOOLEAN, BeginLogin(r, c, w, p, good)
      PROVE  RequestsTyped'
  <2>1. LoginOf(c, w, p, good) \in Logins
    BY DEF LoginOf, Logins
  <2> QED
    BY <1>0, <1>3, <2>1 DEF BeginLogin, RequestsTyped
<1>4. ASSUME NEW w \in Wallets, BlockAddress(w)
      PROVE  RequestsTyped'
  <2>1. requests' = OvertakenAt(LoginsOfWallet(w))
    BY <1>0, <1>4, OvertakenOfWallet
  <2>2. OvertakenAt(LoginsOfWallet(w)) \in [Requests -> {Idle} \cup Logins \cup Revocations]
    BY <1>0, OvertakenLogins DEF LoginsOfWallet
  <2> QED
    BY <2>1, <2>2 DEF RequestsTyped
<1>5. ASSUME NEW r \in Requests, NEW p \in Phones, RevokePhone(r, p)
      PROVE  RequestsTyped'
  <2>1. RevocationOf(p) \in Revocations
    BY DEF RevocationOf, Revocations
  <2>2. OvertakenAt(LoginsOfPhone(p)) \in [Requests -> {Idle} \cup Logins \cup Revocations]
    BY <1>0, OvertakenLogins DEF LoginsOfPhone
  <2> QED
    BY <1>0, <1>5, <2>1, <2>2, OvertakenOfPhone DEF RequestsTyped
<1>6. CASE Next /\ ~UNCHANGED requests
  <2>1. \/ \E r \in Requests, c \in Challenges, w \in Wallets, p \in Phones, good \in BOOLEAN :
              BeginLogin(r, c, w, p, good)
        \/ \E r \in Requests : requests' = [requests EXCEPT ![r] = Idle]
        \/ \E r \in Requests, p \in Phones : RevokePhone(r, p)
        \/ \E w \in Wallets : BlockAddress(w)
    BY <1>6 DEF Next, Issue, ChallengeExpires, RefuseChallenge, RefuseSignature, Undo, SignIn,
                Die, UnblockAddress, Block, Unblock, EndSession, EndSessionsOfPhone
  <2> QED
    BY <2>1, <1>2, <1>3, <1>4, <1>5
<1> QED
  BY <1>1, <1>6 DEF vars

(* The lists that the administrators keep.                                 *)
LEMMA ListsStep ==
    ASSUME [Next]_vars
    PROVE  /\ \/ UNCHANGED blocks
              \/ \E w \in Wallets : BlockAddress(w) \/ UnblockAddress(w)
           /\ \/ UNCHANGED phones
              \/ \E r \in Requests, p \in Phones : RevokePhone(r, p)
<1> DEFINE Lists == UNCHANGED <<blocks, phones>>
<1>1. \A c \in Challenges : ChallengeExpires(c) \/ (\E w \in Wallets : Issue(c, w)) => Lists
  BY DEF ChallengeExpires, Issue
<1>2. \A r \in Requests, c \in Challenges, w \in Wallets, p \in Phones, good \in BOOLEAN :
          BeginLogin(r, c, w, p, good) => Lists
  BY DEF BeginLogin
<1>3. \A r \in Requests : RefuseChallenge(r) \/ RefuseSignature(r) \/ Undo(r) => Lists
  BY DEF RefuseChallenge, RefuseSignature, Undo
<1>4. \A r \in Requests : SignIn(r) \/ EndSessionsOfPhone(r) \/ Die(r) => Lists
  BY DEF SignIn, EndSessionsOfPhone, Die
<1>5. \A i \in DOMAIN sessions : EndSession(i) => Lists
  BY DEF EndSession
<1>6. \A w \in Wallets : Block(w) \/ Unblock(w) => Lists
  BY DEF Block, Unblock
<1>7. \A w \in Wallets : BlockAddress(w) \/ UnblockAddress(w) => UNCHANGED phones
  BY DEF BlockAddress, UnblockAddress
<1>8. \A r \in Requests, p \in Phones : RevokePhone(r, p) => UNCHANGED blocks
  BY DEF RevokePhone
<1> HIDE DEF Lists
<1>9. \/ Lists
      \/ \E w \in Wallets : BlockAddress(w) \/ UnblockAddress(w)
      \/ \E r \in Requests, p \in Phones : RevokePhone(r, p)
  <2>1. UNCHANGED vars => Lists
    BY DEF vars, Lists
  <2> QED
    BY <1>1, <1>2, <1>3, <1>4, <1>5, <1>6, <2>1 DEF Next
<1> QED
  BY <1>7, <1>8, <1>9 DEF Lists

LEMMA TypesStep ==
    ASSUME Assumptions, Types, [Next]_vars
    PROVE  Types'
<1>1. Len(sessions') <= MaxSessions
  <2>0. Len(sessions) <= MaxSessions /\ Len(sessions) \in Nat /\ MaxSessions \in Nat
    BY DEF Types, TypeOK, SessionsTyped, Assumptions, BoundsAssumption
  <2>1. CASE Len(sessions') = Len(sessions)
    BY <2>0, <2>1
  <2>2. ASSUME NEW r \in Requests, SignIn(r), Len(sessions') = Len(sessions) + 1
        PROVE  Len(sessions') <= MaxSessions
    <3>1. Len(sessions) < MaxSessions
      BY <2>2 DEF SignIn
    <3> QED
      BY <2>0, <2>2, <3>1
  <2> QED
    BY <2>1, <2>2, SessionsStep
<1>2. blocks' \subseteq Wallets
  BY ListsStep DEF Types, TypeOK, BlockAddress, UnblockAddress
<1>3. phones' \in [Phones -> {"active", "revoked"}]
  <2>1. \A r \in Requests, p \in Phones :
            RevokePhone(r, p) => phones' = [phones EXCEPT ![p] = "revoked"]
    BY DEF RevokePhone
  <2> QED
    BY <2>1, ListsStep DEF Types, TypeOK
<1>4. crashes' \in 0..MaxCrashes
  <2>0. crashes \in 0..MaxCrashes /\ MaxCrashes \in Nat
    BY DEF Types, TypeOK, Assumptions, BoundsAssumption
  <2>1. \/ UNCHANGED crashes
        \/ crashes < MaxCrashes /\ crashes' = crashes + 1
    <3>1. CASE UNCHANGED vars
      BY <3>1 DEF vars
    <3>2. CASE Next
      <4>1. UNCHANGED crashes \/ \E r \in Requests : Die(r)
        BY <3>2 DEF Next, Issue, ChallengeExpires, BeginLogin, RefuseChallenge, RefuseSignature,
                    Undo, SignIn, EndSession, EndSessionsOfPhone, RevokePhone, Block, Unblock,
                    BlockAddress, UnblockAddress
      <4> QED
        BY <4>1 DEF Die
    <3> QED
      BY <3>1, <3>2
  <2> QED
    BY <2>0, <2>1
<1>5. SessionsTyped'
  BY SessionsStep
<1>6. \A i \in DOMAIN sessions' : sessions'[i] \in Session
  BY <1>5 DEF SessionsTyped
<1> QED
  BY <1>1, <1>2, <1>3, <1>4, <1>5, <1>6, ChallengesTyped, UsersTyped, RequestsStayTyped
  DEF Types, TypeOK, Session
-----------------------------------------------------------------------------
(***************************************************************************)
(* The invariant                                                           *)
(***************************************************************************)

LEMMA InvariantInit == ASSUME Assumptions, Init PROVE IInv
<1>1. Types
  BY TypesInit
<1>2. SessionsAreRight
  BY DEF Init, SessionsAreRight, OneSessionPerPhone, ChallengesSignInOnce, EveryoneHasACode,
         ShutOutIsSignedOut, LiveSessions, NoUser
<1>3. FairLoginsAreWelcome
  BY DEF Init, FairLoginsAreWelcome, Idle
<1> QED
  BY <1>1, <1>2, <1>3 DEF IInv

(* A new session ends the others of its phone.                             *)
LEMMA OneSessionStep ==
    ASSUME Types, OneSessionPerPhone, [Next]_vars
    PROVE  OneSessionPerPhone'
<1>1. ASSUME NEW S, Ends(S), NoneIsMade
      PROVE  OneSessionPerPhone'
  BY <1>1 DEF Ends, NoneIsMade, OneSessionPerPhone, LiveSessions
<1>2. ASSUME NEW login \in Logins, Ends(OfPhone(login.phone)), OneIsMade(login)
      PROVE  OneSessionPerPhone'
  <2> DEFINE n == Len(sessions) + 1
  <2>1. sessions'[n].phone = login.phone
    BY <1>2 DEF OneIsMade, SessionOf
  <2>2. \A i \in DOMAIN sessions : sessions'[i].live =>
            sessions[i].live /\ sessions'[i].phone = sessions[i].phone /\ sessions[i].phone # login.phone
    BY <1>2 DEF Ends, OfPhone
  <2>3. DOMAIN sessions' = DOMAIN sessions \cup {n}
    BY <1>2 DEF OneIsMade
  <2> HIDE DEF n
  <2> QED
    BY <2>1, <2>2, <2>3 DEF OneSessionPerPhone, LiveSessions
<1> QED
  BY <1>1, <1>2, SessionsStep

(* A spent challenge stays as it is.                                       *)
LEMMA SpentStays ==
    ASSUME Types, [Next]_vars, NEW c \in Challenges, challenges[c].state = "spent"
    PROVE  challenges'[c] = challenges[c]
<1>1. challenges \in [Challenges -> {NoChallenge} \cup [state : {"open", "spent"}, wallet : Wallets]]
  BY DEF Types, TypeOK
<1>2. ASSUME NEW d \in Challenges, challenges' = [challenges EXCEPT ![d].state = "spent"]
      PROVE  challenges'[c] = challenges[c]
  BY <1>1, <1>2 DEF NoChallenge
<1>3. ASSUME NEW d \in Challenges, NEW w \in Wallets, Issue(d, w)
      PROVE  challenges'[c] = challenges[c]
  BY <1>1, <1>3 DEF Issue, NoChallenge
<1>4. ASSUME NEW r \in Requests, RefuseSignature(r) \/ SignIn(r)
      PROVE  challenges'[c] = challenges[c]
  <2>1. requests[r] \in Logins
    BY <1>4, RequestKinds DEF SignIn, RefuseSignature, Types
  <2> QED
    BY <2>1, <1>2, <1>4 DEF SignIn, RefuseSignature, Spent, Logins
<1>5. CASE Next /\ ~UNCHANGED challenges
  <2>1. \/ \E d \in Challenges : ChallengeExpires(d) \/ \E w \in Wallets : Issue(d, w)
        \/ \E r \in Requests : RefuseSignature(r) \/ SignIn(r)
    BY <1>5 DEF Next, BeginLogin, RefuseChallenge, Undo, EndSession, EndSessionsOfPhone,
                Die, RevokePhone, Block, BlockAddress, Unblock, UnblockAddress
  <2> QED
    BY <2>1, <1>2, <1>3, <1>4 DEF ChallengeExpires
<1> QED
  BY <1>5 DEF vars

(* The challenge of a session is spent.                                    *)
LEMMA SessionsSpendTheirChallenges ==
    ASSUME ChallengesSignInOnce, NEW i \in DOMAIN sessions
    PROVE  challenges[sessions[i].challenge].state = "spent"
<1>1. challenges[sessions[i].challenge] = [state |-> "spent", wallet |-> sessions[i].wallet]
  BY DEF ChallengesSignInOnce
<1> QED
  BY <1>1

(* A session is made from an open challenge of its wallet, which it spends.*)
LEMMA ChallengesStep ==
    ASSUME Types, ChallengesSignInOnce, [Next]_vars
    PROVE  ChallengesSignInOnce'
<1>0. \A i \in DOMAIN sessions : sessions[i].challenge \in Challenges
  <2>1. \A i \in DOMAIN sessions : sessions[i] \in Session
    BY DEF Types, SessionsTyped
  <2> QED
    BY <2>1 DEF Session
<1>1. \A i \in DOMAIN sessions : challenges'[sessions[i].challenge] = challenges[sessions[i].challenge]
  <2>1. \A i \in DOMAIN sessions : challenges[sessions[i].challenge].state = "spent"
    BY SessionsSpendTheirChallenges
  <2> QED
    BY <2>1, <1>0, SpentStays
<1>2. ASSUME NEW S, Ends(S), NoneIsMade
      PROVE  ChallengesSignInOnce'
  BY <1>1, <1>2 DEF Ends, NoneIsMade, ChallengesSignInOnce
<1>3. ASSUME NEW r \in Requests, SignIn(r), requests[r] \in Logins, NEW S, Ends(S),
             OneIsMade(requests[r])
      PROVE  ChallengesSignInOnce'
  <2> DEFINE n == Len(sessions) + 1
             c == requests[r].challenge
  <2>0. c \in Challenges
    BY <1>3 DEF Logins
  <2>1. /\ challenges[c].state = "open" /\ challenges[c].wallet = requests[r].wallet
        /\ challenges' = [challenges EXCEPT ![c].state = "spent"]
    BY <1>3 DEF SignIn, Answers, Spent
  <2>2. challenges[c] \in [state : {"open", "spent"}, wallet : Wallets]
    BY <2>0, <2>1 DEF Types, TypeOK, NoChallenge
  <2>3. challenges \in [Challenges -> {NoChallenge} \cup [state : {"open", "spent"}, wallet : Wallets]]
    BY DEF Types, TypeOK
  <2>4. challenges'[c] = [state |-> "spent", wallet |-> requests[r].wallet]
    <3>1. challenges'[c] = [challenges[c] EXCEPT !.state = "spent"]
      BY <2>0, <2>1, <2>3
    <3> HIDE DEF c
    <3> QED
      BY <3>1, <2>1, <2>2
  <2>5. \A i \in DOMAIN sessions : sessions[i].challenge # c
    <3>1. \A i \in DOMAIN sessions : challenges[sessions[i].challenge].state = "spent"
      BY SessionsSpendTheirChallenges
    <3> QED
      BY <3>1, <2>1
  <2>6. sessions'[n].challenge = c /\ sessions'[n].wallet = requests[r].wallet
    BY <1>3 DEF OneIsMade, SessionOf
  <2>7. DOMAIN sessions' = DOMAIN sessions \cup {n}
    BY <1>3 DEF OneIsMade
  <2>8. \A i \in DOMAIN sessions : /\ sessions'[i].challenge = sessions[i].challenge
                                   /\ sessions'[i].wallet = sessions[i].wallet
    BY <1>3 DEF Ends
  <2> HIDE DEF n, c
  <2> QED
    BY <1>1, <2>4, <2>5, <2>6, <2>7, <2>8 DEF ChallengesSignInOnce
<1> QED
  BY <1>2, <1>3, SessionsStep

(* An account is given a code that nobody has, and keeps it.               *)
LEMMA CodesStep ==
    ASSUME CodesAssumption, Types, EveryoneHasACode, [Next]_vars
    PROVE  EveryoneHasACode'
<1>0. users \in [Wallets -> [status : {"none", "active", "blocked"}, code : Codes \cup {NoCode}]]
  BY DEF Types, TypeOK
<1>1. CASE UNCHANGED users
  BY <1>1 DEF EveryoneHasACode
<1>2. ASSUME NEW r \in Requests, SignIn(r)
      PROVE  EveryoneHasACode'
  <2>1. requests[r].wallet \in Wallets
    BY <1>2, RequestKinds DEF SignIn, Types, Logins
  <2> DEFINE w == requests[r].wallet
  <2>2. PICK code \in Drawn(w) : users' = Registered(w, code)
    BY <1>2 DEF SignIn
  <2>3. users'[w].code = code /\ \A v \in Wallets \ {w} : users'[v] = users[v]
    BY <1>0, <2>1, <2>2, RegisteredUsers
  <2>4. code # NoCode
    BY <2>2 DEF Drawn, CodesAssumption
  <2>5. \A v \in Wallets \ {w} : users[v].code # code
    <3>1. CASE users[w].code # NoCode
      <4>1. code = users[w].code /\ users[w] # NoUser
        BY <3>1 DEF Drawn, NoUser
      <4> QED
        BY <4>1, <2>1 DEF EveryoneHasACode
    <3>2. CASE users[w].code = NoCode
      BY <3>2 DEF Drawn, Taken
    <3> QED
      BY <3>1, <3>2
  <2> HIDE DEF w
  <2> QED
    BY <2>1, <2>3, <2>4, <2>5 DEF EveryoneHasACode
<1>3. ASSUME NEW w \in Wallets, Block(w) \/ Unblock(w)
      PROVE  EveryoneHasACode'
  <2>1. /\ users[w].status # "none"
        /\ users'[w].code = users[w].code
        /\ \A v \in Wallets \ {w} : users'[v] = users[v]
    BY <1>0, <1>3 DEF Block, Unblock
  <2>2. users[w] # NoUser
    BY <2>1 DEF NoUser
  <2> QED
    BY <2>1, <2>2 DEF EveryoneHasACode
<1>4. CASE Next /\ ~UNCHANGED users
  <2>1. \/ \E r \in Requests : SignIn(r)
        \/ \E w \in Wallets : Block(w) \/ Unblock(w)
    BY <1>4 DEF Next, Issue, ChallengeExpires, BeginLogin, RefuseChallenge, RefuseSignature, Undo,
                Die, RevokePhone, UnblockAddress, BlockAddress, EndSession, EndSessionsOfPhone
  <2> QED
    BY <2>1, <1>2, <1>3
<1> QED
  BY <1>1, <1>4 DEF vars
(* A login that stays as it was, or a new one, is of someone welcome.      *)
LEMMA LoginsStep ==
    ASSUME Types, FairLoginsAreWelcome, [Next]_vars
    PROVE  FairLoginsAreWelcome'
<1>0. RequestsTyped /\ phones \in [Phones -> {"active", "revoked"}]
  BY DEF Types, TypeOK
<1>1. ASSUME blocks' \subseteq blocks, UNCHANGED phones,
             UNCHANGED requests \/ \E r \in Requests : requests' = [requests EXCEPT ![r] = Idle]
      PROVE  FairLoginsAreWelcome'
  <2>1. Overtakes({})
    BY <1>0, <1>1, DoneOvertakesNone DEF Overtakes
  <2> QED
    BY <2>1, <1>1 DEF FairLoginsAreWelcome, Overtakes, Welcome, IsInstalled, IsBlocked
<1>2. ASSUME NEW r \in Requests, NEW c \in Challenges, NEW w \in Wallets, NEW p \in Phones,
             NEW good \in BOOLEAN, BeginLogin(r, c, w, p, good)
      PROVE  FairLoginsAreWelcome'
  <2>1. requests'[r] = LoginOf(c, w, p, good) /\ \A q \in Requests \ {r} : requests'[q] = requests[q]
    BY <1>0, <1>2 DEF BeginLogin, RequestsTyped
  <2>2. Welcome(w, p) /\ UNCHANGED <<blocks, phones>>
    BY <1>2 DEF BeginLogin
  <2>3. requests'[r].wallet = w /\ requests'[r].phone = p
    BY <2>1 DEF LoginOf
  <2> QED
    BY <2>1, <2>2, <2>3 DEF FairLoginsAreWelcome, Welcome, IsInstalled, IsBlocked
<1>3. ASSUME NEW w \in Wallets, BlockAddress(w)
      PROVE  FairLoginsAreWelcome'
  <2> DEFINE T == LoginsOfWallet(w)
  <2>1. requests' = OvertakenAt(T)
    BY <1>0, <1>3, OvertakenOfWallet
  <2>2. blocks' = blocks \cup {w} /\ UNCHANGED phones
    BY <1>3 DEF BlockAddress
  <2>3. \A r \in Requests : requests'[r].step = "login" /\ requests'[r].fair =>
            /\ requests'[r] = requests[r] /\ requests[r].step = "login" /\ requests[r].wallet # w
    BY <2>1, <1>0, OvertakenLogins DEF LoginsOfWallet
  <2> HIDE DEF T
  <2> QED
    BY <2>2, <2>3 DEF FairLoginsAreWelcome, Welcome, IsInstalled, IsBlocked
<1>4. ASSUME NEW r \in Requests, NEW p \in Phones, RevokePhone(r, p)
      PROVE  FairLoginsAreWelcome'
  <2> DEFINE T == LoginsOfPhone(p)
  <2>1. requests' = [OvertakenAt(T) EXCEPT ![r] = RevocationOf(p)]
    BY <1>0, <1>4, OvertakenOfPhone
  <2>2. UNCHANGED blocks /\ phones' = [phones EXCEPT ![p] = "revoked"]
    BY <1>4 DEF RevokePhone
  <2>3. \A q \in Requests : OvertakenAt(T)[q].step = "login" /\ OvertakenAt(T)[q].fair =>
            /\ OvertakenAt(T)[q] = requests[q] /\ requests[q].step = "login" /\ requests[q].phone # p
    BY <1>0, OvertakenLogins DEF LoginsOfPhone
  <2>4. OvertakenAt(T) \in [Requests -> {Idle} \cup Logins \cup Revocations]
    BY <1>0, OvertakenLogins DEF LoginsOfPhone
  <2> HIDE DEF T
  <2>5. \A q \in Requests : requests'[q] = IF q = r THEN RevocationOf(p) ELSE OvertakenAt(T)[q]
    BY <2>1, <2>4
  <2>6. \A q \in Requests : requests'[q].step = "login" /\ requests'[q].fair =>
            /\ requests'[q] = requests[q] /\ requests[q].step = "login" /\ requests[q].phone # p
    BY <2>3, <2>5 DEF RevocationOf
  <2>7. \A q \in Requests : requests'[q].step = "login" /\ requests'[q].fair => requests[q].phone \in Phones
    BY <2>6, <1>0, RequestKinds DEF Logins
  <2>8. \A o \in Phones : o # p => phones'[o] = phones[o]
    BY <2>2, <1>0
  <2> QED
    BY <2>2, <2>6, <2>7, <2>8 DEF FairLoginsAreWelcome, Welcome, IsInstalled, IsBlocked
<1>5. CASE UNCHANGED vars
  BY <1>1, <1>5 DEF vars
<1>6. CASE Next
  <2>1. \/ \E r \in Requests, c \in Challenges, w \in Wallets, p \in Phones, good \in BOOLEAN :
              BeginLogin(r, c, w, p, good)
        \/ \E r \in Requests, p \in Phones : RevokePhone(r, p)
        \/ \E w \in Wallets : BlockAddress(w)
        \/ /\ blocks' \subseteq blocks /\ UNCHANGED phones
           /\ UNCHANGED requests \/ \E r \in Requests : requests' = [requests EXCEPT ![r] = Idle]
    BY <1>6 DEF Next, Issue, ChallengeExpires, RefuseChallenge, RefuseSignature, Undo, SignIn,
                Die, UnblockAddress, Block, Unblock, EndSession, EndSessionsOfPhone
  <2> QED
    BY <2>1, <1>1, <1>2, <1>3, <1>4
<1> QED
  BY <1>5, <1>6

(***************************************************************************)
(* Those who are shut out                                                  *)
(***************************************************************************)

(* The three parts of ShutOutIsSignedOut.                                  *)
BlockedAreSignedOut == \A i \in LiveSessions : users[sessions[i].wallet].status = "active"
ShutOutByPlatform == \A i \in LiveSessions : sessions[i].fair => sessions[i].wallet \notin blocks
ShutOutWithPhone ==
    \A i \in LiveSessions :
        sessions[i].fair /\ crashes = 0 /\ ~BeingRevoked(sessions[i].phone) =>
            phones[sessions[i].phone] = "active"

LEMMA ShutOutParts ==
    ShutOutIsSignedOut <=> BlockedAreSignedOut /\ ShutOutByPlatform /\ ShutOutWithPhone
  BY DEF ShutOutIsSignedOut, BlockedAreSignedOut, ShutOutByPlatform, ShutOutWithPhone

LEMMA SessionFields ==
    ASSUME SessionsTyped, NEW i \in DOMAIN sessions
    PROVE  /\ sessions[i].wallet \in Wallets /\ sessions[i].phone \in Phones
           /\ sessions[i].live \in BOOLEAN /\ sessions[i].fair \in BOOLEAN
<1>1. sessions[i] \in Session
  BY DEF SessionsTyped
<1> QED
  BY <1>1 DEF Session

(* A tenant blocks an account and ends its sessions in one transaction.    *)
LEMMA BlockedStep ==
    ASSUME Types, BlockedAreSignedOut, [Next]_vars
    PROVE  BlockedAreSignedOut'
<1>0. /\ users \in [Wallets -> [status : {"none", "active", "blocked"}, code : Codes \cup {NoCode}]]
      /\ SessionsTyped
  BY DEF Types, TypeOK
<1>1. ASSUME NEW w \in Wallets, Block(w)
      PROVE  BlockedAreSignedOut'
  <2>1. sessions' = EndedAt(OfWallet(w))
    BY <1>1 DEF Block, Ended, EndedAt, OfWallet
  <2>2. Ends(OfWallet(w)) /\ NoneIsMade
    BY <2>1, <1>0, EndedSessions
  <2>3. \A v \in Wallets : v # w => users'[v] = users[v]
    BY <1>0, <1>1 DEF Block
  <2>4. \A i \in DOMAIN sessions : sessions'[i].live =>
            sessions[i].live /\ sessions'[i].wallet = sessions[i].wallet /\ sessions[i].wallet # w
    BY <2>2 DEF Ends, OfWallet
  <2> QED
    BY <2>2, <2>3, <2>4, <1>0, SessionFields DEF BlockedAreSignedOut, LiveSessions, NoneIsMade
<1>2. ASSUME NEW r \in Requests, SignIn(r), requests[r] \in Logins, NEW S, Ends(S),
             OneIsMade(requests[r])
      PROVE  BlockedAreSignedOut'
  <2> DEFINE n == Len(sessions) + 1
             w == requests[r].wallet
  <2>0. w \in Wallets
    BY <1>2 DEF Logins
  <2>1. PICK code \in Drawn(w) : users' = Registered(w, code)
    BY <1>2 DEF SignIn
  <2>2. /\ users'[w].status = IF users[w].status = "none" THEN "active" ELSE users[w].status
        /\ \A v \in Wallets \ {w} : users'[v] = users[v]
    BY <1>0, <2>0, <2>1, RegisteredUsers
  <2>3. users[w].status # "blocked"
    BY <1>2 DEF SignIn
  <2>4. users'[w].status = "active"
    BY <2>2, <2>3, <2>0, <1>0
  <2>5. \A v \in Wallets : users[v].status = "active" => users'[v].status = "active"
    BY <2>2, <2>4
  <2>6. sessions'[n].wallet = w /\ DOMAIN sessions' = DOMAIN sessions \cup {n}
    BY <1>2 DEF OneIsMade, SessionOf
  <2>7. \A i \in DOMAIN sessions : sessions'[i].live =>
            sessions[i].live /\ sessions'[i].wallet = sessions[i].wallet
    BY <1>2 DEF Ends
  <2> HIDE DEF n, w
  <2> QED
    BY <2>0, <2>4, <2>5, <2>6, <2>7, <1>0, SessionFields DEF BlockedAreSignedOut, LiveSessions
<1>3. ASSUME NEW S, Ends(S), NoneIsMade,
             UNCHANGED users \/ \E w \in Wallets : Unblock(w)
      PROVE  BlockedAreSignedOut'
  <2>1. \A v \in Wallets : users[v].status = "active" => users'[v].status = "active"
    BY <1>0, <1>3 DEF Unblock
  <2> QED
    BY <2>1, <1>0, <1>3, SessionFields DEF BlockedAreSignedOut, LiveSessions, Ends, NoneIsMade
<1>4. \/ UNCHANGED users
      \/ \E r \in Requests : SignIn(r)
      \/ \E w \in Wallets : Block(w) \/ Unblock(w)
  BY DEF Next, vars, Issue, ChallengeExpires, BeginLogin, RefuseChallenge, RefuseSignature, Undo,
         Die, RevokePhone, UnblockAddress, BlockAddress, EndSession, EndSessionsOfPhone
<1>5. ASSUME NEW r \in Requests, SignIn(r), NEW S, NoneIsMade, Ends(S), Len(sessions') = Len(sessions)
      PROVE  FALSE
  <2>1. Len(sessions') = Len(sessions) + 1
    <3>1. requests[r] \in Logins
      BY <1>5, RequestKinds DEF SignIn, Types
    <3>2. sessions' = Append(EndedAt(OfPhone(requests[r].phone)), SessionOf(requests[r]))
      BY <1>5 DEF SignIn, Ended, EndedAt, OfPhone
    <3> QED
      BY <3>1, <3>2, <1>0, AppendedSession
  <2> QED
    BY <2>1, <1>5, <1>0 DEF SessionsTyped
<1> QED
  BY <1>1, <1>2, <1>3, <1>4, <1>5, SessionsStep
(* The platform blocks an address and ends its sessions in one transaction,*)
(* and a login that asked before is no longer fair.                        *)
LEMMA PlatformStep ==
    ASSUME Types, ShutOutByPlatform, FairLoginsAreWelcome, [Next]_vars
    PROVE  ShutOutByPlatform'
<1>0. SessionsTyped
  BY DEF Types
<1>1. ASSUME NEW w \in Wallets, BlockAddress(w)
      PROVE  ShutOutByPlatform'
  <2>1. sessions' = EndedAt(OfWallet(w))
    BY <1>1 DEF BlockAddress, Ended, EndedAt, OfWallet
  <2>2. Ends(OfWallet(w)) /\ NoneIsMade
    BY <2>1, <1>0, EndedSessions
  <2>3. blocks' = blocks \cup {w}
    BY <1>1 DEF BlockAddress
  <2> QED
    BY <2>2, <2>3 DEF ShutOutByPlatform, LiveSessions, Ends, NoneIsMade, OfWallet
<1>2. ASSUME NEW r \in Requests, SignIn(r), requests[r] \in Logins, NEW S, Ends(S),
             OneIsMade(requests[r])
      PROVE  ShutOutByPlatform'
  <2> DEFINE n == Len(sessions) + 1
  <2>1. UNCHANGED blocks /\ requests[r].step = "login"
    BY <1>2 DEF SignIn
  <2>2. requests[r].fair => requests[r].wallet \notin blocks
    BY <2>1 DEF FairLoginsAreWelcome, Welcome, IsBlocked
  <2>3. /\ sessions'[n].wallet = requests[r].wallet /\ sessions'[n].fair = requests[r].fair
        /\ DOMAIN sessions' = DOMAIN sessions \cup {n}
    BY <1>2 DEF OneIsMade, SessionOf
  <2>4. \A i \in DOMAIN sessions :
            /\ sessions'[i].live => sessions[i].live
            /\ sessions'[i].wallet = sessions[i].wallet /\ sessions'[i].fair = sessions[i].fair
    BY <1>2 DEF Ends
  <2> HIDE DEF n
  <2> QED
    BY <2>1, <2>2, <2>3, <2>4 DEF ShutOutByPlatform, LiveSessions
<1>3. ASSUME NEW S, Ends(S), NoneIsMade, blocks' \subseteq blocks
      PROVE  ShutOutByPlatform'
  BY <1>3 DEF ShutOutByPlatform, LiveSessions, Ends, NoneIsMade
<1>4. blocks' \subseteq blocks \/ \E w \in Wallets : BlockAddress(w)
  BY DEF Next, vars, Issue, ChallengeExpires, BeginLogin, RefuseChallenge, RefuseSignature, Undo,
         SignIn, Die, RevokePhone, UnblockAddress, Block, Unblock, EndSession, EndSessionsOfPhone
<1> QED
  BY <1>1, <1>2, <1>3, <1>4, SessionsStep

(* A revocation stays at work until it ends the sessions or dies.          *)
LEMMA RevocationStep ==
    ASSUME Types, [Next]_vars, NEW p \in Phones, BeingRevoked(p), ~BeingRevoked(p)'
    PROVE  \/ \E r \in Requests : EndSessionsOfPhone(r) /\ requests[r].phone = p
           \/ crashes' # 0
<1>0. RequestsTyped /\ crashes \in Nat
  BY DEF Types, TypeOK
<1>1. PICK r \in Requests : requests[r] = RevocationOf(p)
  BY DEF BeingRevoked
<1>2. requests[r].step = "revocation" /\ requests[r].phone = p /\ requests[r] # Idle
  BY <1>1 DEF RevocationOf, Idle
<1>3. requests'[r] # RevocationOf(p)
  BY DEF BeingRevoked
<1>4. ASSUME NEW q \in Requests, requests' = [requests EXCEPT ![q] = Idle]
      PROVE  q = r
  BY <1>0, <1>1, <1>3, <1>4 DEF RequestsTyped
<1>5. ASSUME NEW q \in Requests, NEW c \in Challenges, NEW w \in Wallets, NEW o \in Phones,
             NEW good \in BOOLEAN, BeginLogin(q, c, w, o, good)
      PROVE  FALSE
  BY <1>0, <1>1, <1>2, <1>3, <1>5 DEF BeginLogin, RequestsTyped
<1>6. ASSUME NEW w \in Wallets, BlockAddress(w)
      PROVE  FALSE
  <2>1. requests' = OvertakenAt(LoginsOfWallet(w))
    BY <1>0, <1>6, OvertakenOfWallet
  <2> QED
    BY <2>1, <1>0, <1>1, <1>3, OvertakenLogins DEF LoginsOfWallet
<1>7. ASSUME NEW q \in Requests, NEW o \in Phones, RevokePhone(q, o)
      PROVE  FALSE
  <2> DEFINE v == OvertakenAt(LoginsOfPhone(o))
  <2>1. requests' = [v EXCEPT ![q] = RevocationOf(o)]
    BY <1>0, <1>7, OvertakenOfPhone
  <2>2. v[r] = RevocationOf(p) /\ v \in [Requests -> {Idle} \cup Logins \cup Revocations]
    BY <1>0, <1>1, OvertakenLogins DEF LoginsOfPhone
  <2>3. q # r
    BY <1>2, <1>7 DEF RevokePhone
  <2> HIDE DEF v
  <2> QED
    BY <2>1, <2>2, <2>3, <1>3
<1>8. \/ UNCHANGED requests
      \/ \E q \in Requests, c \in Challenges, w \in Wallets, o \in Phones, good \in BOOLEAN :
            BeginLogin(q, c, w, o, good)
      \/ \E q \in Requests :
            /\ \/ RefuseChallenge(q) \/ RefuseSignature(q) \/ Undo(q) \/ SignIn(q)
               \/ EndSessionsOfPhone(q) \/ Die(q)
            /\ requests' = [requests EXCEPT ![q] = Idle]
      \/ \E q \in Requests, o \in Phones : RevokePhone(q, o)
      \/ \E w \in Wallets : BlockAddress(w)
  BY DEF Next, vars, Issue, ChallengeExpires, RefuseChallenge, RefuseSignature, Undo, SignIn,
         Die, UnblockAddress, Block, Unblock, EndSession, EndSessionsOfPhone
<1>9. ASSUME UNCHANGED requests
      PROVE  FALSE
  BY <1>1, <1>3, <1>9
<1>10. \E q \in Requests :
            /\ \/ RefuseChallenge(q) \/ RefuseSignature(q) \/ Undo(q) \/ SignIn(q)
               \/ EndSessionsOfPhone(q) \/ Die(q)
            /\ q = r
  BY <1>4, <1>5, <1>6, <1>7, <1>8, <1>9
<1>11. EndSessionsOfPhone(r) \/ Die(r)
  BY <1>2, <1>10 DEF RefuseChallenge, RefuseSignature, Undo, SignIn
<1>12. CASE Die(r)
  BY <1>0, <1>12 DEF Die
<1>13. CASE EndSessionsOfPhone(r)
  BY <1>2, <1>13
<1> QED
  BY <1>11, <1>12, <1>13

(* A phone that was revoked has a revocation at work, no fair session, or  *)
(* a request that died.                                                    *)
LEMMA PhoneStep ==
    ASSUME Types, ShutOutWithPhone, FairLoginsAreWelcome, [Next]_vars
    PROVE  ShutOutWithPhone'
<1>0. SessionsTyped /\ RequestsTyped /\ phones \in [Phones -> {"active", "revoked"}] /\ crashes \in Nat
  BY DEF Types, TypeOK
<1>1. crashes' = 0 => crashes = 0
  <2>1. UNCHANGED crashes \/ \E r \in Requests : Die(r)
    BY DEF Next, vars, Issue, ChallengeExpires, BeginLogin, RefuseChallenge, RefuseSignature, Undo,
           SignIn, RevokePhone, BlockAddress, UnblockAddress, Block, Unblock, EndSession,
           EndSessionsOfPhone
  <2> QED
    BY <1>0, <2>1 DEF Die
<1>2. ASSUME NEW p \in Phones, phones[p] = "active", phones'[p] # "active"
      PROVE  BeingRevoked(p)'
  <2>1. PICK r \in Requests, o \in Phones : RevokePhone(r, o)
    BY <1>2 DEF Next, vars, Issue, ChallengeExpires, BeginLogin, RefuseChallenge, RefuseSignature,
           Undo, SignIn, Die, BlockAddress, UnblockAddress, Block, Unblock, EndSession,
           EndSessionsOfPhone
  <2>2. o = p
    BY <1>0, <1>2, <2>1 DEF RevokePhone
  <2>3. requests' = [OvertakenAt(LoginsOfPhone(p)) EXCEPT ![r] = RevocationOf(p)]
    BY <1>0, <2>1, <2>2, OvertakenOfPhone
  <2>4. OvertakenAt(LoginsOfPhone(p)) \in [Requests -> {Idle} \cup Logins \cup Revocations]
    BY <1>0, OvertakenLogins DEF LoginsOfPhone
  <2>5. requests'[r] = RevocationOf(p)
    BY <2>3, <2>4
  <2> QED
    BY <2>5 DEF BeingRevoked
<1>3. PICK S : Ends(S)
  BY SessionsStep
<1>4. ASSUME NEW i \in DOMAIN sessions, sessions'[i].live, sessions'[i].fair, crashes' = 0,
             NEW p \in Phones, p = sessions[i].phone, ~BeingRevoked(p)'
      PROVE  phones'[p] = "active"
  <2>1. sessions[i].live /\ sessions[i].fair /\ crashes = 0
    BY <1>1, <1>3, <1>4 DEF Ends
  <2>2. ASSUME NEW r \in Requests, EndSessionsOfPhone(r), requests[r].phone = p
        PROVE  FALSE
    <3>1. sessions' = EndedAt(OfPhone(p))
      BY <2>2 DEF EndSessionsOfPhone, Ended, EndedAt, OfPhone
    <3>2. Ends(OfPhone(p))
      BY <3>1, <1>0, EndedSessions
    <3> QED
      BY <3>2, <1>4 DEF Ends, OfPhone
  <2>3. ~BeingRevoked(p)
    BY <2>2, <1>4, RevocationStep
  <2>4. phones[p] = "active"
    BY <2>1, <2>3, <1>4 DEF ShutOutWithPhone, LiveSessions
  <2> QED
    BY <2>4, <1>2, <1>4
<1>5. ASSUME NEW r \in Requests, SignIn(r), requests[r] \in Logins, OneIsMade(requests[r]),
             requests[r].fair
      PROVE  phones'[requests[r].phone] = "active"
  <2>1. requests[r].step = "login" /\ UNCHANGED phones
    BY <1>5 DEF SignIn
  <2> QED
    BY <2>1, <1>5 DEF FairLoginsAreWelcome, Welcome, IsInstalled
<1>6. ASSUME NEW i \in LiveSessions', sessions'[i].fair, crashes' = 0,
             NEW p, p = sessions'[i].phone, ~BeingRevoked(p)'
      PROVE  phones'[p] = "active"
  <2>1. i \in DOMAIN sessions' /\ sessions'[i].live
    BY DEF LiveSessions
  <2>2. CASE i \in DOMAIN sessions
    <3>1. p = sessions[i].phone /\ p \in Phones
      BY <1>0, <1>3, <1>6, <2>2, SessionFields DEF Ends
    <3> QED
      BY <3>1, <2>1, <2>2, <1>4, <1>6
  <2>3. CASE i \notin DOMAIN sessions
    <3>1. PICK r \in Requests : SignIn(r) /\ requests[r] \in Logins /\ OneIsMade(requests[r])
      BY <2>1, <2>3, SessionsStep DEF NoneIsMade
    <3>2. sessions'[i] = SessionOf(requests[r])
      BY <2>1, <2>3, <3>1 DEF OneIsMade
    <3>3. p = requests[r].phone /\ requests[r].fair
      BY <3>2, <1>6 DEF SessionOf
    <3> QED
      BY <3>1, <3>3, <1>5
  <2> QED
    BY <2>2, <2>3
<1> QED
  BY <1>6 DEF ShutOutWithPhone, BeingRevoked

-----------------------------------------------------------------------------
(***************************************************************************)
(* Theorems                                                                *)
(***************************************************************************)

LEMMA InvariantStep ==
    ASSUME Assumptions, IInv, [Next]_vars
    PROVE  IInv'
<1>1. /\ Types /\ OneSessionPerPhone /\ ChallengesSignInOnce /\ EveryoneHasACode
      /\ BlockedAreSignedOut /\ ShutOutByPlatform /\ ShutOutWithPhone /\ FairLoginsAreWelcome
  BY ShutOutParts DEF IInv, SessionsAreRight
<1>2. Types' /\ FairLoginsAreWelcome'
  BY <1>1, TypesStep, LoginsStep
<1>3. OneSessionPerPhone' /\ ChallengesSignInOnce' /\ EveryoneHasACode'
  BY <1>1, OneSessionStep, ChallengesStep, CodesStep DEF Assumptions
<1>4. BlockedAreSignedOut' /\ ShutOutByPlatform' /\ ShutOutWithPhone'
  BY <1>1, BlockedStep, PlatformStep, PhoneStep
<1>5. ShutOutIsSignedOut'
  BY <1>4 DEF ShutOutIsSignedOut, BlockedAreSignedOut, ShutOutByPlatform, ShutOutWithPhone
<1> QED
  BY <1>2, <1>3, <1>5 DEF IInv, SessionsAreRight

(* Every variable always has its type: requests are logins or revocations, *)
(* and never more sessions are made than the bound allows.                 *)
THEOREM TypeCorrect == ASSUME Assumptions PROVE Spec => []TypeOK
<1>1. Init => Types
  BY TypesInit
<1>2. Types /\ [Next]_vars => Types'
  BY TypesStep
<1>3. Types => TypeOK
  BY DEF Types
<1> QED
  BY <1>1, <1>2, <1>3, PTL DEF Spec

(* The inductive invariant: what SessionsAreRight says, and that a login   *)
(* nobody was shut out behind is of a wallet and a phone that are welcome. *)
THEOREM SessionsInvariant == ASSUME Assumptions PROVE Spec => []IInv
<1>1. Init => IInv
  BY InvariantInit
<1>2. IInv /\ [Next]_vars => IInv'
  BY InvariantStep
<1> QED
  BY <1>1, <1>2, PTL DEF Spec

(* A phone has one session, a challenge signs its own wallet in and once,  *)
(* every account has a code of its own, and whoever is blocked, or whose   *)
(* phone is revoked, is signed out unless their login had been admitted.   *)
THEOREM SessionsStayRight == ASSUME Assumptions PROVE Spec => []SessionsAreRight
<1>1. IInv => SessionsAreRight
  BY DEF IInv
<1> QED
  BY <1>1, SessionsInvariant, PTL

=============================================================================
