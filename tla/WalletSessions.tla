---------------------------- MODULE WalletSessions ----------------------------
(***************************************************************************)
(* Who is signed in on which phone, in one tenant.  A phone asks for a     *)
(* challenge, signs it with its wallet, and gets a session, which makes it *)
(* an account the first time.  Administrators of the tenant and of the     *)
(* platform block wallets, end sessions and revoke phones meanwhile.       *)
(*                                                                         *)
(* A login first asks whether the phone and the wallet are welcome, and    *)
(* then does the rest in one transaction, which the locked rows of the     *)
(* challenge and of the account put in order with all others.  Left aside: *)
(* how a signature is verified, and what is shown.                         *)
(***************************************************************************)
EXTENDS Naturals, Sequences, FiniteSets

CONSTANTS Wallets,      \* addresses
          Phones,       \* installations
          Challenges,   \* nonces
          Codes, NoCode,    \* invite codes
          Attempts,     \* codes that a login draws
          Requests,     \* logins and revocations at a time
          MaxSessions,  \* bound: sessions ever
          MaxCrashes    \* bound: requests that a server dies with

VARIABLES challenges,   \* wallet_auth_nonce: its wallet and what became of it
          users,        \* wallet_user: status and invite code
          sessions,     \* wallet_session, in the order in which they were made
          blocks,       \* platform_wallet_block: those in force
          phones,       \* app_installations: "active" or "revoked"
          requests,     \* what a request has found out
          crashes

vars == <<challenges, users, sessions, blocks, phones, requests, crashes>>

(* No code stands for none, and the bounds are numbers.                    *)
CodesAssumption == NoCode \notin Codes
BoundsAssumption == MaxSessions \in Nat /\ MaxCrashes \in Nat

-----------------------------------------------------------------------------
NoChallenge == [state |-> "none"]
NoUser == [status |-> "none", code |-> NoCode]
Idle == [step |-> "idle"]
LoginOf(c, w, p, good) ==
    [step |-> "login", challenge |-> c, wallet |-> w, phone |-> p, good |-> good, fair |-> TRUE]
RevocationOf(p) == [step |-> "revocation", phone |-> p]
SessionOf(login) ==
    [wallet |-> login.wallet, phone |-> login.phone, challenge |-> login.challenge,
     live |-> TRUE, fair |-> login.fair]

TypeOK ==
    /\ challenges \in [Challenges ->
           {NoChallenge} \cup [state : {"open", "spent"}, wallet : Wallets]]
    /\ users \in [Wallets -> [status : {"none", "active", "blocked"}, code : Codes \cup {NoCode}]]
    /\ Len(sessions) <= MaxSessions
    /\ \A i \in DOMAIN sessions : sessions[i] \in
           [wallet : Wallets, phone : Phones, challenge : Challenges, live : BOOLEAN, fair : BOOLEAN]
    /\ blocks \subseteq Wallets
    /\ phones \in [Phones -> {"active", "revoked"}]
    /\ crashes \in 0..MaxCrashes

Init ==
    /\ challenges = [c \in Challenges |-> NoChallenge]
    /\ users = [w \in Wallets |-> NoUser]
    /\ sessions = <<>>
    /\ blocks = {}
    /\ phones = [p \in Phones |-> "active"]
    /\ requests = [r \in Requests |-> Idle]
    /\ crashes = 0

Ended(Those(_)) ==
    [i \in DOMAIN sessions |->
        IF Those(sessions[i]) THEN [sessions[i] EXCEPT !.live = FALSE] ELSE sessions[i]]

(* Logins in flight that have asked before somebody was shut out.          *)
Overtaken(Those(_)) ==
    [r \in Requests |->
        IF requests[r].step = "login" /\ Those(requests[r])
        THEN [requests[r] EXCEPT !.fair = FALSE] ELSE requests[r]]

-----------------------------------------------------------------------------
Issue(c, w) ==
    /\ challenges[c] = NoChallenge
    /\ challenges' = [challenges EXCEPT ![c] = [state |-> "open", wallet |-> w]]
    /\ UNCHANGED <<users, sessions, blocks, phones, requests, crashes>>

ChallengeExpires(c) ==
    /\ challenges[c].state = "open"
    /\ challenges' = [challenges EXCEPT ![c].state = "spent"]
    /\ UNCHANGED <<users, sessions, blocks, phones, requests, crashes>>

(* A phone answers a challenge, with a signature that may be wrong and an  *)
(* address that may be another one.                                        *)
IsInstalled(p) == phones[p] = "active"
IsBlocked(w) == w \in blocks
Welcome(w, p) == IsInstalled(p) /\ ~IsBlocked(w)
BeginLogin(r, c, w, p, good) ==
    /\ requests[r] = Idle
    /\ challenges[c] # NoChallenge
    /\ Len(sessions) < MaxSessions
    /\ Welcome(w, p)
    /\ requests' = [requests EXCEPT ![r] = LoginOf(c, w, p, good)]
    /\ UNCHANGED <<challenges, users, sessions, blocks, phones, crashes>>

Answers_Again(login) == challenges[login.challenge].wallet = login.wallet

(* The transaction reads the challenge first, and nothing comes of a login *)
(* whose challenge is spent or of another wallet.                          *)
Answers(login) ==
    /\ challenges[login.challenge].state = "open"
    /\ challenges[login.challenge].wallet = login.wallet
Spent(c) == [challenges EXCEPT ![c].state = "spent"]

RefuseChallenge(r) ==
    /\ requests[r].step = "login" /\ ~Answers(requests[r])
    /\ requests' = [requests EXCEPT ![r] = Idle]
    /\ UNCHANGED <<challenges, users, sessions, blocks, phones, crashes>>

RefuseSignature(r) ==
    /\ requests[r].step = "login" /\ Answers(requests[r]) /\ ~requests[r].good
    /\ challenges' = Spent(requests[r].challenge)
    /\ requests' = [requests EXCEPT ![r] = Idle]
    /\ UNCHANGED <<users, sessions, blocks, phones, crashes>>

(* An account gets the first of the codes drawn that nobody has.           *)
Taken == {users[w].code : w \in Wallets}
Drawn(w) == IF users[w].code # NoCode THEN {users[w].code} ELSE Codes \ Taken
Registered(w, code) ==
    [users EXCEPT ![w].status = IF @ = "none" THEN "active" ELSE @, ![w].code = code]

(* Everything is undone for a blocked account, and when all codes that     *)
(* were drawn are taken.                                                   *)
Undo(r) ==
    /\ requests[r].step = "login" /\ Answers(requests[r]) /\ requests[r].good
    /\ LET w == requests[r].wallet IN
       \/ users[w].status = "blocked"
       \/ users[w].code = NoCode /\ Cardinality(Codes \cap Taken) >= Attempts
    /\ requests' = [requests EXCEPT ![r] = Idle]
    /\ UNCHANGED <<challenges, users, sessions, blocks, phones, crashes>>

(* A new session of a phone takes the place of the one it had.             *)
SignIn(r) ==
    LET login == requests[r] IN
    /\ login.step = "login" /\ Answers(login) /\ login.good
    /\ users[login.wallet].status # "blocked"
    /\ Len(sessions) < MaxSessions
    /\ \E code \in Drawn(login.wallet) : users' = Registered(login.wallet, code)
    /\ challenges' = Spent(login.challenge)
    /\ sessions' = Append(Ended(LAMBDA s : s.phone = login.phone),
                          SessionOf(login))
    /\ requests' = [requests EXCEPT ![r] = Idle]
    /\ UNCHANGED <<blocks, phones, crashes>>

(* A logout, an administrator, or seven days.                              *)
EndSession(i) ==
    /\ sessions[i].live
    /\ sessions' = [sessions EXCEPT ![i].live = FALSE]
    /\ UNCHANGED <<challenges, users, blocks, phones, requests, crashes>>

-----------------------------------------------------------------------------
(* A tenant blocks an account and ends its sessions, in one transaction.   *)
Block(w) ==
    /\ users[w].status = "active"
    /\ users' = [users EXCEPT ![w].status = "blocked"]
    /\ sessions' = Ended(LAMBDA s : s.wallet = w)
    /\ UNCHANGED <<challenges, blocks, phones, requests, crashes>>

Unblock(w) ==
    /\ users[w].status = "blocked"
    /\ users' = [users EXCEPT ![w].status = "active"]
    /\ UNCHANGED <<challenges, sessions, blocks, phones, requests, crashes>>

(* The platform blocks an address, whether or not it has an account.       *)
BlockAddress(w) ==
    /\ w \notin blocks
    /\ blocks' = blocks \cup {w}
    /\ sessions' = Ended(LAMBDA s : s.wallet = w)
    /\ requests' = Overtaken(LAMBDA login : login.wallet = w)
    /\ UNCHANGED <<challenges, users, phones, crashes>>

UnblockAddress(w) ==
    /\ w \in blocks
    /\ blocks' = blocks \ {w}
    /\ UNCHANGED <<challenges, users, sessions, phones, requests, crashes>>

(* A phone is revoked in one statement, and its sessions are ended in      *)
(* another; a revoked phone cannot be revoked again.                       *)
RevokePhone(r, p) ==
    /\ requests[r] = Idle
    /\ phones[p] = "active"
    /\ phones' = [phones EXCEPT ![p] = "revoked"]
    /\ requests' = [Overtaken(LAMBDA login : login.phone = p) EXCEPT ![r] = RevocationOf(p)]
    /\ UNCHANGED <<challenges, users, sessions, blocks, crashes>>

EndSessionsOfPhone(r) ==
    /\ requests[r].step = "revocation"
    /\ sessions' = Ended(LAMBDA s : s.phone = requests[r].phone)
    /\ requests' = [requests EXCEPT ![r] = Idle]
    /\ UNCHANGED <<challenges, users, blocks, phones, crashes>>

(* A server dies, or the caller has gone and the request is cancelled.     *)
Die(r) ==
    /\ requests[r] # Idle
    /\ crashes < MaxCrashes /\ crashes' = crashes + 1
    /\ requests' = [requests EXCEPT ![r] = Idle]
    /\ UNCHANGED <<challenges, users, sessions, blocks, phones>>

Next ==
    \/ \E c \in Challenges : ChallengeExpires(c) \/ \E w \in Wallets : Issue(c, w)
    \/ \E r \in Requests, c \in Challenges, w \in Wallets, p \in Phones, good \in BOOLEAN :
           BeginLogin(r, c, w, p, good)
    \/ \E r \in Requests :
           \/ RefuseChallenge(r) \/ RefuseSignature(r) \/ Undo(r) \/ SignIn(r)
           \/ EndSessionsOfPhone(r) \/ Die(r) \/ \E p \in Phones : RevokePhone(r, p)
    \/ \E i \in DOMAIN sessions : EndSession(i)
    \/ \E w \in Wallets : Block(w) \/ Unblock(w) \/ BlockAddress(w) \/ UnblockAddress(w)

Spec == Init /\ [][Next]_vars

-----------------------------------------------------------------------------
LiveSessions == {i \in DOMAIN sessions : sessions[i].live}
BeingRevoked(p) == \E r \in Requests : requests[r] = RevocationOf(p)

(* A phone has one session, whatever logins of it overlap.                 *)
OneSessionPerPhone ==
    \A i, j \in LiveSessions : sessions[i].phone = sessions[j].phone => i = j

(* A challenge signs its own wallet in, and once.                          *)
ChallengesSignInOnce ==
    \A i, j \in DOMAIN sessions :
        /\ challenges[sessions[i].challenge] = [state |-> "spent", wallet |-> sessions[i].wallet]
        /\ sessions[i].challenge = sessions[j].challenge => i = j

(* Every account has an invite code that is its own.                       *)
EveryoneHasACode ==
    \A w, v \in Wallets : users[w] # NoUser =>
        users[w].code # NoCode /\ (users[w].code = users[v].code => v = w)

(* Whoever is shut out is signed out: by a tenant at once, by the platform *)
(* and with their phone unless the login had passed the check before.  A   *)
(* revocation that breaks off in between leaves the session.               *)
ShutOutIsSignedOut ==
    \A i \in LiveSessions :
        LET s == sessions[i] IN
        /\ users[s.wallet].status = "active"
        /\ s.fair => s.wallet \notin blocks
        /\ s.fair /\ crashes = 0 /\ ~BeingRevoked(s.phone) => phones[s.phone] = "active"

SessionsAreRight ==
    OneSessionPerPhone /\ ChallengesSignInOnce /\ EveryoneHasACode /\ ShutOutIsSignedOut
=============================================================================
