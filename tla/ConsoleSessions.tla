--------------------------- MODULE ConsoleSessions ---------------------------
(***************************************************************************)
(* Who may use a console: of a tenant, or of the platform.  Somebody comes *)
(* back from the identity provider, which tells their subject, and gets a  *)
(* session of the account that has this subject and belongs to the         *)
(* console.  Every request of the session looks at the account again,      *)
(* which another system edits at any time.  For sensitive operations a     *)
(* session needs a second factor: a code that was mailed to the account,   *)
(* kept in the memory of the server.                                       *)
(*                                                                         *)
(* Left aside: cookies and how they are sealed, domain names, the origin   *)
(* of a request, the key of the automation, limits by the hour and by      *)
(* address, and what is shown.                                             *)
(***************************************************************************)
EXTENDS Naturals, FiniteSets

CONSTANTS Accounts, Subjects, Mailboxes,
          Consoles, Platform,   \* a console per tenant, and that of the platform
          Sessions,             \* tokens of sessions
          Requests,             \* requests at a time
          MaxAttempts,          \* emailCodeMaxAttempts
          MaxMails, MaxEdits    \* bounds

VARIABLES accounts,     \* tenant_admin_accounts
          sessions,     \* admin_sessions
          codes,        \* emailCodeStore: a code per account
          rested,       \* accounts whose last mail is a minute old
          requests,
          mails,        \* what has been mailed: to whom, and for which session
          edits

vars == <<accounts, sessions, codes, rested, requests, mails, edits>>

-----------------------------------------------------------------------------
Nothing == [kind |-> "none"]
Ended == [kind |-> "ended"]
Idle == [step |-> "idle"]
AccountRows == [kind : {"account"}, console : Consoles, subject : Subjects,
                mailbox : Mailboxes, active : BOOLEAN]
SessionRows == [kind : {"session"}, account : Accounts, console : Consoles,
                subject : Subjects, person : Subjects, fresh : BOOLEAN, code : 0..MaxMails]
CodeRows == [kind : {"code"}, number : 1..MaxMails, session : Sessions,
             mailbox : Mailboxes, attempts : 0..(MaxAttempts - 1)]

TypeOK ==
    /\ accounts \in [Accounts -> AccountRows \cup {Nothing}]
    /\ sessions \in [Sessions -> SessionRows \cup {Nothing, Ended}]
    /\ codes \in [Accounts -> CodeRows \cup {Nothing}]
    /\ rested \subseteq Accounts
    /\ \A r \in Requests :
           requests[r].step \in {"idle", "login", "in", "mailing", "verified", "served"}
    /\ mails \subseteq [number : 1..MaxMails, session : Sessions, mailbox : Mailboxes]
    /\ edits \in 0..MaxEdits

Init ==
    /\ accounts \in [Accounts -> [kind : {"account"}, console : Consoles, subject : Subjects,
                                  mailbox : {CHOOSE m \in Mailboxes : TRUE}, active : {TRUE}]]
    /\ sessions = [s \in Sessions |-> Nothing] /\ codes = [a \in Accounts |-> Nothing]
    /\ rested = Accounts /\ requests = [r \in Requests |-> Idle]
    /\ mails = {} /\ edits = 0

IsOpen(s) == sessions[s].kind = "session"
Becomes(r, request) == requests' = [requests EXCEPT ![r] = request]

-----------------------------------------------------------------------------
(* The accounts of a subject decide: whoever is on the platform and in a   *)
(* tenant as well gets in nowhere.                                         *)
Of(subject) == {a \in Accounts : accounts[a] # Nothing /\ accounts[a].subject = subject}
AccountForLogin(subject, console) ==
    LET mine == Of(subject)
        platform == {a \in mine : accounts[a].console = Platform}
        here == {a \in mine : accounts[a].console = console}
    IN  IF platform # {} /\ mine # platform THEN {}
        ELSE {a \in here : accounts[a].active}

Login(r, subject, console) ==
    /\ requests[r] = Idle
    /\ \E a \in AccountForLogin(subject, console) :
           Becomes(r, [step |-> "login", account |-> a, console |-> console,
                       subject |-> accounts[a].subject, person |-> subject])
    /\ UNCHANGED <<accounts, sessions, codes, rested, mails, edits>>

CreateAdminSession(r, s) ==
    LET login == requests[r] IN
    /\ login.step = "login" /\ sessions[s] = Nothing
    /\ sessions' = [sessions EXCEPT ![s] =
           [kind |-> "session", account |-> login.account, console |-> login.console,
            subject |-> login.subject, person |-> login.person, fresh |-> FALSE, code |-> 0]]
    /\ Becomes(r, Idle)
    /\ UNCHANGED <<accounts, codes, rested, mails, edits>>

(* A logout, or the end of its time.                                       *)
EndSession(s) ==
    /\ IsOpen(s)
    /\ sessions' = [sessions EXCEPT ![s] = Ended]
    /\ UNCHANGED <<accounts, codes, rested, requests, mails, edits>>

AccountStillValid_OfAnyone(session, account) ==
    account # Nothing /\ account.console = session.console /\ account.active

(* Every request: the session is of this console, and its account is still *)
(* there, active and the same person's.                                    *)
AccountStillValid(session, account) ==
    /\ account # Nothing /\ account.console = session.console
    /\ account.active
    /\ account.subject = session.subject

LoadAdminSession(r, s, console) ==
    /\ requests[r] = Idle
    /\ IsOpen(s) /\ sessions[s].console = console
    /\ AccountStillValid(sessions[s], accounts[sessions[s].account])
    /\ Becomes(r, [step |-> "in", session |-> s, account |-> sessions[s].account,
                   mailbox |-> accounts[sessions[s].account].mailbox,
                   owner |-> accounts[sessions[s].account].subject,
                   fresh |-> sessions[s].fresh])
    /\ UNCHANGED <<accounts, sessions, codes, rested, mails, edits>>

(* A sensitive operation, if the session was fresh when it was loaded.     *)
Serve(r) ==
    /\ requests[r].step = "in" /\ requests[r].fresh
    /\ Becomes(r, [requests[r] EXCEPT !.step = "served"])
    /\ UNCHANGED <<accounts, sessions, codes, rested, mails, edits>>

Finish(r) ==
    /\ requests[r].step \in {"in", "served"}
    /\ Becomes(r, Idle)
    /\ UNCHANGED <<accounts, sessions, codes, rested, mails, edits>>

-----------------------------------------------------------------------------
(* A code is mailed, and replaces the account's last one when the mail has *)
(* gone out; only then the minute begins.                                  *)
AllowSend(a) == a \in rested
SendCode(r) ==
    LET req == requests[r]
        n == 1 + Cardinality({m.number : m \in mails})
    IN  /\ req.step = "in" /\ AllowSend(req.account) /\ n <= MaxMails
        /\ mails' = mails \cup {[number |-> n, session |-> req.session, mailbox |-> req.mailbox]}
        /\ Becomes(r, [step |-> "mailing", session |-> req.session, account |-> req.account,
                       mailbox |-> req.mailbox, number |-> n])
        /\ UNCHANGED <<accounts, sessions, codes, rested, edits>>

Sent(r) ==
    LET req == requests[r] IN
    /\ req.step = "mailing"
    /\ codes' = [codes EXCEPT ![req.account] =
           [kind |-> "code", number |-> req.number, session |-> req.session,
            mailbox |-> req.mailbox, attempts |-> 0]]
    /\ rested' = rested \ {req.account}
    /\ Becomes(r, Idle)
    /\ UNCHANGED <<accounts, sessions, mails, edits>>

SendFails(r) ==
    /\ requests[r].step = "mailing"
    /\ Becomes(r, Idle)
    /\ UNCHANGED <<accounts, sessions, codes, rested, mails, edits>>

(* Whoever names the code's token is compared with it; a wrong guess is    *)
(* counted, a code of another session or address is dropped.               *)
IsOf(code, req) == code.session = req.session /\ code.mailbox = req.mailbox
Misses(code, req) ==
    IF ~IsOf(code, req) \/ code.attempts + 1 >= MaxAttempts THEN Nothing
    ELSE [code EXCEPT !.attempts = @ + 1]

Miss(r) ==
    LET account == requests[r].account IN
    /\ requests[r].step = "in" /\ codes[account] # Nothing
    /\ codes' = [codes EXCEPT ![account] = Misses(codes[account], requests[r])]
    /\ Becomes(r, Idle)
    /\ UNCHANGED <<accounts, sessions, rested, mails, edits>>

Verify(r) ==
    LET account == requests[r].account IN
    /\ requests[r].step = "in" /\ codes[account] # Nothing /\ IsOf(codes[account], requests[r])
    /\ codes' = [codes EXCEPT ![account] = Nothing]
    /\ Becomes(r, [step |-> "verified", session |-> requests[r].session,
                   mailbox |-> requests[r].mailbox, number |-> codes[account].number])
    /\ UNCHANGED <<accounts, sessions, rested, mails, edits>>

Record(r) ==
    LET req == requests[r] IN
    /\ req.step = "verified"
    /\ sessions' = IF IsOpen(req.session)
                    THEN [sessions EXCEPT ![req.session].fresh = TRUE,
                                          ![req.session].code = req.number]
                    ELSE sessions
    /\ Becomes(r, Idle)
    /\ UNCHANGED <<accounts, codes, rested, mails, edits>>

-----------------------------------------------------------------------------
(* A minute, ten minutes, a quarter of an hour.                            *)
Rest(a) ==
    /\ a \notin rested /\ rested' = rested \cup {a}
    /\ UNCHANGED <<accounts, sessions, codes, requests, mails, edits>>
CodeExpires(a) ==
    /\ codes[a] # Nothing /\ codes' = [codes EXCEPT ![a] = Nothing]
    /\ UNCHANGED <<accounts, sessions, rested, requests, mails, edits>>
FactorExpires(s) ==
    /\ IsOpen(s) /\ sessions[s].fresh
    /\ sessions' = [sessions EXCEPT ![s].fresh = FALSE]
    /\ UNCHANGED <<accounts, codes, rested, requests, mails, edits>>

(* The server starts anew, and has forgotten its codes and its mails.      *)
Restart ==
    /\ codes' = [a \in Accounts |-> Nothing] /\ rested' = Accounts
    /\ requests' = [r \in Requests |-> Idle]
    /\ <<codes, rested, requests>> # <<codes', rested', requests'>>
    /\ UNCHANGED <<accounts, sessions, mails, edits>>

(* The other system disables, deletes, moves, renames and makes accounts.  *)
Edit(a, row) ==
    /\ edits < MaxEdits /\ edits' = edits + 1
    /\ accounts' = [accounts EXCEPT ![a] = row]
    /\ UNCHANGED <<sessions, codes, rested, requests, mails>>

Next ==
    \/ \E r \in Requests :
           \/ \E p \in Subjects, k \in Consoles : Login(r, p, k)
           \/ \E s \in Sessions :
                  CreateAdminSession(r, s) \/ \E k \in Consoles : LoadAdminSession(r, s, k)
           \/ Serve(r) \/ Finish(r)
           \/ SendCode(r) \/ Sent(r) \/ SendFails(r) \/ Miss(r) \/ Verify(r) \/ Record(r)
    \/ \E s \in Sessions : EndSession(s) \/ FactorExpires(s)
    \/ \E a \in Accounts :
           Rest(a) \/ CodeExpires(a) \/ \E row \in AccountRows \cup {Nothing} : Edit(a, row)
    \/ Restart

Spec == Init /\ [][Next]_vars

-----------------------------------------------------------------------------
Inside == {r \in Requests : /\ requests[r].step \in {"in", "served"}
                            /\ IsOpen(requests[r].session)}

(* A session lets in the person who logged in, whoever has their account   *)
(* by then.                                                                *)
PersonsKeepTheirSessions ==
    \A r \in Inside : requests[r].owner = sessions[requests[r].session].person

(* A sensitive operation is done in a session for which a code was mailed, *)
(* to the address that the account then had; and a code that has served is *)
(* gone.                                                                   *)
FactorsWereMailed ==
    /\ \A r \in Requests : requests[r].step = "verified" =>
           [number |-> requests[r].number, session |-> requests[r].session,
            mailbox |-> requests[r].mailbox] \in mails
    /\ \A r \in Inside : requests[r].step = "served" =>
           \E m \in mails : /\ m.session = requests[r].session
                            /\ m.number = sessions[requests[r].session].code
    /\ \A a \in Accounts, s \in Sessions :
           codes[a] # Nothing /\ IsOpen(s) => codes[a].number # sessions[s].code

ConsolesAreRight == PersonsKeepTheirSessions /\ FactorsWereMailed
=============================================================================
