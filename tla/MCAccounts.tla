------------------------------ MODULE MCAccounts ------------------------------
(***************************************************************************)
(* Who gets in, and what they are served, on small instances: the wallets  *)
(* of a tenant on their phones, the packages that phones download, the     *)
(* reports that they send, the inviters that they name, and the            *)
(* administrators of the consoles.  They share no state: `part` says of    *)
(* which component, and within which bounds, a behaviour is; the others    *)
(* stay as they begin, so that the state spaces add up.                    *)
(***************************************************************************)
EXTENDS Naturals, Sequences, FiniteSets, TLC

CONSTANTS a, b, c, n1, n2, p1, p2, k1, k2, q1, q2, None

VARIABLES
    part,
    challenges, users, sessions, blocks, phones, requests, crashes,
    inviter, source, barred, enabled, holder, binders, quotaUsed, aborts,
    accounts, consoles, codes, rested, visits, mails, edits,
    session, ledger, late, upload, object, presigned, known, token, release, transfers,
    download, writes, deletes, acknowledged, touched,
    now, reporting, eligible, rows, objects, reports, made, answered, doomed

walletVars == <<challenges, users, sessions, blocks, phones, requests, crashes>>
referralVars == <<inviter, source, barred, enabled, holder, binders, quotaUsed, aborts>>
consoleVars == <<accounts, consoles, codes, rested, visits, mails, edits>>
uploadVars == <<session, ledger, late, upload, object, presigned, known, token, release,
                transfers, download, writes, deletes, acknowledged, touched>>
reportVars == <<now, reporting, eligible, rows, objects, reports, made, answered, doomed>>
accountVars == <<walletVars, referralVars, consoleVars>>
phoneVars == <<uploadVars, reportVars>>

(* Requests are alike in every component, and so are tokens of sessions.   *)
AccountSymmetry == Permutations({p1, p2}) \cup Permutations({k1, k2}) \cup Permutations({q1, q2})

-----------------------------------------------------------------------------
(* Two wallets that take turns on a phone; one wallet, and a server that   *)
(* dies.                                                                   *)
TwoWallets == INSTANCE WalletSessions WITH
    Wallets <- {a, b}, Phones <- {"phone"}, Challenges <- {n1, n2}, Codes <- {"first", "second"},
    NoCode <- "none", Attempts <- 1, Requests <- {p1, p2}, MaxSessions <- 2, MaxCrashes <- 0
OneWallet == INSTANCE WalletSessions WITH
    Wallets <- {a}, Phones <- {"phone"}, Challenges <- {n1, n2}, Codes <- {"first", "second"},
    NoCode <- "none", Attempts <- 1, Requests <- {p1, p2}, MaxSessions <- 2, MaxCrashes <- 1

(* Three users, the last of whom is late; or three who could make a tree   *)
(* that is as deep as it may be, while a request breaks off.               *)
LateUser == INSTANCE Referrals WITH
    Users <- {a, b, c}, Nobody <- "nobody", Late <- {c}, ReferralMaxDepth <- 2,
    AdminBindPerDay <- 1, Binders <- {q1, q2}, NoBinder <- "none", MaxAborts <- 0
DeepTree == INSTANCE Referrals WITH
    Users <- {a, b, c}, Nobody <- "nobody", Late <- {}, ReferralMaxDepth <- 3,
    AdminBindPerDay <- 1, Binders <- {q1, q2}, NoBinder <- "none", MaxAborts <- 1
OneBarred == Cardinality(barred) <= 1
NobodyBarred == barred = {} /\ enabled

(* One account whose owner and mailbox change; one whose two sessions ask  *)
(* for codes; two accounts of one person.                                  *)
Persons == INSTANCE ConsoleSessions WITH
    Accounts <- {a}, Subjects <- {"p", "q"}, Mailboxes <- {"m", "n"},
    Consoles <- {"platform", "t"}, Platform <- "platform", Sessions <- {k1},
    Requests <- {q1, q2}, MaxAttempts <- 2, MaxMails <- 2, MaxEdits <- 1,
    sessions <- consoles, requests <- visits
Factors == INSTANCE ConsoleSessions WITH
    Accounts <- {a}, Subjects <- {"p"}, Mailboxes <- {"m", "n"}, Consoles <- {"t"},
    Platform <- "platform", Sessions <- {k1, k2}, Requests <- {q1, q2},
    MaxAttempts <- 2, MaxMails <- 2, MaxEdits <- 1, sessions <- consoles, requests <- visits
Both == INSTANCE ConsoleSessions WITH
    Accounts <- {a, b}, Subjects <- {"p"}, Mailboxes <- {"m"},
    Consoles <- {"platform", "t"}, Platform <- "platform", Sessions <- {k1, k2},
    Requests <- {q1}, MaxAttempts <- 2, MaxMails <- 1, MaxEdits <- 1,
    sessions <- consoles, requests <- visits

(* A package in two parts, of which one file is too short; and in one      *)
(* piece, which may be taken back.                                         *)
InParts == INSTANCE ArtifactUploads WITH
    Way <- "session", Parts <- {1, 2}, Files <- {"a", "b"}, Short <- {"b"},
    Requests <- {p1, p2}, Faults <- {"list", "answer"}, MaxWrites <- 3, MaxDeletes <- 0,
    requests <- transfers
InOnePiece == INSTANCE ArtifactUploads WITH
    Way <- "whole", Parts <- {1, 2}, Files <- {"a", "b"}, Short <- {},
    Requests <- {p1, p2}, Faults <- {}, MaxWrites <- 3, MaxDeletes <- 1,
    requests <- transfers

(* One report, its log and its deletion; and three reports of two kinds,   *)
(* more than may be made.                                                  *)
TwoLogs == {<<"fine", "blank", "secret", "long">>, <<"malformed", "fine">>}
Quotas == [hour |-> 1, day |-> 2, auto |-> 1, tenant |-> 2, bytes |-> 2]
OneReport == INSTANCE DiagnosticReports WITH
    Reports <- {a}, Logs <- TwoLogs, Requests <- {p1, p2}, MaxLines <- 2,
    Faults <- {"put", "delete", "rows"}, Overlaps <- FALSE, MaxTime <- 2, MaxMade <- 2,
    enabled <- reporting, requests <- reports
ManyReports == INSTANCE DiagnosticReports WITH
    Reports <- {k1, k2, a}, Logs <- {}, Requests <- {p1, p2}, MaxLines <- 2,
    Faults <- {}, Overlaps <- FALSE, MaxTime <- 2, MaxMade <- 3,
    enabled <- reporting, requests <- reports
OnlyMade == reporting /\ doomed = {}

(* What the instances take for granted of their constants.                 *)
ASSUME AccountsAssumption ==
    /\ TwoWallets!CodesAssumption /\ TwoWallets!BoundsAssumption
    /\ OneWallet!CodesAssumption /\ OneWallet!BoundsAssumption
    /\ InParts!UploadsAssumption /\ InOnePiece!UploadsAssumption
    /\ OneReport!DiagnosticsAssumption /\ ManyReports!DiagnosticsAssumption

Parts == {"wallets", "wallet", "late", "deep", "persons", "factors", "both",
          "in parts", "whole", "log", "quota"}
AccountsInit ==
    /\ part \in Parts
    /\ IF part = "wallet" THEN OneWallet!Init ELSE TwoWallets!Init
    /\ IF part = "deep" THEN DeepTree!Init ELSE LateUser!Init
    /\ CASE part = "persons" -> Persons!Init
         [] part = "both" -> Both!Init
         [] OTHER -> Factors!Init
    /\ IF part = "whole" THEN InOnePiece!Init ELSE InParts!Init
    /\ IF part = "quota" THEN ManyReports!Init ELSE OneReport!Init

AccountsNext ==
    /\ \/ /\ \/ part = "wallets" /\ TwoWallets!Next
             \/ part = "wallet" /\ OneWallet!Next
          /\ UNCHANGED <<referralVars, consoleVars, phoneVars>>
       \/ /\ \/ part = "late" /\ LateUser!Next /\ OneBarred'
             \/ part = "deep" /\ DeepTree!Next /\ NobodyBarred'
          /\ UNCHANGED <<walletVars, consoleVars, phoneVars>>
       \/ /\ \/ part = "persons" /\ Persons!Next
             \/ part = "factors" /\ Factors!Next
             \/ part = "both" /\ Both!Next
          /\ UNCHANGED <<walletVars, referralVars, phoneVars>>
       \/ /\ \/ part = "in parts" /\ InParts!Next
             \/ part = "whole" /\ InOnePiece!Next
          /\ UNCHANGED <<accountVars, reportVars>>
       \/ /\ \/ part = "log" /\ OneReport!Next
             \/ part = "quota" /\ ManyReports!Next /\ OnlyMade'
          /\ UNCHANGED <<accountVars, uploadVars>>
    /\ UNCHANGED part

AccountsSpec == AccountsInit /\ [][AccountsNext]_<<part, accountVars, phoneVars>>

-----------------------------------------------------------------------------
(* A phone has one session, a challenge signs its wallet in once, every    *)
(* account has its code, and whoever is shut out is signed out; what a     *)
(* phone downloads is what was verified; a report that it sends has one    *)
(* reference, and its log is there, clean, as long as the report is.       *)
PhonesAreServedRightly ==
    /\ part = "wallets" => TwoWallets!TypeOK /\ TwoWallets!SessionsAreRight
    /\ part = "wallet" => OneWallet!TypeOK /\ OneWallet!SessionsAreRight
    /\ part = "in parts" => InParts!TypeOK /\ InParts!UploadsAreRight
    /\ part = "whole" =>
          InOnePiece!TypeOK /\ InOnePiece!UploadsAreRight /\ InOnePiece!RangesAreRight
    /\ part = "log" => OneReport!TypeOK /\ OneReport!ReportsAreRight
    /\ part = "quota" => ManyReports!TypeOK /\ ManyReports!ReportsAreRight


(* A session of a console is the person's who logged in, and a sensitive   *)
(* operation is preceded by a code that was mailed for it.                 *)
ConsolesAreRight ==
    /\ part = "persons" => Persons!TypeOK /\ Persons!ConsolesAreRight
    /\ part = "factors" => Factors!TypeOK /\ Factors!ConsolesAreRight
    /\ part = "both" => Both!TypeOK /\ Both!ConsolesAreRight
=============================================================================
