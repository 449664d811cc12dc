------------------------------- MODULE Settings -------------------------------
(***************************************************************************)
(* Rows of app_configs that an administrator loads, changes and saves with *)
(* the version they loaded: the sign-in of the consoles, the mail server,  *)
(* the storage of the releases, the branding, the key that signs updates,  *)
(* the identity of the iOS app, the build directory, the declaration about *)
(* encryption.  A save reads the row, compares its version, works out what *)
(* to write, and then writes on condition that the version is the same.    *)
(* The rows differ in what a save may leave out, in who may change what,   *)
(* and in whether a tenant inherits from the platform; `kind` says which   *)
(* row a behaviour is about.                                               *)
(*                                                                         *)
(* A row is a place, an address or a name that it stands for, and a secret *)
(* that goes with it.  Left aside: all else that is in the rows.           *)
(***************************************************************************)
EXTENDS Naturals

CONSTANTS Tenants, Platform,
          Places, Slug,     \* the slug of a tenant is its directory at first
          Editors,      \* requests of administrators
          Kinds,        \* the rows that are looked at
          Overlaps,     \* whether two tenants may choose an identity at once
          MaxVersion, MaxDeletes    \* bounds

VARIABLES kind,
          rows,         \* app_configs of the kind
          forms,        \* what a request has loaded, and worked out
          deletes

vars == <<kind, rows, forms, deletes>>

-----------------------------------------------------------------------------
Owners == Tenants \cup {Platform}
NoPlace == "no place"
NoSecret == [place |-> NoPlace, owner |-> Platform]
Secrets == [place : Places, owner : Owners]     \* where and by whom it was entered
NoRow == [version |-> 0, place |-> NoPlace, secret |-> NoSecret]
Rows == [version : 1..MaxVersion, place : Places, secret : Secrets \cup {NoSecret}]
Exists(o) == rows[o] # NoRow

OfThePlatform == {"signIn", "mail"}
Inherited == {"storage", "branding"}
WithSecret == {"signIn", "mail", "storage", "updates"}
OwnersOf(k) == IF k \in OfThePlatform THEN {Platform}
               ELSE IF k = "storage" THEN Owners ELSE Tenants

Closed == [step |-> "closed"]

TypeOK ==
    /\ kind \in Kinds
    /\ rows \in [Owners -> Rows \cup {NoRow}]
    /\ \A e \in Editors : forms[e].step \in {"closed", "open", "checked"}
    /\ deletes \in 0..MaxDeletes
    /\ \A o \in Owners : Exists(o) => rows[o].secret = NoSecret \/ kind \in WithSecret

(* A tenant that inherits does so from the first.                          *)
Init ==
    /\ kind \in Kinds
    /\ \E place \in Places :
           rows = [o \in Owners |->
               IF o = Platform /\ kind \in Inherited
               THEN [version |-> 1, place |-> place,
                     secret |-> IF kind \in WithSecret THEN [place |-> place, owner |-> o] ELSE NoSecret]
               ELSE NoRow]
    /\ forms = [e \in Editors |-> Closed]
    /\ deletes = 0

-----------------------------------------------------------------------------
(* The row that counts for somebody; the version that a page shows for it. *)
Current(o) == IF kind \in Inherited /\ ~Exists(o) THEN rows[Platform] ELSE rows[o]
Version(o) == IF kind = "branding" THEN rows[o].version ELSE Current(o).version

Open(e, o) ==
    /\ forms[e] = Closed
    /\ forms' = [forms EXCEPT ![e] =
           [step |-> "open", owner |-> o, version |-> Version(o), seen |-> rows[o]]]
    /\ UNCHANGED <<kind, rows, deletes>>

Close(e) ==
    /\ forms[e] # Closed
    /\ forms' = [forms EXCEPT ![e] = Closed]
    /\ UNCHANGED <<kind, rows, deletes>>

(* What every save does first, and what it will write.                     *)
IsCurrent(e) == forms[e].step = "open" /\ forms[e].version = Version(forms[e].owner)
Checked(e, place, secret) ==
    /\ forms' = [forms EXCEPT ![e] =
           [step |-> "checked", owner |-> @.owner, seen |-> @.seen, version |-> @.version,
            found |-> Exists(@.owner), place |-> place, secret |-> secret]]
    /\ UNCHANGED <<kind, rows, deletes>>
Entered(e, place) == [place |-> place, owner |-> forms[e].owner]

(* The secret of the sign-in stays when none is entered.                   *)
SaveSignIn(e, place, entered) ==
    /\ kind = "signIn" /\ IsCurrent(e)
    /\ entered \/ Exists(Platform)
    /\ Checked(e, place, IF entered THEN Entered(e, place) ELSE rows[Platform].secret)

(* The password stays where it was entered for; a server without a user    *)
(* has none.                                                               *)
MailPasswordStays(place) ==
    Exists(Platform) /\ rows[Platform].secret # NoSecret /\ place = rows[Platform].place
SaveMail(e, place, entered) ==
    /\ kind = "mail" /\ IsCurrent(e)
    /\ \/ entered /\ Checked(e, place, Entered(e, place))
       \/ ~entered /\ MailPasswordStays(place) /\ Checked(e, place, rows[Platform].secret)
       \/ ~entered /\ Checked(e, place, NoSecret)

(* Whoever inherits the storage of the platform brings their own key; who  *)
(* has their own may leave it or clear it.                                 *)
MayLeaveKey(o) == Exists(o)
SaveStorage(e, place, entered) ==
    LET o == forms[e].owner IN
    /\ kind = "storage" /\ IsCurrent(e)
    /\ \/ entered /\ Checked(e, place, Entered(e, place))
       \/ ~entered /\ MayLeaveKey(o) /\ Checked(e, place, Current(o).secret)
       \/ ~entered /\ Checked(e, place, NoSecret)

SaveUpdateKey(e, place) ==
    /\ kind = "updates" /\ IsCurrent(e)
    /\ Checked(e, place, Entered(e, place))

SaveBranding(e, place) ==
    /\ kind = "branding" /\ IsCurrent(e)
    /\ Checked(e, place, NoSecret)

(* A bundle belongs to one tenant; a tenant that does not change it is not *)
(* asked.                                                                  *)
IsFree(o, place) == \A t \in Tenants \ {o} : rows[t].place # place
Alone(e) == \A f \in Editors \ {e} : forms[f].step # "checked"
SaveIdentity(e, place) ==
    LET o == forms[e].owner IN
    /\ kind = "identity" /\ IsCurrent(e)
    /\ Overlaps \/ Alone(e)
    /\ place # rows[o].place => IsFree(o, place)
    /\ Checked(e, place, NoSecret)

(* A tenant brings its directory back as it is; its version is compared    *)
(* after that.  The platform changes the directory, and nothing but that,  *)
(* in a transaction that holds the row.                                    *)
Directory(o) == IF Exists(o) THEN rows[o].place ELSE Slug
SaveBuildConfig(e, place) ==
    /\ kind = "build" /\ forms[e].step = "open"
    /\ place = Directory(forms[e].owner)
    /\ forms' = [forms EXCEPT ![e] =
           [step |-> "checked", owner |-> @.owner, seen |-> @.seen, version |-> @.version,
            found |-> @.version # 0, place |-> place, secret |-> NoSecret]]
    /\ UNCHANGED <<kind, rows, deletes>>
SaveBuildDirectory(e, place) ==
    LET o == forms[e].owner IN
    /\ kind = "build" /\ IsCurrent(e)
    /\ rows[o].version < MaxVersion
    /\ rows' = [rows EXCEPT ![o] = [version |-> @.version + 1, place |-> place, secret |-> NoSecret]]
    /\ forms' = [forms EXCEPT ![e] = Closed]
    /\ UNCHANGED <<kind, deletes>>

SaveDeclaration(e, place) ==
    /\ kind = "declaration" /\ IsCurrent(e)
    /\ place # rows[forms[e].owner].place
    /\ Checked(e, place, NoSecret)

(* One statement for a row that was found, of the version that was         *)
(* compared; another for one that was not, which must not have come since. *)
MayWrite(form) ==
    IF form.found THEN rows[form.owner].version = form.version ELSE ~Exists(form.owner)
Written(form) ==
    [version |-> IF form.found THEN form.version + 1 ELSE 1,
     place |-> form.place, secret |-> form.secret]
Write(e) ==
    LET form == forms[e] IN
    /\ form.step = "checked" /\ MayWrite(form)
    /\ Written(form).version <= MaxVersion
    /\ rows' = [rows EXCEPT ![form.owner] = Written(form)]
    /\ forms' = [forms EXCEPT ![e] = Closed]
    /\ UNCHANGED <<kind, deletes>>

(* The sign-in and the mail server are deleted as they are, a declaration  *)
(* as it was seen.                                                         *)
Delete(o) ==
    /\ kind \in OfThePlatform /\ Exists(o)
    /\ deletes < MaxDeletes /\ deletes' = deletes + 1
    /\ rows' = [rows EXCEPT ![o] = NoRow]
    /\ UNCHANGED <<kind, forms>>

Withdraw(e) ==
    LET o == forms[e].owner IN
    /\ kind = "declaration" /\ IsCurrent(e) /\ Exists(o)
    /\ deletes < MaxDeletes /\ deletes' = deletes + 1
    /\ rows' = [rows EXCEPT ![o] = NoRow]
    /\ forms' = [forms EXCEPT ![e] = Closed]
    /\ UNCHANGED kind

Next ==
    \/ \E e \in Editors :
           \/ \E o \in OwnersOf(kind) : Open(e, o)
           \/ Close(e) \/ Write(e) \/ Withdraw(e)
           \/ \E place \in Places :
                  \/ SaveUpdateKey(e, place) \/ SaveBranding(e, place)
                  \/ SaveIdentity(e, place) \/ SaveDeclaration(e, place)
                  \/ SaveBuildConfig(e, place) \/ SaveBuildDirectory(e, place)
                  \/ \E entered \in BOOLEAN :
                         SaveSignIn(e, place, entered) \/ SaveMail(e, place, entered)
                         \/ SaveStorage(e, place, entered)
    \/ \E o \in Owners : Delete(o)

Spec == Init /\ [][Next]_vars

-----------------------------------------------------------------------------
(* A password for mail goes with the server it was entered for, whatever   *)
(* saves and deletions cross; a key of the platform's storage is in no row *)
(* of a tenant.                                                            *)
SecretsStay ==
    \A o \in Owners : Exists(o) /\ rows[o].secret # NoSecret =>
        /\ kind = "mail" => rows[o].secret.place = rows[o].place
        /\ kind = "storage" => rows[o].secret.owner = o

(* Two tenants that choose one after the other do not share a bundle.      *)
BundlesDiffer ==
    kind = "identity" /\ ~Overlaps =>
        \A t, u \in Tenants : Exists(t) /\ rows[t].place = rows[u].place => t = u

SettingsAreRight == SecretsStay /\ BundlesDiffer

(* A row is replaced by somebody who has seen it.  Two exceptions: who had *)
(* seen the platform's storage may have the version of the tenant's first  *)
(* row, and versions begin again when a row has been deleted.              *)
NoSettingIsReplacedUnseen ==
    [][\A o \in Owners :
           Exists(o) /\ rows'[o] # rows[o] /\ rows'[o] # NoRow /\ deletes = 0 =>
               \E e \in Editors :
                   /\ forms[e] # Closed /\ forms'[e] = Closed
                   /\ \/ forms[e].seen = rows[o]
                      \/ kind = "storage" /\ forms[e].seen = NoRow]_vars

(* The directory is the platform's to change, and a save of the tenant     *)
(* that crosses its change does not bring the old one back.                *)
OnlyThePlatformMoves ==
    [][\A t \in Tenants : kind = "build" /\ rows'[t] # rows[t] =>
           \/ rows'[t].place = Directory(t)
           \/ \E e \in Editors : forms[e].step = "open" /\ forms'[e] = Closed]_vars
=============================================================================
