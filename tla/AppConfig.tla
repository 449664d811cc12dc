------------------------------ MODULE AppConfig ------------------------------
(***************************************************************************)
(* What a tenant's app is told at its start: modules, chains of the        *)
(* wallet, the prediction market it is linked to, and the oldest version   *)
(* that may go on.  A tenant has a row of its own or inherits that of the  *)
(* platform.  Administrators of the tenant load all of it and save all of  *)
(* it; the link is changed by the platform alone.  A save locks the rows   *)
(* and compares the version with the one that was loaded.                  *)
(*                                                                         *)
(* Left aside: themes, texts, the other features, which are replaced in    *)
(* the same way, and that a section which a client leaves out is carried   *)
(* over.                                                                   *)
(***************************************************************************)
EXTENDS Naturals

CONSTANTS Editors,      \* administrators of the tenant
          Platform,     \* one of the platform
          NoEditor,
          Chains, NoChain,
          Builds,       \* versions that were built for iOS, as numbers
          MaxVersion    \* bound: saves

VARIABLES own, base,    \* app_configs: mobile-bootstrap of the tenant and of the platform
          forms,        \* what an administrator has loaded
          lock,         \* whose transaction holds the rows
          installable,  \* builds that the tenant has marked so
          rejected      \* builds that Apple has refused after they had been

vars == <<own, base, forms, lock, installable, rejected>>

-----------------------------------------------------------------------------
Contents == [predict : BOOLEAN, chains : SUBSET Chains, link : Chains \cup {NoChain},
             minimum : {0} \cup Builds]
Initial == [predict |-> TRUE, chains |-> Chains, link |-> NoChain, minimum |-> 0]
Consistent == [Initial EXCEPT !.predict = FALSE]

NoRow == [version |-> 0, content |-> Initial]
Closed == [step |-> "closed"]
HasOwn == own # NoRow
Effective == IF HasOwn THEN own ELSE base
Actors == Editors \cup {Platform}

TypeOK ==
    /\ own \in [version : 0..MaxVersion, content : Contents]
    /\ base \in [version : 0..MaxVersion, content : Contents]
    /\ lock \in Actors \cup {NoEditor}
    /\ \A e \in Actors :
           /\ forms[e].step \in {"closed", "open", "locked"}
           /\ (lock = e) = (forms[e].step = "locked")
    /\ installable \subseteq Builds /\ rejected \subseteq Builds

(* A database that has been in use, where a migration has put the row of   *)
(* the platform right, or one without any row.                             *)
Init ==
    /\ own = NoRow
    /\ base \in {NoRow, [version |-> 1, content |-> Consistent],
                 [version |-> 2, content |-> Consistent]}
    /\ forms = [e \in Actors |-> Closed]
    /\ lock = NoEditor
    /\ installable = {} /\ rejected = {}

-----------------------------------------------------------------------------
(* Whoever looks first, a phone or an administrator, makes the row of the  *)
(* platform if there is none.                                              *)
Seed ==
    /\ base = NoRow
    /\ base' = [version |-> 1, content |-> Initial]
    /\ UNCHANGED <<own, forms, lock, installable, rejected>>

Open(e) ==
    /\ base # NoRow
    /\ forms[e] = Closed
    /\ forms' = [forms EXCEPT ![e] = [step |-> "open", seen |-> Effective, inherited |-> ~HasOwn]]
    /\ UNCHANGED <<own, base, lock, installable, rejected>>

Close(e) ==
    /\ forms[e].step = "open"
    /\ forms' = [forms EXCEPT ![e] = Closed]
    /\ UNCHANGED <<own, base, lock, installable, rejected>>

(* predictServiceFor: who has the module switched on has a whole link, on  *)
(* a chain that is enabled.                                                *)
Complete(content) == content.predict => content.link \in content.chains

(* iosMinVersionProblem: a minimum that is raised is one that phones can   *)
(* install.  Other transactions may change what they can meanwhile.        *)
CanBeReached(minimum) == minimum <= Effective.content.minimum \/ \E b \in installable : minimum <= b

(* A version that is not the one of the row is refused before anything     *)
(* else, and nothing is locked; so is a link that is not the one stored.   *)
BeginSave(e, content) ==
    /\ forms[e].step = "open" /\ lock = NoEditor
    /\ forms[e].seen.version = Effective.version
    /\ content.link = Effective.content.link
    /\ CanBeReached(content.minimum)
    /\ Complete(content)
    /\ lock' = e
    /\ forms' = [forms EXCEPT ![e] =
           [step |-> "locked", seen |-> @.seen, inherited |-> @.inherited, content |-> content]]
    /\ UNCHANGED <<own, base, installable, rejected>>

(* writeMobileBootstrapRow: the tenant's row with that version, or the     *)
(* first one of the tenant where the platform's row has it.                *)
Written(expected, content) ==
    IF HasOwn THEN [version |-> expected + 1, content |-> content]
    ELSE [version |-> 1, content |-> content]

Save(e) ==
    /\ forms[e].step = "locked"
    /\ own.version < MaxVersion
    /\ own' = Written(forms[e].seen.version, forms[e].content)
    /\ forms' = [forms EXCEPT ![e] = Closed]
    /\ lock' = NoEditor
    /\ UNCHANGED <<base, installable, rejected>>

(* The request is cancelled, or the server dies.                           *)
Rollback(e) ==
    /\ forms[e].step = "locked"
    /\ forms' = [forms EXCEPT ![e] = Closed]
    /\ lock' = NoEditor
    /\ UNCHANGED <<own, base, installable, rejected>>

(* updatePredictLink: the platform changes the link in what is stored.     *)
BeginLink(link) ==
    LET content == [Effective.content EXCEPT !.link = link] IN
    /\ forms[Platform].step = "open" /\ lock = NoEditor
    /\ forms[Platform].seen.version = Effective.version
    /\ Complete(content)
    /\ lock' = Platform
    /\ forms' = [forms EXCEPT ![Platform] =
           [step |-> "locked", seen |-> @.seen, inherited |-> @.inherited, content |-> content]]
    /\ UNCHANGED <<own, base, installable, rejected>>

(* markIOSIPAStatus: a tenant that uploads its packages itself says what   *)
(* Apple has made of them.                                                 *)
Mark(b) ==
    /\ b \notin installable
    /\ installable' = installable \cup {b} /\ rejected' = rejected \ {b}
    /\ UNCHANGED <<own, base, forms, lock>>

Reject(b) ==
    /\ b \in installable
    /\ installable' = installable \ {b} /\ rejected' = rejected \cup {b}
    /\ UNCHANGED <<own, base, forms, lock>>

Next ==
    \/ Seed
    \/ \E e \in Actors : Open(e) \/ Close(e) \/ Save(e) \/ Rollback(e)
    \/ \E e \in Editors, content \in Contents : BeginSave(e, content)
    \/ \E link \in Chains \cup {NoChain} : BeginLink(link)
    \/ \E b \in Builds : Mark(b) \/ Reject(b)

Spec == Init /\ [][Next]_vars

-----------------------------------------------------------------------------
(* The app of a tenant that has saved anything can start: whatever two     *)
(* administrators and the platform do, the module that is on has its link. *)
OwnCanBeDelivered == HasOwn => Complete(own.content)

(* Nobody is told to install what cannot be installed, unless Apple has    *)
(* refused it since.                                                       *)
NobodyIsLockedOut ==
    HasOwn /\ own.content.minimum # 0 =>
        \E b \in installable \cup rejected : own.content.minimum <= b

ConfigIsRight == OwnCanBeDelivered /\ NobodyIsLockedOut

(* The app of every tenant can start.                                      *)
DefaultCanBeDelivered == base # NoRow => Complete(base.content)

(* Content is replaced by somebody who has seen it.  A form that was       *)
(* loaded from the platform's row compares with the tenant's first one.    *)
NoContentIsReplacedUnseen ==
    [][own' # own /\ HasOwn =>
           \E e \in Actors : forms[e].step = "locked" /\
               (forms[e].seen = own \/ forms[e].inherited \/ e = Platform)]_vars

(* The link is the platform's to change.                                   *)
OnlyThePlatformLinks ==
    [][own' # own /\ own'.content.link # Effective.content.link => lock = Platform]_vars
=============================================================================
