------------------------------ MODULE Referrals ------------------------------
(***************************************************************************)
(* Who has invited whom among the accounts of a tenant.  An account names  *)
(* its inviter once, itself within a window after its first login, or an   *)
(* administrator does it later, within a daily quota.  What a request      *)
(* reads and then writes is in order only because all requests of a tenant *)
(* take one lock of the database, on the connection they then use.         *)
(*                                                                         *)
(* Left aside: how an account is found from a code or an address, the      *)
(* limits on how often an address may ask, and what is shown.              *)
(***************************************************************************)
EXTENDS Naturals, FiniteSets

CONSTANTS Users, Nobody,
          Late,         \* users whose window has closed; all of them may be asked for
          ReferralMaxDepth, AdminBindPerDay,
          Binders, NoBinder,    \* requests at a time
          MaxAborts     \* bound: requests that break off

VARIABLES inviter,      \* wallet_user.inviter_user_id
          source,       \* wallet_user.invite_source
          barred,       \* users who are blocked, by their tenant or by the platform
          enabled,      \* the switch in the configuration
          holder,       \* who has the lock of the tenant
          binders, quotaUsed, aborts

vars == <<inviter, source, barred, enabled, holder, binders, quotaUsed, aborts>>

-----------------------------------------------------------------------------
Idle == [step |-> "idle"]
Requests == [step : {"asking", "locked", "checked", "bound"},
             invitee : Users, by : Users, admin : BOOLEAN]

TypeOK ==
    /\ inviter \in [Users -> Users \cup {Nobody}]
    /\ source \in [Users -> {"none", "self", "admin"}]
    /\ barred \subseteq Users /\ enabled \in BOOLEAN
    /\ holder \in Binders \cup {NoBinder}
    /\ binders \in [Binders -> Requests \cup {Idle}]
    /\ quotaUsed \in 0..AdminBindPerDay /\ aborts \in 0..MaxAborts

Init ==
    /\ inviter = [u \in Users |-> Nobody] /\ source = [u \in Users |-> "none"]
    /\ barred = {} /\ enabled = TRUE
    /\ holder = NoBinder /\ binders = [b \in Binders |-> Idle]
    /\ quotaUsed = 0 /\ aborts = 0

-----------------------------------------------------------------------------
(* The quota is asked for before the lock is taken and counted after it.   *)
IsWithinQuota == quotaUsed < AdminBindPerDay

(* An administrator has less to expect when the day's quota is used up or  *)
(* the invitee is bound; either asks in vain when the switch is off.       *)
Ask(b, invitee, by, admin) ==
    /\ binders[b] = Idle
    /\ admin => IsWithinQuota /\ inviter[invitee] = Nobody
    /\ enabled
    /\ binders' = [binders EXCEPT ![b] =
           [step |-> "asking", invitee |-> invitee, by |-> by, admin |-> admin]]
    /\ UNCHANGED <<inviter, source, barred, enabled, holder, quotaUsed, aborts>>


TakeLock(b) ==
    /\ binders[b].step = "asking" /\ holder = NoBinder
    /\ holder' = b
    /\ binders' = [binders EXCEPT ![b].step = "locked"]
    /\ UNCHANGED <<inviter, source, barred, enabled, quotaUsed, aborts>>

(* After five seconds the request is told to come again.                   *)
Busy(b) ==
    /\ binders[b].step = "asking" /\ holder # NoBinder
    /\ binders' = [binders EXCEPT ![b] = Idle]
    /\ UNCHANGED <<inviter, source, barred, enabled, holder, quotaUsed, aborts>>

(* The next ones up the tree from a user, at most so many.                 *)
Ancestors(u, most) ==
    LET up[n \in 0..most] == IF n = 0 THEN u
                             ELSE IF up[n - 1] = Nobody THEN Nobody ELSE inviter[up[n - 1]]
    IN  {up[n] : n \in 1..most} \ {Nobody}
IsWithinDepth(u) == Cardinality(Ancestors(u, ReferralMaxDepth)) < ReferralMaxDepth

MayBind(req) ==
    /\ inviter[req.invitee] = Nobody
    /\ req.by # req.invitee
    /\ req.admin \/ req.invitee \notin Late
    /\ req.by \notin barred
    /\ IsWithinDepth(req.by)
    /\ req.invitee \notin Ancestors(req.by, ReferralMaxDepth)

Check(b) ==
    /\ binders[b].step = "locked" /\ MayBind(binders[b])
    /\ binders' = [binders EXCEPT ![b].step = "checked"]
    /\ UNCHANGED <<inviter, source, barred, enabled, holder, quotaUsed, aborts>>

Refuse(b) ==
    /\ binders[b].step = "locked" /\ ~MayBind(binders[b])
    /\ binders' = [binders EXCEPT ![b] = Idle]
    /\ holder' = NoBinder
    /\ UNCHANGED <<inviter, source, barred, enabled, quotaUsed, aborts>>

(* The update asks once more that nobody has been named; the lock goes     *)
(* when the request is over.                                               *)
Bind(b) ==
    LET req == binders[b] IN
    /\ req.step = "checked"
    /\ IF inviter[req.invitee] = Nobody
       THEN /\ inviter' = [inviter EXCEPT ![req.invitee] = req.by]
            /\ source' = [source EXCEPT ![req.invitee] = IF req.admin THEN "admin" ELSE "self"]
            /\ binders' = [binders EXCEPT ![b].step = "bound"]
       ELSE /\ UNCHANGED <<inviter, source>>
            /\ binders' = [binders EXCEPT ![b] = Idle]
    /\ holder' = NoBinder
    /\ UNCHANGED <<barred, enabled, quotaUsed, aborts>>

(* The quota counts what was done, after it was done.                      *)
Account(b) ==
    /\ binders[b].step = "bound"
    /\ binders' = [binders EXCEPT ![b] = Idle]
    /\ quotaUsed' = IF binders[b].admin /\ IsWithinQuota
                    THEN quotaUsed + 1 ELSE quotaUsed
    /\ UNCHANGED <<inviter, source, barred, enabled, holder, aborts>>

(* A request is cancelled, or its server dies: with the connection goes    *)
(* the lock.                                                               *)
Abort(b) ==
    /\ binders[b] # Idle
    /\ aborts < MaxAborts /\ aborts' = aborts + 1
    /\ binders' = [binders EXCEPT ![b] = Idle]
    /\ holder' = IF holder = b THEN NoBinder ELSE holder
    /\ UNCHANGED <<inviter, source, barred, enabled, quotaUsed>>

Bar(u) ==
    /\ barred' = IF u \in barred THEN barred \ {u} ELSE barred \cup {u}
    /\ UNCHANGED <<inviter, source, enabled, holder, binders, quotaUsed, aborts>>

Switch ==
    /\ enabled' = ~enabled
    /\ UNCHANGED <<inviter, source, barred, holder, binders, quotaUsed, aborts>>

Next ==
    \/ \E b \in Binders :
           \/ \E invitee, by \in Users, admin \in BOOLEAN : Ask(b, invitee, by, admin)
           \/ TakeLock(b) \/ Busy(b) \/ Check(b) \/ Refuse(b) \/ Bind(b) \/ Account(b)
           \/ Abort(b)
    \/ Switch \/ \E u \in Users : Bar(u)

Spec == Init /\ [][Next]_vars

-----------------------------------------------------------------------------
(* Nobody is above themselves: requests that cross do not close a circle.  *)
NoCircles == \A u \in Users : u \notin Ancestors(u, Cardinality(Users))

(* Who has an inviter named them in time, or had them named.               *)
InvitersWereNamed ==
    \A u \in Users :
        /\ (source[u] = "none") = (inviter[u] = Nobody)
        /\ source[u] = "self" => u \notin Late

(* A day's quota is exceeded by the requests that overlap, and no more.    *)
QuotaIsKept ==
    aborts = 0 => Cardinality({u \in Users : source[u] = "admin"})
                      < AdminBindPerDay + Cardinality(Binders)

ReferralsAreRight == NoCircles /\ InvitersWereNamed /\ QuotaIsKept

(* An inviter stays, and is somebody with room above them.                 *)
InvitersStay ==
    [][\A u \in Users : inviter'[u] # inviter[u] => inviter[u] = Nobody]_inviter
=============================================================================
