-------------------------------- MODULE Tokens --------------------------------
(***************************************************************************)
(* The catalogue of tokens of a chain.  The platform keeps rows for all    *)
(* tenants; a tenant adds rows of its own, and rows that lie over those of *)
(* the platform.  Symbol and decimals are read from the chain, never       *)
(* typed.  A catalogue has one version for all its rows: an edit names the *)
(* version that its administrator saw, reads the rows, and writes them if  *)
(* the catalogue still has that version.                                   *)
(*                                                                         *)
(* Left aside: names, colours and weights, the rules for addresses, and    *)
(* how a chain is read.                                                    *)
(***************************************************************************)
EXTENDS Naturals, FiniteSets

CONSTANTS Tokens,       \* addresses, of one chain
          Native,       \* the address that stands for the chain's own token
          Owners, Platform,     \* tenants, and the platform as tenant 0
          Precisions,   \* decimals that a contract may have
          Requests,     \* requests at a time
          MaxVersion, MaxUpgrades       \* bounds

VARIABLES rows,         \* chain_token_catalog
          versions,     \* app_configs, one row per owner
          decimals,     \* what the contracts say
          requests,
          intended,     \* the fields as they were last set by somebody
          upgrades

vars == <<rows, versions, decimals, requests, intended, upgrades>>

-----------------------------------------------------------------------------
Idle == [step |-> "idle"]
Displays == {0} \cup Precisions
NoRow == [state |-> "none"]
Rows == [state : {"live", "deleted"}, decimals : Precisions, display : Displays, enabled : BOOLEAN]
Fields(row) == [display |-> row.display, enabled |-> row.enabled]

TypeOK ==
    /\ rows \in [Owners -> [Tokens -> Rows \cup {NoRow}]]
    /\ versions \in [Owners -> 0..MaxVersion]
    /\ decimals \in [Tokens -> Precisions]
    /\ \A r \in Requests : requests[r].step \in {"idle", "listed", "ready"}
    /\ upgrades \in 0..MaxUpgrades

NativeRow == [state |-> "live", decimals |-> decimals[Native], display |-> 0, enabled |-> TRUE]

Init ==
    /\ decimals \in [Tokens -> Precisions]
    /\ rows = [o \in Owners |-> [t \in Tokens |->
                  IF o = Platform /\ t = Native THEN NativeRow ELSE NoRow]]
    /\ versions = [o \in Owners |-> 0]
    /\ requests = [r \in Requests |-> Idle]
    /\ intended = [o \in Owners |-> [t \in Tokens |->
                      IF rows[o][t] = NoRow THEN {} ELSE {Fields(rows[o][t])}]]
    /\ upgrades = 0

IsLive(o, t) == rows[o][t].state = "live"
Becomes(r, request) == requests' = [requests EXCEPT ![r] = request]

-----------------------------------------------------------------------------
(* An administrator looks at the catalogue, and later sends an edit.       *)
List(r, o) ==
    /\ requests[r] = Idle
    /\ Becomes(r, [step |-> "listed", owner |-> o, expected |-> versions[o]])
    /\ UNCHANGED <<rows, versions, decimals, intended, upgrades>>

(* What is found is remembered as the row that is to be written.           *)
Ready(r, t, row, set) ==
    /\ Becomes(r, [step |-> "ready", owner |-> requests[r].owner,
                   expected |-> requests[r].expected, token |-> t, row |-> row, set |-> set])
    /\ UNCHANGED <<rows, versions, decimals, intended, upgrades>>

(* A patch sets some fields, within what the row allows.                   *)
Patches == [display : Displays, enabled : BOOLEAN]
             \cup [display : Displays] \cup [enabled : BOOLEAN]
Patched(row, patch) ==
    [row EXCEPT !.state = "live",
                !.display = IF "display" \in DOMAIN patch THEN patch.display ELSE @,
                !.enabled = IF "enabled" \in DOMAIN patch THEN patch.enabled ELSE @]
Accepts(t, row, patch) ==
    /\ "enabled" \in DOMAIN patch /\ t = Native => patch.enabled
    /\ Patched(row, patch).display <= row.decimals

(* A tenant's row for a token of the platform starts as a copy of it; any  *)
(* other row starts with what the chain says.                              *)
Copied(t) == [rows[Platform][t] EXCEPT !.state = "live"]
Fresh(t) == [state |-> "live", decimals |-> decimals[t], display |-> 0, enabled |-> TRUE]
CreateToken(r, t, patch) ==
    LET o == requests[r].owner
        row == IF IsLive(Platform, t) THEN Copied(t) ELSE Fresh(t)
    IN  /\ requests[r].step = "listed"
        /\ t # Native /\ ~IsLive(o, t)
        /\ "display" \in DOMAIN patch /\ Accepts(t, row, patch)
        /\ Ready(r, t, Patched(row, patch), Fields(Patched(row, patch)))

(* A patch of a row that only the platform has makes one of the tenant's.  *)
PatchToken(r, t, patch) ==
    LET o == requests[r].owner
        row == IF IsLive(o, t) THEN rows[o][t] ELSE Copied(t)
    IN  /\ requests[r].step = "listed"
        /\ IsLive(o, t) \/ IsLive(Platform, t)
        /\ Accepts(t, row, patch)
        /\ Ready(r, t, Patched(row, patch),
                 IF IsLive(o, t) THEN patch ELSE Fields(Patched(row, patch)))

(* What the chain says of a token is for its owner to read again, and only *)
(* where the platform has no row.                                          *)
ResyncToken(r, t) ==
    LET o == requests[r].owner
        row == rows[o][t]
        now == decimals[t]
    IN  /\ requests[r].step = "listed"
        /\ t # Native /\ IsLive(o, t)
        /\ o # Platform => ~IsLive(Platform, t)
        /\ versions[o] = requests[r].expected
        /\ now # row.decimals
        /\ Ready(r, t, [row EXCEPT !.decimals = now,
                                   !.display = IF @ > now THEN now ELSE @],
                 IF row.display > now THEN [display |-> now] ELSE <<>>)

(* The platform's row of the native token cannot go.                       *)
DeleteToken(r, t) ==
    LET o == requests[r].owner IN
    /\ requests[r].step = "listed"
    /\ IsLive(o, t) /\ (t = Native => o # Platform)
    /\ Ready(r, t, [rows[o][t] EXCEPT !.state = "deleted"], <<>>)

(* One transaction: the version, the row, the next version.                *)
Intended(req, before) ==
    IF req.row.state = "deleted" THEN before
    ELSE {[f \in {"display", "enabled"} |-> IF f \in DOMAIN req.set THEN req.set[f] ELSE old[f]]
             : old \in IF before = {} THEN {Fields(req.row)} ELSE before}
WrittenOver(req) ==
    IF req.row.state = "deleted"
    THEN [rows[req.owner][req.token] EXCEPT !.state = "deleted"] ELSE req.row

(* Every edit of a catalogue moves its version, which one edit alone can.   *)
Bumped(o) ==
    /\ versions[o] < MaxVersion
    /\ versions' = [versions EXCEPT ![o] = @ + 1]

Transaction(r) ==
    LET req == requests[r]
        o == req.owner
        t == req.token
    IN  /\ req.step = "ready"
        /\ versions[o] = req.expected
        /\ rows' = [rows EXCEPT ![o][t] = WrittenOver(req)]
        /\ Bumped(o)
        /\ intended' = [intended EXCEPT ![o][t] = Intended(req, @)]
        /\ Becomes(r, Idle)
        /\ UNCHANGED <<decimals, upgrades>>

GiveUp(r) ==
    /\ requests[r] # Idle
    /\ Becomes(r, Idle)
    /\ UNCHANGED <<rows, versions, decimals, intended, upgrades>>

(* A contract is replaced.                                                 *)
Upgrade(t, d) ==
    /\ t # Native /\ d # decimals[t]
    /\ upgrades < MaxUpgrades /\ upgrades' = upgrades + 1
    /\ decimals' = [decimals EXCEPT ![t] = d]
    /\ UNCHANGED <<rows, versions, requests, intended>>

Next ==
    \/ \E r \in Requests :
           \/ \E o \in Owners : List(r, o)
           \/ \E t \in Tokens :
                  \/ \E patch \in Patches : CreateToken(r, t, patch) \/ PatchToken(r, t, patch)
                  \/ ResyncToken(r, t) \/ DeleteToken(r, t)
           \/ Transaction(r) \/ GiveUp(r)
    \/ \E t \in Tokens, d \in Precisions : Upgrade(t, d)

Spec == Init /\ [][Next]_vars

-----------------------------------------------------------------------------
Merged(o, t) == IF IsLive(o, t) THEN rows[o][t] ELSE rows[Platform][t]

(* Every owner's app has the native token, switched on, and shows no more  *)
(* digits than a token has.                                                *)
CatalogueCanBeDelivered ==
    \A o \in Owners :
        /\ Merged(o, Native).state = "live" /\ Merged(o, Native).enabled
        /\ \A t \in Tokens : IsLive(o, t) => rows[o][t].display <= rows[o][t].decimals

(* A field is as somebody last set it: an edit of one field does not bring *)
(* back an old value of another.                                           *)
EditsOfFieldsAreKept ==
    \A o \in Owners, t \in Tokens : IsLive(o, t) => Fields(rows[o][t]) \in intended[o][t]

TokensAreRight == CatalogueCanBeDelivered /\ EditsOfFieldsAreKept
=============================================================================
