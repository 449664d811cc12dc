----------------------------- MODULE Localization -----------------------------
(***************************************************************************)
(* The texts of a tenant's app, for one key.  Administrators edit texts    *)
(* and the settings of the languages, and publish: every language is       *)
(* compiled into an object, which a phone is then served.  One row of      *)
(* configuration holds the settings, what is published and which languages *)
(* have been edited since; whoever writes it replaces all of it, if its    *)
(* version is still the one they read.  The texts have no version: they    *)
(* are written in the same transaction as the row.                         *)
(*                                                                         *)
(* Left aside: how languages are called and ordered, the rules for codes   *)
(* and keys, and that the platform edits its own texts.                    *)
(***************************************************************************)
EXTENDS Naturals, FiniteSets

CONSTANTS Languages,
          Texts, NoText,
          GlobalText,       \* texts of the platform: the fallback's, at least
          Requests,         \* requests at a time
          MaxVersion, MaxPublishes,     \* bounds
          SameSecond        \* whether two publications may begin in one second

VARIABLES config,       \* the row of app_configs
          texts,        \* language_document: the tenant's rows
          objects,      \* the bucket
          requests,
          settings,     \* what was last saved as settings
          publishes, clock

vars == <<config, texts, objects, requests, settings, publishes, clock>>

-----------------------------------------------------------------------------
Idle == [step |-> "idle"]
NoResource == [second |-> 0, text |-> NoText, number |-> 0]
AnyText == Texts \cup {NoText} \cup {GlobalText[l] : l \in Languages}
Resources == [second : 0..MaxPublishes, text : AnyText, number : 0..MaxPublishes]
Settings == [enabled : SUBSET Languages, fallback : Languages]
Names == Languages \X (1..MaxPublishes)

TypeOK ==
    /\ config \in [version : 0..MaxVersion, settings : Settings, dirty : SUBSET Languages,
                   failed : SUBSET Languages, resources : [Languages -> Resources]]
    /\ texts \in [Languages -> [text : AnyText, deleted : BOOLEAN]]
    /\ objects \in [Names -> Resources]
    /\ settings \in Settings
    /\ publishes \in 0..MaxPublishes /\ clock \in 1..MaxPublishes
    /\ \A r \in Requests :
           requests[r].step \in {"idle", "settings", "texts", "publish", "failing", "again"}

Init ==
    /\ \E f \in {l \in Languages : GlobalText[l] # NoText} :
           settings = [enabled |-> Languages, fallback |-> f]
    /\ config = [version |-> 0, settings |-> settings, dirty |-> {}, failed |-> {},
                 resources |-> [l \in Languages |-> NoResource]]
    /\ texts = [l \in Languages |-> [text |-> NoText, deleted |-> FALSE]]
    /\ objects = [n \in Names |-> NoResource]
    /\ requests = [r \in Requests |-> Idle]
    /\ publishes = 0 /\ clock = 1

Becomes(r, request) == requests' = [requests EXCEPT ![r] = request]
Step(r, step) == requests[r].step = step

(* A whole row is written over the one that was read, or nothing is.       *)
Writes(row) ==
    /\ config.version < MaxVersion
    /\ config' = [row EXCEPT !.version = @ + 1]
IsFresh_Once(row) == config.version <= row.version + 1

IsFresh(row) == config.version = row.version

-----------------------------------------------------------------------------
BeginSettings(r, wanted) ==
    /\ requests[r] = Idle
    /\ wanted.fallback \in wanted.enabled
    /\ Becomes(r, [step |-> "settings", row |-> config, wanted |-> wanted])
    /\ UNCHANGED <<config, texts, objects, settings, publishes, clock>>

UpdateLanguages(r) ==
    LET req == requests[r] IN
    /\ Step(r, "settings") /\ IsFresh(req.row)
    /\ Writes([req.row EXCEPT !.settings = req.wanted])
    /\ settings' = req.wanted
    /\ Becomes(r, Idle)
    /\ UNCHANGED <<texts, objects, publishes, clock>>

-----------------------------------------------------------------------------
(* An edit sets a text, takes it away, or disables the key in all          *)
(* languages or enables it.  It remembers the texts that it has seen.      *)
OrElse(text, other) == IF text # NoText THEN text ELSE other
Shown(l) == OrElse(texts[l].text, GlobalText[l])
Edits == [kind : {"set"}, language : Languages, text : Texts]
             \cup [kind : {"unset"}, language : Languages]
             \cup [kind : {"disable", "enable"}]

BeginTexts(r, edit) ==
    /\ requests[r] = Idle
    /\ Becomes(r, [step |-> "texts", row |-> config, edit |-> edit,
                   seen |-> [l \in Languages |-> Shown(l)]])
    /\ UNCHANGED <<config, texts, objects, settings, publishes, clock>>

Touched(edit) == IF edit.kind \in {"set", "unset"} THEN {edit.language} ELSE Languages
Edited(l, req) ==
    CASE req.edit.kind = "set" -> [text |-> req.edit.text, deleted |-> FALSE]
      [] req.edit.kind = "unset" -> [text |-> NoText, deleted |-> FALSE]
      [] req.edit.kind = "enable" -> [texts[l] EXCEPT !.deleted = FALSE]
      [] req.edit.kind = "disable" ->
             [text |-> OrElse(req.seen[l], req.seen[req.row.settings.fallback]), deleted |-> TRUE]

UpdateDocuments(r) ==
    LET req == requests[r] IN
    /\ Step(r, "texts") /\ IsFresh(req.row)
    /\ texts' = [l \in Languages |-> IF l \in Touched(req.edit) THEN Edited(l, req) ELSE texts[l]]
    /\ Writes([req.row EXCEPT !.dirty = @ \cup Touched(req.edit),
                              !.failed = @ \ Touched(req.edit)])
    /\ Becomes(r, Idle)
    /\ UNCHANGED <<objects, settings, publishes, clock>>

-----------------------------------------------------------------------------
(* What a language shows: nothing for a key that is disabled in any.       *)
Compiled(l, fallback) ==
    IF \E k \in Languages : texts[k].deleted THEN NoText
    ELSE OrElse(Shown(l), Shown(fallback))

(* A publication is named for the second in which it begins.               *)
BeginPublish(r, selected) ==
    /\ requests[r] = Idle
    /\ publishes < MaxPublishes /\ publishes' = publishes + 1
    /\ selected # {} /\ selected \subseteq config.settings.enabled
    /\ Becomes(r, [step |-> "publish", row |-> config, selected |-> selected, todo |-> selected,
                   made |-> config.resources, second |-> clock, number |-> publishes'])
    /\ clock' \in {clock} \cup (IF clock < MaxPublishes THEN {clock + 1} ELSE {})
    /\ clock' = clock => SameSecond \/ publishes' = MaxPublishes
    /\ UNCHANGED <<config, texts, objects, settings>>

Upload(r, l) ==
    LET req == requests[r]
        resource == [second |-> req.second, number |-> req.number,
                     text |-> Compiled(l, req.row.settings.fallback)]
    IN  /\ Step(r, "publish") /\ l \in req.todo
        /\ objects' = [objects EXCEPT ![<<l, req.second>>] = resource]
        /\ Becomes(r, [req EXCEPT !.todo = @ \ {l}, !.made[l] = resource])
        /\ UNCHANGED <<config, texts, settings, publishes, clock>>

SavePublished(r) ==
    LET req == requests[r] IN
    /\ Step(r, "publish") /\ req.todo = {} /\ IsFresh(req.row)
    /\ Writes([req.row EXCEPT !.resources = req.made, !.dirty = @ \ req.selected,
                              !.failed = @ \ req.selected])
    /\ Becomes(r, Idle)
    /\ UNCHANGED <<texts, objects, settings, publishes, clock>>

(* A language that cannot be compiled or uploaded ends the publication and *)
(* is marked, in the row as it was read first or, if that is no longer     *)
(* it, in the row as it is read again.                                     *)
UploadFails(r, l) ==
    LET req == requests[r] IN
    /\ Step(r, "publish") /\ l \in req.todo
    /\ Becomes(r, [step |-> "failing", language |-> l, row |-> req.row])
    /\ UNCHANGED <<config, texts, objects, settings, publishes, clock>>

Marked(req) == [req.row EXCEPT !.dirty = @ \cup {req.language}, !.failed = @ \cup {req.language}]
MarkFailure(r) ==
    /\ requests[r].step \in {"failing", "again"} /\ IsFresh(requests[r].row)
    /\ Writes(Marked(requests[r]))
    /\ Becomes(r, Idle)
    /\ UNCHANGED <<texts, objects, settings, publishes, clock>>
ReadAgain(r) ==
    /\ Step(r, "failing") /\ ~IsFresh(requests[r].row)
    /\ Becomes(r, [requests[r] EXCEPT !.step = "again", !.row = config])
    /\ UNCHANGED <<config, texts, objects, settings, publishes, clock>>

(* A request is refused since the row has changed; or its server dies.     *)
GiveUp(r) ==
    /\ requests[r] # Idle
    /\ Becomes(r, Idle)
    /\ UNCHANGED <<config, texts, objects, settings, publishes, clock>>

Next ==
    \E r \in Requests :
        \/ \E wanted \in Settings : BeginSettings(r, wanted)
        \/ \E edit \in Edits : BeginTexts(r, edit)
        \/ \E selected \in SUBSET Languages : BeginPublish(r, selected)
        \/ UpdateLanguages(r) \/ UpdateDocuments(r)
        \/ \E l \in Languages : Upload(r, l) \/ UploadFails(r, l)
        \/ SavePublished(r) \/ MarkFailure(r) \/ ReadAgain(r) \/ GiveUp(r)

Spec == Init /\ [][Next]_vars

-----------------------------------------------------------------------------
Published(l) == config.resources[l].number > 0

(* A phone is served the very object whose hash the row names.             *)
ObjectsAreThoseNamed ==
    \A l \in Languages : Published(l) =>
        objects[<<l, config.resources[l].second>>] = config.resources[l]

(* A language that counts as published shows the text it has of its own,   *)
(* however edits and publications overlap.                                 *)
CleanLanguagesAreCurrent ==
    \A l \in Languages : Published(l) /\ l \notin config.dirty =>
        config.resources[l].text =
            IF \E k \in Languages : texts[k].deleted THEN NoText
            ELSE OrElse(Shown(l), config.resources[l].text)

(* Nobody takes back settings that somebody else has saved.                *)
SettingsAreKept == config.settings = settings

(* What has failed has to be published again.                              *)
FailedIsDirty == config.failed \subseteq config.dirty

TextsAreRight ==
    ObjectsAreThoseNamed /\ CleanLanguagesAreCurrent /\ SettingsAreKept /\ FailedIsDirty
=============================================================================
