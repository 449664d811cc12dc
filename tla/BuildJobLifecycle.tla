------------------------- MODULE BuildJobLifecycle -------------------------
(***************************************************************************)
(* The state machine of a build job as build_job_states.go declares it: a  *)
(* table of edges, each with the event that fires it, the kinds of job it  *)
(* is for, the statuses it may start from and those it may end in.  This   *)
(* is what the server promises of a job whatever its handlers do; the      *)
(* modules BuildPipeline and IosQueue, which have the handlers, are shown  *)
(* to implement it.                                                        *)
(***************************************************************************)
CONSTANTS
    Jobs,       \* the build jobs that may ever be queued
    KindOf      \* the kind of each job

(* The kind column knows "apk" and "ota".  An installable package for iOS  *)
(* is a job of kind "apk" too; its handlers tell it apart by its platform, *)
(* and here it is a kind of its own, "ipa".                                *)
Packages == {"apk", "ipa"}
Kinds == Packages \cup {"ota"}

VARIABLE status \* the status column of each job; "absent": no such row yet

InFlightStatuses == {"queued", "claimed", "running", "built", "signing"}
TerminalStatuses == {"succeeded", "failed", "canceled"}
Statuses == InFlightStatuses \cup TerminalStatuses \cup {"absent"}

BuilderActiveStatuses == {"claimed", "running"}

Edge(event, kinds, from, to) ==
    [event |-> event, kinds |-> kinds, from |-> from, to |-> to]

(* The edges that change a status; those that only require one (an upload, *)
(* a download, a signer's heartbeat) are stutters here.                    *)
Edges == {
    Edge("builder.claim",           Kinds,   {"queued"},            {"claimed"}),
    Edge("builder.heartbeat",       Kinds,   BuilderActiveStatuses, {"running"}),
    Edge("builder.fail",            Kinds,   BuilderActiveStatuses, {"failed"}),
    Edge("builder.built",           {"apk"}, BuilderActiveStatuses, {"built"}),
    Edge("builder.complete",        {"ota"}, BuilderActiveStatuses, {"succeeded"}),
    Edge("builder.ios-release",     {"ipa"}, BuilderActiveStatuses, {"succeeded"}),
    Edge("server.dispatch-fail",    Kinds,   {"claimed"},           {"failed"}),
    Edge("reaper.build-timeout",    Packages,BuilderActiveStatuses, {"queued", "failed"}),
    Edge("reaper.build-timeout",    {"ota"}, BuilderActiveStatuses, {"failed"}),
    Edge("admin.cancel",            Kinds,   BuilderActiveStatuses \cup {"queued"},
                                                                    {"canceled"}),
    Edge("admin.cancel",            {"apk"}, {"built"},             {"canceled"}),
    Edge("admin.force-fail",        {"apk"}, {"signing"},           {"failed"}),
    Edge("signer.claim",            {"apk"}, {"built"},             {"signing"}),
    Edge("signer.release",          {"apk"}, {"signing"},           {"built"}),
    Edge("signer.reject-violation", {"apk"}, {"signing"},           {"failed"}),
    Edge("signer.reject-transient", {"apk"}, {"signing"},           {"built", "failed"}),
    Edge("signer.complete",         {"apk"}, {"signing"},           {"succeeded"}),
    Edge("reaper.sign-timeout",     {"apk"}, {"signing"},           {"built", "failed"}),
    Edge("server.sign-overtaken",   {"apk"}, {"built"},             {"failed"}) }

----------------------------------------------------------------------------
Init == status = [j \in Jobs |-> "absent"]

Queue(j) ==
    /\ status[j] = "absent"
    /\ status' = [status EXCEPT ![j] = "queued"]

Fire(j, e) ==
    /\ KindOf[j] \in e.kinds
    /\ status[j] \in e.from
    /\ \E s \in e.to : status' = [status EXCEPT ![j] = s]

(* A claim that finds it cannot dispatch the job it took commits two edges *)
(* in one transaction: builder.claim and then server.dispatch-fail.        *)
Refuse(j) ==
    /\ status[j] = "queued"
    /\ status' = [status EXCEPT ![j] = "failed"]

(* An edge from a status to itself, such as a heartbeat, is a stutter.     *)
Next ==
    \E j \in Jobs :
        /\ status'[j] # status[j]
        /\ Queue(j) \/ Refuse(j) \/ \E e \in Edges : Fire(j, e)

Spec == Init /\ [][Next]_status
=============================================================================
