-------------------------- MODULE MCBuildPipeline --------------------------
(***************************************************************************)
(* BuildPipeline on small instances.  A behaviour stays in the scope it    *)
(* starts in, which bounds what may happen in it ("all" bounds nothing):   *)
(* the state spaces of the scopes add up.                                  *)
(***************************************************************************)
EXTENDS BuildPipeline, TLC

CONSTANTS j1, j2, j3, m1, m2, s1, s2, x1, x2, c1, c2, r1, r2, Scopes

VARIABLE scope

OnePackage == [j \in {j1} |-> "apk"]
TwoPackages == [j \in {j1, j2} |-> "apk"]
PackagesAndOTA == j1 :> "apk" @@ j2 :> "apk" @@ j3 :> "ota"
PackageAndOTA == j1 :> "apk" @@ j2 :> "ota"

NumberOne == [j \in {j1} |-> 1]
Rising == j1 :> 1 @@ j2 :> 3
RisingAndSame == j1 :> 1 @@ j2 :> 3 @@ j3 :> 1
Same == j1 :> 1 @@ j2 :> 1

ContentSymmetry == Permutations(Contents)
CallSymmetry == Permutations(Calls)
MachineSymmetry == Permutations(Builders) \cup Permutations(Reapers)
DeliverySymmetry == ContentSymmetry \cup CallSymmetry
SequenceSymmetry == CallSymmetry \cup MachineSymmetry

(* No other job is ever asked for.                                         *)
Only(jobs) ==
    /\ \A j \in Jobs \ jobs : rows[j].status = "absent"
    /\ \A c \in DOMAIN calls : calls[c].op = "create" => calls[c].job \in jobs

(* Two packages and a release uploaded by hand compete for the sequence.   *)
Sequence == INSTANCE BuildPipeline
    WITH Builders <- {m1}, Reapers <- {}, Certificates <- {1}, Administered <- {},
         MaxBuildAttempts <- 1, MaxSignAttempts <- 1

(* One package, while signers are promoted and revoked and the identity    *)
(* changes.                                                                *)
Registry == INSTANCE BuildPipeline
    WITH Builders <- {m1}, Reapers <- {}, ManualBuilds <- {}, MaxBuildAttempts <- 1

(* One package, both files of which are uploaded twice each.               *)
Pair == INSTANCE BuildPipeline
    WITH BuildFiles <- {"unsigned", "sbom"}, Contents <- {x1, x2}, Builders <- {m1},
         Certificates <- {1}, Administered <- {}, ManualBuilds <- {}, Reapers <- {},
         MaxBuildAttempts <- 2, MaxSignAttempts <- 0, MaxUploads <- 3

(* Two machines, a package and an OTA payload: claims, retries, the reaper *)
(* and the administrator.                                                  *)
TwoMachines == INSTANCE BuildPipeline
    WITH Signers <- {s1}, Calls <- {c1}, Certificates <- {1}, Administered <- {},
         ManualBuilds <- {}, MaxUploads <- 1

ScopedInit ==
    /\ scope \in Scopes
    /\ CASE scope = "pair" -> Pair!Init /\ primary = {s1}
         [] scope = "machines" -> TwoMachines!Init
         [] scope = "sequence" -> Init /\ primary = {s1} /\ identity = 1
         [] OTHER -> Init

ScopedNext ==
    /\ \/ scope = "all" /\ Next
       \/ scope = "sequence" /\ Sequence!Next /\ Only({j1, j2})'
       \/ scope = "registry" /\ Registry!Next /\ Only({j1})'
       \/ scope = "pair" /\ Pair!Next /\ Only({j1})'
       \/ scope = "machines" /\ TwoMachines!Next /\ Only({j1, j3})'
    /\ UNCHANGED scope

ScopedSpec == ScopedInit /\ [][ScopedNext]_<<vars, scope>>
=============================================================================
