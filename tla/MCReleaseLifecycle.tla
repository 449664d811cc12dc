--------------------------- MODULE MCReleaseLifecycle ---------------------------
(***************************************************************************)
(* ReleaseLifecycle on small instances.  A behaviour stays in the scope it *)
(* starts in, which bounds what may happen in it: the state spaces of the  *)
(* scopes add up.                                                          *)
(***************************************************************************)
EXTENDS ReleaseLifecycle, TLC

CONSTANTS r1, r2, Scopes

VARIABLE scope

(* Up to two releases, each with its own runtime version (runtimeVersion   *)
(* is the app version), built one after the other.                         *)
MCBuild == r1 :> 1 @@ r2 :> 2
MCRuntime == r1 :> "1.0.0" @@ r2 :> "1.1.0"
Symmetry == Permutations(Otas) \cup Permutations(Admins)

AtMost(n, S) == Cardinality(S) <= n
Saved == {o \in Otas : ota[o] # NoOta}

ScopedInit == scope \in Scopes /\ Init

(* "serving": two releases, an update, requests that overlap;              *)
(* "updates": one release, three updates, requests that overlap;           *)
(* "alone": two releases, two updates, one request at a time.              *)
ScopedNext ==
    /\ \/ scope = "serving" /\ Next /\ AtMost(1, Saved)'
       \/ scope = "updates" /\ Next /\ (rel[r2] = NoRow /\ r2 \notin objects)'
       \/ scope = "alone" /\ Next /\ AtMost(2, Saved)' /\ OneByOne
    /\ UNCHANGED scope

ScopedSpec == ScopedInit /\ [][ScopedNext]_<<vars, scope>>

(* SerialRequestsAreSafe, of the behaviours in which requests do not overlap. *)
UndisturbedRequestsAreSafe == [][scope = "alone" => SafeStep]_vars
=============================================================================
