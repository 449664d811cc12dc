-------------------------- MODULE MCSigningGates --------------------------
(***************************************************************************)
(* SigningGates on small instances.  A behaviour stays in the scope it     *)
(* starts in, which bounds what may happen in it: the state spaces of the  *)
(* scopes add up, where the instance that allows everything at once would  *)
(* multiply them.                                                          *)
(***************************************************************************)
EXTENDS SigningGates, TLC

CONSTANTS j1, j2, j3, g1, g2, x1, x2, Scopes

VARIABLE scope

One == [j \in {j1} |-> 1]
OneTwice == j1 :> 1 @@ j2 :> 1
OneTwiceAndTwo == j1 :> 1 @@ j2 :> 1 @@ j3 :> 2
Anything == {"transient", "violation", "deferred"}
Passing == {"transient", "deferred"}
GateAndInputSymmetry == Permutations(Gates) \cup Permutations(Inputs)

Unbuilt(j) == server[j] = NewJob
Untouched(g) == log[g] = [j \in Jobs |-> NoEntry] /\ run[g] = Down /\ role[g] = "standby"

(* One gate and two jobs of one number, under every kind of trouble.       *)
Alone ==
    /\ \A g, h \in Gates : Untouched(g) \/ Untouched(h) \/ g = h
    /\ Unbuilt(j3)

(* Two gates and two jobs of rising numbers.                               *)
Rising == INSTANCE SigningGates WITH FailureKinds <- {}, MaxFaults <- 1, MaxPackages <- 2
Known == {server[j].input : j \in {j \in Jobs : ~Unbuilt(j)}} \cup
    {log[g][j].input : <<g, j>> \in {<<g, j>> \in Gates \X Jobs : log[g][j] # NoEntry}}
OneInput == Cardinality(Known) <= 1

ScopedInit == scope \in Scopes /\ Init

ScopedNext ==
    /\ \/ scope = "all" /\ Next
       \/ scope = "alone" /\ Next /\ Alone'
       \/ scope = "rising" /\ Rising!Next /\ Unbuilt(j2)' /\ OneInput'
    /\ UNCHANGED scope

ScopedSpec == ScopedInit /\ [][ScopedNext]_<<vars, scope>>
=============================================================================
