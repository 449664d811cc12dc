---------------------------- MODULE MCDiagnostics ----------------------------
(***************************************************************************)
(* DiagnosticReports on a small instance in which two uploads of one log   *)
(* overlap.                                                                *)
(***************************************************************************)
EXTENDS DiagnosticReports

CONSTANTS a, p1, p2

OneLog == {<<"fine">>}
NoLimits == [hour |-> 9, day |-> 9, auto |-> 9, tenant |-> 9, bytes |-> 9]
=============================================================================
