----------------------------- MODULE MCSessions -----------------------------
(***************************************************************************)
(* Instances of Sessions for TLC.                                          *)
(***************************************************************************)
EXTENDS Sessions, TLC

CONSTANTS a1, a2, c1, c2, mandate, cancel, query

\* Two clients of one account.
SameOwner == (c1 :> a1) @@ (c2 :> a1)

\* A route with one command, and one with two.
TwoRoutes == ("account" :> {query}) @@ ("mandate" :> {mandate, cancel})
=============================================================================
