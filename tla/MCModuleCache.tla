--------------------------- MODULE MCModuleCache ---------------------------
(* Checkouts that declare the same dependency, on one machine or on two.   *)
EXTENDS ModuleCache, TLC

CONSTANTS a, b, c, here, there

Together  == (a :> here) @@ (b :> here)
TwoAndOne == (a :> here) @@ (b :> here) @@ (c :> there)
=============================================================================
