----------------------------- MODULE MCLiveView -----------------------------
(* Instances of LiveView for TLC. *)
EXTENDS LiveView

CONSTANTS a, b

TwoConvs == {a, b}

AllFaults == {"disconnect", "post", "redis"}
=============================================================================
