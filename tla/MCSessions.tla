----------------------------- MODULE MCSessions -----------------------------
(* Sessions for TLC: two streaming types, a crash or an exit, and a restart. *)
EXTENDS Sessions

MCStreamingTypes == <<"perfmon", "alerts">>
=============================================================================
