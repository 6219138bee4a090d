---- MODULE MCHostState ----
(* Instances of HostState for TLC. *)
EXTENDS HostState

\* Both maskable MSRs hold a bit the module does not touch.
MCHostMasks == {{"other"}}
====
