----------------------------- MODULE MCKubelet -----------------------------
(* Two pods: one with a volume and a container that the spec may drop,     *)
(* restarted when it exits, and one without either.                        *)
EXTENDS Kubelet, TLC

MCSpecs == 1 :> {{"a"}, {}} @@ 2 :> {{}}
MCCalls == 1 :> 4 @@ 2 :> 1
MCFaults == 1 :> 1 @@ 2 :> 0

=============================================================================
