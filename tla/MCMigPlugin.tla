------------------------------- MODULE MCMigPlugin -------------------------------
(* Instances of MigPlugin for TLC.                                              *)
(*                                                                              *)
(* Hosts: eleven GPUs, so that the line of GPU 10 begins like the one of GPU 1. *)
(* GPUs 0, 1 and 10 are split in every way, the others are whole; all of them   *)
(* are present, or only 1 and 10.                                               *)
(*                                                                              *)
(* The line of GPU 0's second instance is not of the form the pattern asks for. *)
(*                                                                              *)
(* Containers: of applications with and without a setting of their own, with    *)
(* and without docker.                                                          *)
EXTENDS MigPlugin, TLC

CONSTANTS c1, c2, c3

Ends == {0, 1, 10}
ElevenGpus ==
  {<<[g \in Gpu |-> IF g \in Ends THEN split[g] ELSE NotSplit], p>> :
     split \in [Ends -> {NotSplit} \cup 0 .. MaxInstances], p \in {Gpu, {1, 10}}}

SecondOfGpu0 == {<<0, 1>>}

Settings == (c1 :> "unset") @@ (c2 :> "true") @@ (c3 :> "false")
Counts == (c1 :> 2) @@ (c2 :> 2) @@ (c3 :> 1)
InDocker == {c1, c3}
=============================================================================
