---------------------------- MODULE MCServerManager ----------------------------
(* Instances of ServerManager for TLC: three executors the cluster may have,   *)
(* two of them present at construction, placed one per host or sharing a host. *)
EXTENDS ServerManager, TLC

CONSTANTS e1, e2, e3, h1, h2, h3

\* One executor per host, which is called by the executor's name; those present at
\* construction are then interchangeable.
OnePerHost == [e \in Executor |-> e]
Interchangeable == Permutations({e1, e2})

TwoHosts == (e1 :> h1) @@ (e2 :> h2)
SharedHost == (e1 :> h1) @@ (e2 :> h1) @@ (e3 :> h2)
=============================================================================
