-------------------------- MODULE MCUpstreamConfig --------------------------
(***************************************************************************)
(* Configuration files with one upstream of each type, and one with three  *)
(* upstreams of which one has an unknown type.                             *)
(***************************************************************************)
EXTENDS UpstreamConfig

CONSTANTS a, b, u1, u2

MCAddresses == {a, b}
MCNames     == {u1, u2}
MCMaxFails  == a :> 1 @@ b :> 2
MCPolicies  == 1..3
MCEndpoints == 1..5

S(address, weight) == [address |-> address, weight |-> weight]
U(name, type, try_another, ss) ==
  [name |-> name, type |-> type, try_another |-> try_another, servers |-> ss]

MCConfigs == {
  <<U(u1, "weighted_random", TRUE, <<S(a, 1), S(b, 2)>>)>>,
  <<U(u1, "consistent_hash", FALSE, <<S(a, 1), S(b, 1)>>)>>,
  <<U(u1, "vnswrr", FALSE, <<S(a, 1), S(b, 1)>>)>>,
  <<U(u2, "round_robin", FALSE, <<>>), U(u2, "consistent_hash", FALSE, <<S(b, 1)>>),
    U(u1, "weighted_random", FALSE, <<S(a, 0)>>)>>}

\* The tasks are interchangeable.
TaskSymmetry == Permutations(Tasks)

MCAppServers == <<S(a, 2)>>
=============================================================================
