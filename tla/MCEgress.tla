------------------------------ MODULE MCEgress -------------------------------
(* Egress with a host at two addresses, one that shares the second of them,  *)
(* the tunnel's host and one that DNS does not know.                         *)
EXTENDS Egress, TLC

CONSTANTS a, b, t, u, x, y, z
MCAddrs == (a :> <<x, y>>) @@ (b :> <<y>>) @@ (t :> <<z>>) @@ (u :> <<>>)
MCTunnel == [host |-> t, port |-> 443]
At(h, n) == [host |-> h, port |-> n]
MCManifests == {<<>>, <<At(a, 80)>>, <<At(b, Unset)>>, <<At(u, 80), At(b, 80)>>}
Symmetric == Permutations(Pushes)
=============================================================================
