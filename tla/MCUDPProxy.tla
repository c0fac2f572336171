----------------------------- MODULE MCUDPProxy -----------------------------
(* Small instances of UDPProxy: k1 and k2 come from one client. *)
EXTENDS UDPProxy, TLC

CONSTANTS k1, k2, k3

OneClient == k1 :> "a" @@ k2 :> "a"
TwoClients == k1 :> "a" @@ k2 :> "a" @@ k3 :> "b"

\* Sound with OneClient only: k1 and k2 differ in nothing.
Sym == Permutations({k1, k2})
=============================================================================
