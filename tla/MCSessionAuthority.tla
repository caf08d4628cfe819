-------------------------- MODULE MCSessionAuthority --------------------------
(* Small instances of SessionAuthority for TLC.                              *)
EXTENDS SessionAuthority, TLC

\* Ids are interchangeable, and so are calls that run the same code.
Symmetry == Permutations(Device) \cup Permutations(Challenge) \cup Permutations(Login)
            \cup Permutations(Request) \cup Permutations(Nonce)
================================================================================
