------------------------- MODULE MCDeviceRegistration -------------------------
(* Small instances of DeviceRegistration for TLC.                            *)
EXTENDS DeviceRegistration, TLC

\* Users, installations, calls and key pairs are interchangeable.
Symmetry == Permutations(Actor) \cup Permutations(Installation)
            \cup Permutations(Call) \cup Permutations(Key)
================================================================================
