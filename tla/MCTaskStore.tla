----------------------------- MODULE MCTaskStore -----------------------------
(* Small instances of TaskStore for TLC.                                     *)
EXTENDS TaskStore, TLC

\* Requests, hashes and digests are interchangeable; so are tasks and approvals.
Symmetry ==
    Permutations(Task) \cup Permutations(Approval) \cup Permutations(Request)
      \cup Permutations(Hash) \cup Permutations(Digest)
      \cup Permutations(Principal) \cup Permutations(Key)
================================================================================
