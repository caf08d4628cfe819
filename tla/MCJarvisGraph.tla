---------------------------- MODULE MCJarvisGraph ----------------------------
(* Small instances of JarvisGraph for TLC: plans of "open" and "write", where *)
(* "write" needs "open", under a ruling that asks and one that allows.        *)
EXTENDS JarvisGraph

MCNeeds == [a \in Action |-> IF a = "write" THEN {"open"} ELSE {}]

\* strict: everything is asked; usual: writing is asked; free: nothing is;
\* closed: writing is denied.
MCRule ==
    [r \in Ruling |-> [a \in Action |->
        CASE r = "strict" \/ (r = "usual" /\ a = "write") -> "ask"
          [] r = "closed" /\ a = "write" -> "deny"
          [] OTHER -> "allow"]]
================================================================================
