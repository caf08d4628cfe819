--------------------------- MODULE DeviceRegistration --------------------------
(***************************************************************************)
(* How an installation gets its device identity: registerDeviceIdentity of *)
(* security/device_identity.py over a key store and a registry.            *)
(*                                                                         *)
(* A call looks the installation up; if it is unknown the call opens or    *)
(* creates the user's key, offers an identity to the registry and checks   *)
(* what the registry answers.  A call that fails after it created the key  *)
(* deletes it again.  The registry is awaited and the key store belongs to *)
(* the user, not to the process, so every operation of either is a step of *)
(* its own and other calls come in between.  The registry may raise before *)
(* or after it has stored the identity, a deletion may fail, and a call    *)
(* may be cancelled or lose its process at any step.                       *)
(*                                                                         *)
(* A public key stands for itself, its encoding and the device id, which   *)
(* is a hash of it.  Calls refused before they reach a store (identifier,  *)
(* consent, no interactive user) change nothing and are left out.          *)
(***************************************************************************)
CONSTANTS
    Actor,         \* operating-system users
    Installation,  \* canonical installation ids
    Call,          \* calls of registerDeviceIdentity, in any number of processes
    Key,           \* key pairs a key store may generate: each is drawn once
    None

Conflict == "device_identity_conflict"
Failed == "device_registration_failed"

ASSUME NoneAssumption == None \notin Key \cup Actor \cup {Conflict}

VARIABLES
    keystore,  \* the key under the reference of <<actor, installation>>
    drawn,     \* the key pairs generated so far
    registry,  \* _by_installation: the identity of each installation, or NoIdentity
    call       \* the locals of each call

vars == <<keystore, drawn, registry, call>>

Identity == [actor : Actor, key : Key]

NoIdentity == [actor |-> None, key |-> None]

Idle == [stage |-> "idle", actor |-> None, installation |-> None, key |-> None,
         created |-> FALSE, answer |-> NoIdentity, stored |-> FALSE,
         code |-> None]

Reference(c) == <<call[c].actor, call[c].installation>>

Candidate(c) == [actor |-> call[c].actor, key |-> call[c].key]

At(c, stage) == call[c].stage = stage

Goes(c, stage) == call' = [call EXCEPT ![c].stage = stage]

\* The call ends, or goes to its clean-up, with DeviceRegistrationError(code).
Fails(c, stage, code) ==
    call' = [call EXCEPT ![c].stage = stage, ![c].code = code]

--------------------------------------------------------------------------------
(* registerDeviceIdentity                                                     *)

Begin(c, a, i) ==
    /\ At(c, "idle")
    /\ call' = [call EXCEPT ![c] =
           [Idle EXCEPT !.stage = "looking", !.actor = a, !.installation = i]]
    /\ UNCHANGED <<keystore, drawn, registry>>

\* get_by_installation answers; the call goes on with the answer later.
LookUp(c) ==
    /\ At(c, "looking")
    /\ call' = [call EXCEPT ![c].stage = "looked",
                            ![c].answer = registry[call[c].installation]]
    /\ UNCHANGED <<keystore, drawn, registry>>

LookUpFails(c) ==
    /\ At(c, "looking")
    /\ Fails(c, "failed", "device_registry_unavailable")
    /\ UNCHANGED <<keystore, drawn, registry>>

\* What _validate_existing holds against the registered identity.
ExistingFault(c) ==
    IF call[c].answer.actor # call[c].actor THEN Conflict
    ELSE IF keystore[Reference(c)] = None THEN "device_key_unavailable"
    ELSE IF keystore[Reference(c)] # call[c].answer.key THEN "device_key_mismatch"
    ELSE None

ReturnExisting(c) ==
    /\ At(c, "looked")
    /\ call[c].answer # NoIdentity
    /\ IF ExistingFault(c) = None THEN Goes(c, "returned")
                                  ELSE Fails(c, "failed", ExistingFault(c))
    /\ UNCHANGED <<keystore, drawn, registry>>

\* get_or_create opens the key under the reference, or generates one; public key
\* or clock may then be refused.
GetOrCreate(c, k, next) ==
    LET here == keystore[Reference(c)]
    IN  /\ At(c, "looked")
        /\ call[c].answer = NoIdentity
        /\ IF here = None THEN k \notin drawn ELSE k = here
        /\ keystore' = [keystore EXCEPT ![Reference(c)] = k]
        /\ drawn' = drawn \cup {k}
        /\ call' = [call EXCEPT
               ![c].stage = next, ![c].key = k, ![c].created = (here = None),
               ![c].code = IF next = "failing" THEN Failed ELSE None]
        /\ UNCHANGED registry

\* The key store raises; a key it was generating is not kept.
KeyFails(c) ==
    /\ At(c, "looked")
    /\ call[c].answer = NoIdentity
    /\ Fails(c, "failed", Failed)
    /\ UNCHANGED <<keystore, drawn, registry>>

--------------------------------------------------------------------------------
(* DeviceIdentityRegistry                                                     *)

\* Mutant: the registry overwrites what it has.
Accepted_Overwritten(c) ==
    \A i \in Installation \ {call[c].installation} :
        registry[i].key # call[c].key

\* The installation is free and no other one owns the device.
Accepted(c) ==
    /\ registry[call[c].installation] = NoIdentity
    /\ \A i \in Installation : registry[i].key # call[c].key

\* register_or_get stores the candidate, or returns the identity it has.
Register(c) ==
    /\ At(c, "registering")
    /\ registry' = IF Accepted(c)
                   THEN [registry EXCEPT ![call[c].installation] = Candidate(c)]
                   ELSE registry
    /\ call' = [call EXCEPT ![c].stage = "answered",
                            ![c].answer = registry'[call[c].installation],
                            ![c].stored = Accepted(c)]
    /\ UNCHANGED <<keystore, drawn>>

\* It raises before it stores, or the answer to a store is lost.
RegisterFails(c) ==
    /\ At(c, "registering")
    /\ Fails(c, "failing", Failed)
    /\ \/ UNCHANGED registry
       \/ /\ Accepted(c)
          /\ registry' = [registry EXCEPT ![call[c].installation] = Candidate(c)]
    /\ UNCHANGED <<keystore, drawn>>

\* Mutant: what the registry answers is returned unchecked.
Confirmed_Unchecked(c) == call[c].answer # NoIdentity

Confirmed(c) == call[c].answer = Candidate(c)

Finish(c) ==
    /\ At(c, "answered")
    /\ IF Confirmed(c) THEN Goes(c, "returned") ELSE Fails(c, "failing", Conflict)
    /\ UNCHANGED <<keystore, drawn, registry>>

--------------------------------------------------------------------------------
(* A failure after the key store was reached                                  *)

\* Mutant: the key is deleted whoever created it.
Undoes_Always(c) == TRUE

\* Mutant: only the handler of unexpected exceptions cleans up.
Undoes_NotOnConflict(c) == call[c].created /\ call[c].code # Conflict

Undoes(c) == call[c].created

\* _delete_quietly: what is under the reference goes, or stays without a word.
CleanUp(c) ==
    /\ At(c, "failing")
    /\ \/ /\ Undoes(c)
          /\ keystore' = [keystore EXCEPT ![Reference(c)] = None]
          /\ Goes(c, "failed")
       \/ /\ Undoes(c)
          /\ Goes(c, "littered")
          /\ UNCHANGED keystore
       \/ /\ ~Undoes(c)
          /\ Goes(c, "failed")
          /\ UNCHANGED keystore
    /\ UNCHANGED <<drawn, registry>>

UnderWay == {"looking", "looked", "registering", "answered", "failing"}

\* The call is cancelled, which no handler catches, or its process ends.
Vanish(c) ==
    /\ call[c].stage \in UnderWay
    /\ Goes(c, "gone")
    /\ UNCHANGED <<keystore, drawn, registry>>

--------------------------------------------------------------------------------
Init ==
    /\ keystore = [r \in Actor \X Installation |-> None]
    /\ drawn = {}
    /\ registry = [i \in Installation |-> NoIdentity]
    /\ call = [c \in Call |-> Idle]

CallStep(c) ==
    \/ \E a \in Actor, i \in Installation : Begin(c, a, i)
    \/ LookUp(c) \/ LookUpFails(c) \/ ReturnExisting(c)
    \/ \E k \in Key, next \in {"registering", "failing"} : GetOrCreate(c, k, next)
    \/ KeyFails(c)
    \/ Register(c) \/ RegisterFails(c) \/ Finish(c)
    \/ CleanUp(c)
    \/ Vanish(c)

Next == \E c \in Call : CallStep(c)

Spec == Init /\ [][Next]_vars

--------------------------------------------------------------------------------
(* Types                                                                      *)

Stage == {"idle", "returned", "failed", "littered", "gone"} \cup UnderWay

Locals ==
    [stage : Stage, actor : Actor \cup {None},
     installation : Installation \cup {None}, key : Key \cup {None},
     created : BOOLEAN, answer : Identity \cup {NoIdentity}, stored : BOOLEAN,
     code : {None, Conflict, Failed, "device_registry_unavailable",
             "device_key_unavailable", "device_key_mismatch"}]

\* Type invariant: the values of every variable; a call that has begun knows
\* its user and its installation, one that registers has a key.
TypeOK ==
    /\ keystore \in [Actor \X Installation -> Key \cup {None}]
    /\ drawn \subseteq Key
    /\ registry \in [Installation -> Identity \cup {NoIdentity}]
    /\ call \in [Call -> Locals]
    /\ \A c \in Call :
         /\ ~At(c, "idle") => Reference(c) \in Actor \X Installation
         /\ At(c, "registering") => call[c].key \in Key

--------------------------------------------------------------------------------
(* Safety                                                                     *)

\* Concurrent registrations converge: every call that returns an identity
\* returns the one that is registered, which is its own user's, and at most one
\* call of an installation is told that it created it.
CallsConverge ==
    \A c \in Call : At(c, "returned") =>
        /\ call[c].answer = registry[call[c].installation]
        /\ call[c].answer.actor = call[c].actor
        /\ \A d \in Call \ {c} :
             (call[c].stored /\ call[d].stored)
               => call[c].installation # call[d].installation

\* The key of a registered identity is where it was registered from, unless the
\* very call that generated it has failed and cleaned up: nobody else's failure
\* costs an installation its key ("pre-existing-key preservation").
BoundKeyIsKept ==
    \A i \in Installation :
        LET id == registry[i]
        IN  id # NoIdentity =>
              \/ keystore[<<id.actor, i>>] = id.key
              \/ \E c \in Call :
                   At(c, "failed") /\ call[c].created /\ call[c].key = id.key

\* A key that no identity uses belongs to a call that may still bind or delete
\* it, or was left by one that was cut short or could not delete it ("failed
\* persistence must not leave a newly generated orphan key").
OrphansAreExplained ==
    \A a \in Actor, i \in Installation :
        LET k == keystore[<<a, i>>]
        IN  k # None =>
              \/ registry[i] = [actor |-> a, key |-> k]
              \/ \E c \in Call :
                   /\ call[c].created /\ call[c].key = k
                   /\ call[c].stage \in {"registering", "answered", "failing",
                                         "littered", "gone"}

\* "Made repeat registration idempotent" (coding log of 130000): an
\* installation that is registered can be registered again by its user.
RepeatSucceeds ==
    \A c \in Call :
        call[c].code \notin {"device_key_unavailable", "device_key_mismatch"}
================================================================================
