------------------------ MODULE DeviceRegistrationProofs -----------------------
(***************************************************************************)
(* Theorems about DeviceRegistration, for any users, installations, calls  *)
(* and key pairs.                                                          *)
(*                                                                         *)
(* The argument follows the key: a key pair is generated by one call, lies *)
(* under the reference of that call or nowhere, and nobody but that call   *)
(* removes it.                                                             *)
(***************************************************************************)
EXTENDS DeviceRegistration, TLAPS

\* Call c generated key k for user a and installation i.
Generated(c, a, i, k) ==
    call[c].created /\ call[c].key = k /\ Reference(c) = <<a, i>>

\* Two calls never generate one key, and every key generated is drawn.
KeysAreFresh ==
    /\ \A c \in Call : call[c].created => call[c].key \in drawn
    /\ \A c, d \in Call :
         (call[c].created /\ call[d].created /\ call[c].key = call[d].key)
           => c = d

\* A key in use, by the store, by a call or by an identity, was generated for
\* the user and the installation it is used for.
KeysAreGenerated ==
    /\ \A a \in Actor, i \in Installation : keystore[<<a, i>>] # None =>
         \E c \in Call : Generated(c, a, i, keystore[<<a, i>>])
    /\ \A d \in Call : call[d].key # None =>
         /\ Reference(d) \in Actor \X Installation
         /\ \E c \in Call : Generated(c, call[d].actor, call[d].installation,
                                      call[d].key)
    /\ \A i \in Installation : registry[i] # NoIdentity =>
         \E c \in Call : Generated(c, registry[i].actor, i, registry[i].key)

\* A call that generated a key and has not ended in failure still has it there;
\* one that has cleaned up never sees it again.
KeysStayPut ==
    \A c \in Call : call[c].created =>
        /\ ~At(c, "failed") => keystore[Reference(c)] = call[c].key
        /\ At(c, "failed") => keystore[Reference(c)] # call[c].key

\* Where a call stands and what it knows.
CallsAreSound ==
    \A c \in Call :
        /\ call[c].stage \in {"idle", "looking", "looked"} =>
             call[c].key = None /\ ~call[c].created /\ ~call[c].stored
        /\ call[c].stage \in {"idle", "looking"} => call[c].answer = NoIdentity
        /\ call[c].stage \in {"registering", "answered", "failing", "littered"}
             => call[c].key # None
        /\ call[c].created => call[c].key # None
        /\ call[c].stage = "registering" => ~call[c].stored
        /\ call[c].answer # NoIdentity =>
             call[c].answer = registry[call[c].installation]
        /\ At(c, "returned") =>
             /\ call[c].answer # NoIdentity
             /\ call[c].answer.actor = call[c].actor
             /\ call[c].key # None => call[c].answer = Candidate(c)
        /\ call[c].stored =>
             /\ registry[call[c].installation] # NoIdentity
             /\ \A d \in Call \ {c} : call[d].stored =>
                  call[c].installation # call[d].installation

KeyInv == TypeOK /\ KeysAreFresh /\ KeysAreGenerated /\ KeysStayPut /\ CallsAreSound

--------------------------------------------------------------------------------
(* Types                                                                      *)

LEMMA TypeStep ==
    ASSUME TypeOK, [Next]_vars
    PROVE  TypeOK'
<1> USE NoneAssumption
<1>1. ASSUME NEW c \in Call, CallStep(c)
      PROVE  TypeOK'
  <2>0. /\ call[c] \in Locals
        /\ ~At(c, "idle") => Reference(c) \in Actor \X Installation
        /\ At(c, "registering") => call[c].key \in Key
    BY <1>1 DEF TypeOK
  <2> USE <2>0
  <2>1. ASSUME NEW a \in Actor, NEW i \in Installation, Begin(c, a, i)
        PROVE  TypeOK'
    BY <2>1 DEF TypeOK, Begin, Idle, Locals, Stage, UnderWay, At, Reference,
                NoIdentity, Identity
  <2>2. CASE LookUp(c)
    BY <2>2 DEF TypeOK, LookUp, Locals, Stage, UnderWay, At, Reference
  <2>3. CASE LookUpFails(c)
    BY <2>3 DEF TypeOK, LookUpFails, Fails, Locals, Stage, UnderWay, At, Reference
  <2>4. CASE ReturnExisting(c)
    <3>1. CASE ExistingFault(c) = None
      BY <2>4, <3>1 DEF TypeOK, ReturnExisting, Goes, Locals, Stage, UnderWay, At,
                        Reference
    <3>2. CASE ExistingFault(c) # None
      <4>1. ExistingFault(c) \in {Conflict, "device_key_unavailable",
                                  "device_key_mismatch"}
        BY <3>2 DEF ExistingFault
      <4>. QED
        BY <2>4, <3>2, <4>1 DEF TypeOK, ReturnExisting, Fails, Locals, Stage,
                                UnderWay, At, Reference
    <3>. QED
      BY <3>1, <3>2
  <2>5. ASSUME NEW k \in Key, NEW next \in {"registering", "failing"},
               GetOrCreate(c, k, next)
        PROVE  TypeOK'
    BY <2>5 DEF TypeOK, GetOrCreate, Locals, Stage, UnderWay, At, Reference, Failed
  <2>6. CASE KeyFails(c)
    BY <2>6 DEF TypeOK, KeyFails, Fails, Locals, Stage, UnderWay, At, Reference,
                Failed
  <2>7. CASE Register(c)
    <3>1. Candidate(c) \in Identity /\ call[c].installation \in Installation
      BY <2>7 DEF Register, Candidate, Identity, Reference, At
    <3>2. registry' \in [Installation -> Identity \cup {NoIdentity}]
      BY <3>1, <2>7 DEF Register, TypeOK
    <3>3. Accepted(c) \in BOOLEAN
      BY DEF Accepted
    <3>4. registry'[call[c].installation] \in Identity \cup {NoIdentity}
      BY <3>1, <3>2
    <3>5. call' \in [Call -> Locals]
      BY <3>3, <3>4, <2>7 DEF TypeOK, Register, Locals, Stage, UnderWay
    <3>6. \A d \in Call :
            /\ ~At(d, "idle")' => Reference(d)' \in Actor \X Installation
            /\ At(d, "registering")' => call'[d].key \in Key
      BY <2>7 DEF TypeOK, Register, At, Reference
    <3>. QED
      BY <3>2, <3>5, <3>6, <2>7 DEF TypeOK, Register
  <2>8. CASE RegisterFails(c)
    <3>1. Candidate(c) \in Identity /\ call[c].installation \in Installation
      BY <2>8 DEF RegisterFails, Candidate, Identity, Reference, At
    <3>2. registry' \in [Installation -> Identity \cup {NoIdentity}]
      BY <3>1, <2>8 DEF RegisterFails, TypeOK
    <3>. QED
      BY <3>2, <2>8 DEF TypeOK, RegisterFails, Fails, Locals, Stage, UnderWay, At,
                        Reference, Failed
  <2>9. CASE Finish(c)
    <3>1. CASE Confirmed(c)
      BY <2>9, <3>1 DEF TypeOK, Finish, Goes, Locals, Stage, UnderWay, At, Reference
    <3>2. CASE ~Confirmed(c)
      BY <2>9, <3>2 DEF TypeOK, Finish, Fails, Locals, Stage, UnderWay, At, Reference
    <3>. QED
      BY <3>1, <3>2
  <2>10. CASE CleanUp(c)
    <3>1. CASE Goes(c, "failed")
      BY <2>10, <3>1 DEF TypeOK, CleanUp, Goes, Locals, Stage, UnderWay, At, Reference
    <3>2. CASE Goes(c, "littered")
      BY <2>10, <3>2 DEF TypeOK, CleanUp, Goes, Locals, Stage, UnderWay, At, Reference
    <3>. QED
      BY <2>10, <3>1, <3>2 DEF CleanUp
  <2>11. CASE Vanish(c)
    BY <2>11 DEF TypeOK, Vanish, Goes, Locals, Stage, UnderWay, At, Reference
  <2>12. QED
    BY <1>1, <2>1, <2>2, <2>3, <2>4, <2>5, <2>6, <2>7, <2>8, <2>9, <2>10, <2>11
       DEF CallStep
<1>2. CASE UNCHANGED vars
  BY <1>2 DEF TypeOK, vars, At, Reference
<1>3. QED
  BY <1>1, <1>2 DEF Next

\* The state of key store, registry and calls has its types.
THEOREM TypeCorrect == Spec => []TypeOK
<1>1. Init => TypeOK
  BY NoneAssumption DEF Init, TypeOK, Idle, Locals, Stage, UnderWay, At, NoIdentity,
     Identity, Reference
<1>2. TypeOK /\ [Next]_vars => TypeOK'
  BY TypeStep
<1>3. QED
  BY <1>1, <1>2, PTL DEF Spec

--------------------------------------------------------------------------------
(* Keys                                                                       *)

\* Call d has the same key as before, from the same place, and has not failed in
\* this step if it generated it.
SameKey(d) ==
    /\ call'[d].key = call[d].key /\ call'[d].created = call[d].created
    /\ call[d].key # None =>
         /\ call'[d].actor = call[d].actor
         /\ call'[d].installation = call[d].installation
    /\ call[d].created =>
         /\ call[d].key # None
         /\ call'[d].stage = "failed" <=> call[d].stage = "failed"

\* What is registered for i in this step is the candidate of a call, if it is new.
RegistersKnown(i) ==
    \/ registry'[i] = registry[i]
    \/ \E d \in Call : /\ call[d].key # None
                        /\ call[d].installation = i
                        /\ registry'[i] = Candidate(d)

\* A step that leaves the key store alone, lets every call keep its key and
\* registers candidates only keeps the facts about keys.
LEMMA QuietStep ==
    ASSUME KeyInv, UNCHANGED <<keystore, drawn>>,
           \A d \in Call : SameKey(d), \A i \in Installation : RegistersKnown(i)
    PROVE  KeysAreFresh' /\ KeysAreGenerated' /\ KeysStayPut'
<1> USE DEF SameKey
<1>1. KeysAreFresh'
  BY DEF KeyInv, KeysAreFresh
<1>2. KeysAreGenerated'
  <2>1. ASSUME NEW a \in Actor, NEW i \in Installation, keystore'[<<a, i>>] # None
        PROVE  \E d \in Call : Generated(d, a, i, keystore[<<a, i>>])'
    <3>1. PICK d \in Call : Generated(d, a, i, keystore[<<a, i>>])
      BY <2>1 DEF KeyInv, KeysAreGenerated
    <3>. QED
      BY <3>1 DEF Generated, Reference
  <2>2. ASSUME NEW d \in Call, call'[d].key # None
        PROVE  /\ Reference(d)' \in Actor \X Installation
               /\ \E e \in Call : Generated(e, call[d].actor, call[d].installation,
                                            call[d].key)'
    <3>1. /\ call[d].key # None
          /\ Reference(d) \in Actor \X Installation
      BY <2>2 DEF KeyInv, KeysAreGenerated
    <3>2. PICK e \in Call : Generated(e, call[d].actor, call[d].installation,
                                      call[d].key)
      BY <3>1 DEF KeyInv, KeysAreGenerated
    <3>. QED
      BY <3>1, <3>2 DEF Generated, Reference
  <2>3. ASSUME NEW i \in Installation, registry'[i] # NoIdentity
        PROVE  \E d \in Call : Generated(d, registry[i].actor, i, registry[i].key)'
    <3>1. CASE registry'[i] = registry[i]
      <4>1. PICK d \in Call : Generated(d, registry[i].actor, i, registry[i].key)
        BY <2>3, <3>1 DEF KeyInv, KeysAreGenerated
      <4>. QED
        BY <3>1, <4>1 DEF Generated, Reference
    <3>2. CASE registry'[i] # registry[i]
      <4>1. PICK e \in Call : /\ call[e].key # None /\ call[e].installation = i
                              /\ registry'[i] = Candidate(e)
        BY <3>2 DEF RegistersKnown
      <4>2. PICK d \in Call : Generated(d, call[e].actor, i, call[e].key)
        BY <4>1 DEF KeyInv, KeysAreGenerated
      <4>. QED
        BY <4>1, <4>2 DEF Generated, Reference, Candidate
    <3>. QED
      BY <3>1, <3>2
  <2>. QED
    BY <2>1, <2>2, <2>3 DEF KeysAreGenerated
<1>3. KeysStayPut'
  BY DEF KeyInv, KeysStayPut, Reference, At
<1>4. QED
  BY <1>1, <1>2, <1>3

\* Generating a key gives it a creator, under whose reference there was none.
LEMMA GetOrCreateStep ==
    ASSUME KeyInv, NEW c \in Call, NEW k \in Key,
           NEW next \in {"registering", "failing"}, GetOrCreate(c, k, next)
    PROVE  KeysAreFresh' /\ KeysAreGenerated' /\ KeysStayPut'
<1> DEFINE r == Reference(c)
<1>0. /\ r \in Actor \X Installation
      /\ call[c].key = None /\ ~call[c].created
      /\ \A d \in Call \ {c} : call'[d] = call[d]
      /\ call'[c].key = k /\ call'[c].created = (keystore[r] = None)
      /\ call'[c].actor = call[c].actor
      /\ call'[c].installation = call[c].installation
      /\ call'[c].stage = next
      /\ keystore' = [keystore EXCEPT ![r] = k]
      /\ drawn' = drawn \cup {k}
      /\ UNCHANGED registry
      /\ k # None
  BY NoneAssumption DEF KeyInv, TypeOK, CallsAreSound, GetOrCreate, At, Locals, Reference
<1>1. CASE keystore[r] = None
  <2>1. k \notin drawn
    BY <1>1 DEF GetOrCreate
  <2>2. KeysAreFresh'
    BY <1>0, <1>1, <2>1 DEF KeyInv, KeysAreFresh
  <2>3. KeysAreGenerated'
    <3>1. Generated(c, call[c].actor, call[c].installation, k)'
      BY <1>0, <1>1 DEF Generated, Reference
    <3>2. ASSUME NEW a \in Actor, NEW i \in Installation, keystore'[<<a, i>>] # None
          PROVE  \E d \in Call : Generated(d, a, i, keystore[<<a, i>>])'
      <4>1. CASE <<a, i>> = r
        BY <1>0, <3>1, <4>1 DEF KeyInv, TypeOK, Generated, Reference
      <4>2. CASE <<a, i>> # r
        <5>1. keystore'[<<a, i>>] = keystore[<<a, i>>]
          BY <1>0, <4>2 DEF KeyInv, TypeOK
        <5>2. PICK d \in Call : Generated(d, a, i, keystore[<<a, i>>])
          BY <3>2, <5>1 DEF KeyInv, KeysAreGenerated
        <5>. QED
          BY <1>0, <5>1, <5>2 DEF Generated, Reference
      <4>. QED
        BY <4>1, <4>2
    <3>3. ASSUME NEW d \in Call, call'[d].key # None
          PROVE  /\ Reference(d)' \in Actor \X Installation
                 /\ \E e \in Call : Generated(e, call[d].actor, call[d].installation,
                                              call[d].key)'
      <4>1. CASE d = c
        BY <1>0, <3>1, <4>1 DEF Generated, Reference
      <4>2. CASE d # c
        <5>1. PICK e \in Call : Generated(e, call[d].actor, call[d].installation,
                                          call[d].key)
          BY <1>0, <3>3, <4>2 DEF KeyInv, KeysAreGenerated
        <5>2. Reference(d) \in Actor \X Installation
          BY <1>0, <3>3, <4>2 DEF KeyInv, KeysAreGenerated
        <5>. QED
          BY <1>0, <4>2, <5>1, <5>2 DEF Generated, Reference
      <4>. QED
        BY <4>1, <4>2
    <3>4. ASSUME NEW i \in Installation, registry'[i] # NoIdentity
          PROVE  \E d \in Call :
                    Generated(d, registry[i].actor, i, registry[i].key)'
      <4>1. PICK d \in Call : Generated(d, registry[i].actor, i, registry[i].key)
        BY <1>0, <3>4 DEF KeyInv, KeysAreGenerated
      <4>. QED
        BY <1>0, <4>1 DEF Generated, Reference
    <3>. QED
      BY <3>2, <3>3, <3>4 DEF KeysAreGenerated
  <2>4. KeysStayPut'
    <3>1. keystore'[r] = k
      BY <1>0 DEF KeyInv, TypeOK
    <3>2. ASSUME NEW d \in Call \ {c}, call[d].created
          PROVE  /\ Reference(d) \in Actor \X Installation
                 /\ call[d].key # None /\ call[d].key # k
      BY <2>1, <3>2 DEF KeyInv, CallsAreSound, KeysAreFresh, KeysAreGenerated
    <3>3. ASSUME NEW d \in Call \ {c}, call[d].created
          PROVE  /\ call[d].stage # "failed" => keystore'[Reference(d)] = call[d].key
                 /\ call[d].stage = "failed" => keystore'[Reference(d)] # call[d].key
      <4>1. CASE Reference(d) = r
        BY <1>1, <3>1, <3>2, <3>3, <4>1 DEF KeyInv, KeysStayPut, At
      <4>2. CASE Reference(d) # r
        <5>1. keystore'[Reference(d)] = keystore[Reference(d)]
          BY <1>0, <3>2, <3>3, <4>2 DEF KeyInv, TypeOK
        <5>. QED
          BY <3>3, <5>1 DEF KeyInv, KeysStayPut, At
      <4>. QED
        BY <4>1, <4>2
    <3>. QED
      BY <1>0, <3>1, <3>3 DEF KeysStayPut, At, Reference
  <2>. QED
    BY <2>2, <2>3, <2>4
<1>2. CASE keystore[r] # None
  <2>1. PICK e \in Call : Generated(e, call[c].actor, call[c].installation,
                                    keystore[r])
    BY <1>0, <1>2 DEF KeyInv, KeysAreGenerated, Reference
  <2>2. k = keystore[r] /\ k \in drawn
    BY <1>2, <2>1 DEF GetOrCreate, Generated, KeyInv, KeysAreFresh
  <2>3. keystore' = keystore /\ drawn' = drawn
    BY <1>0, <2>2 DEF KeyInv, TypeOK
  <2>4. e # c
    BY <1>0, <2>1 DEF Generated
  <2>5. KeysAreFresh'
    BY <1>0, <1>2, <2>3 DEF KeyInv, KeysAreFresh
  <2>6. KeysAreGenerated'
    <3>1. ASSUME NEW a \in Actor, NEW i \in Installation, keystore'[<<a, i>>] # None
          PROVE  \E d \in Call : Generated(d, a, i, keystore[<<a, i>>])'
      <4>1. PICK d \in Call : Generated(d, a, i, keystore[<<a, i>>])
        BY <2>3, <3>1 DEF KeyInv, KeysAreGenerated
      <4>. QED
        BY <1>0, <2>3, <4>1 DEF Generated, Reference
    <3>2. ASSUME NEW d \in Call, call'[d].key # None
          PROVE  /\ Reference(d)' \in Actor \X Installation
                 /\ \E x \in Call : Generated(x, call[d].actor, call[d].installation,
                                              call[d].key)'
      <4>1. CASE d = c
        BY <1>0, <2>1, <2>2, <2>4, <4>1 DEF Generated, Reference
      <4>2. CASE d # c
        <5>1. PICK x \in Call : Generated(x, call[d].actor, call[d].installation,
                                          call[d].key)
          BY <1>0, <3>2, <4>2 DEF KeyInv, KeysAreGenerated
        <5>2. Reference(d) \in Actor \X Installation
          BY <1>0, <3>2, <4>2 DEF KeyInv, KeysAreGenerated
        <5>. QED
          BY <1>0, <4>2, <5>1, <5>2 DEF Generated, Reference
      <4>. QED
        BY <4>1, <4>2
    <3>3. ASSUME NEW i \in Installation, registry'[i] # NoIdentity
          PROVE  \E d \in Call :
                    Generated(d, registry[i].actor, i, registry[i].key)'
      <4>1. PICK d \in Call : Generated(d, registry[i].actor, i, registry[i].key)
        BY <1>0, <3>3 DEF KeyInv, KeysAreGenerated
      <4>. QED
        BY <1>0, <4>1 DEF Generated, Reference
    <3>. QED
      BY <3>1, <3>2, <3>3 DEF KeysAreGenerated
  <2>7. KeysStayPut'
    BY <1>0, <1>2, <2>3 DEF KeyInv, KeysStayPut, At, Reference
  <2>. QED
    BY <2>5, <2>6, <2>7
<1>3. QED
  BY <1>1, <1>2

\* A call that deletes the key it generated takes nobody else's.
LEMMA DeleteStep ==
    ASSUME KeyInv, NEW c \in Call, At(c, "failing"), call[c].created,
           keystore' = [keystore EXCEPT ![Reference(c)] = None],
           Goes(c, "failed"), UNCHANGED <<drawn, registry>>
    PROVE  KeysAreFresh' /\ KeysAreGenerated' /\ KeysStayPut'
<1> DEFINE r == Reference(c)
<1>0. /\ r \in Actor \X Installation
      /\ call[c].key # None /\ keystore[r] = call[c].key
      /\ \A d \in Call : /\ call'[d].key = call[d].key
                         /\ call'[d].created = call[d].created
                         /\ call'[d].actor = call[d].actor
                         /\ call'[d].installation = call[d].installation
      /\ \A d \in Call \ {c} : call'[d] = call[d]
      /\ call'[c].stage = "failed"
  BY DEF KeyInv, TypeOK, CallsAreSound, KeysStayPut, At, Goes, Locals
<1>1. keystore'[r] = None
  BY <1>0 DEF KeyInv, TypeOK
<1>2. ASSUME NEW q \in Actor \X Installation, q # r
      PROVE  keystore'[q] = keystore[q]
  BY <1>0, <1>2 DEF KeyInv, TypeOK
<1>3. KeysAreFresh'
  BY <1>0 DEF KeyInv, KeysAreFresh
<1>4. KeysAreGenerated'
  <2>1. ASSUME NEW a \in Actor, NEW i \in Installation, keystore'[<<a, i>>] # None
        PROVE  \E d \in Call : Generated(d, a, i, keystore[<<a, i>>])'
    <3>1. keystore'[<<a, i>>] = keystore[<<a, i>>]
      BY <1>1, <1>2, <2>1
    <3>2. PICK d \in Call : Generated(d, a, i, keystore[<<a, i>>])
      BY <2>1, <3>1 DEF KeyInv, KeysAreGenerated
    <3>. QED
      BY <1>0, <3>1, <3>2 DEF Generated, Reference
  <2>2. ASSUME NEW d \in Call, call'[d].key # None
        PROVE  /\ Reference(d)' \in Actor \X Installation
               /\ \E e \in Call : Generated(e, call[d].actor, call[d].installation,
                                            call[d].key)'
    <3>1. /\ call[d].key # None
          /\ Reference(d) \in Actor \X Installation
      BY <1>0, <2>2 DEF KeyInv, KeysAreGenerated
    <3>2. PICK e \in Call : Generated(e, call[d].actor, call[d].installation,
                                      call[d].key)
      BY <3>1 DEF KeyInv, KeysAreGenerated
    <3>. QED
      BY <1>0, <3>1, <3>2 DEF Generated, Reference
  <2>3. ASSUME NEW i \in Installation, registry'[i] # NoIdentity
        PROVE  \E d \in Call : Generated(d, registry[i].actor, i, registry[i].key)'
    <3>1. PICK d \in Call : Generated(d, registry[i].actor, i, registry[i].key)
      BY <2>3 DEF KeyInv, KeysAreGenerated
    <3>. QED
      BY <1>0, <3>1 DEF Generated, Reference
  <2>. QED
    BY <2>1, <2>2, <2>3 DEF KeysAreGenerated
<1>5. KeysStayPut'
  <2>1. ASSUME NEW d \in Call \ {c}, call[d].created
        PROVE  /\ call[d].stage # "failed" => keystore'[Reference(d)] = call[d].key
               /\ call[d].stage = "failed" => keystore'[Reference(d)] # call[d].key
    <3>1. /\ Reference(d) \in Actor \X Installation
          /\ call[d].key # None /\ call[d].key # call[c].key
      BY <2>1 DEF KeyInv, CallsAreSound, KeysAreFresh, KeysAreGenerated
    <3>2. CASE Reference(d) = r
      BY <1>0, <1>1, <2>1, <3>1, <3>2 DEF KeyInv, KeysStayPut, At
    <3>3. CASE Reference(d) # r
      BY <1>2, <2>1, <3>1, <3>3 DEF KeyInv, KeysStayPut, At
    <3>. QED
      BY <3>2, <3>3
  <2>. QED
    BY <1>0, <1>1, <2>1 DEF KeysStayPut, At, Reference
<1>6. QED
  BY <1>3, <1>4, <1>5

--------------------------------------------------------------------------------
(* Calls                                                                      *)

\* What one call knows; CallsAreSound says it of all.
KnowsAndStands(c) ==
    /\ call[c].stage \in {"idle", "looking", "looked"} =>
         call[c].key = None /\ ~call[c].created /\ ~call[c].stored
    /\ call[c].stage \in {"idle", "looking"} => call[c].answer = NoIdentity
    /\ call[c].stage \in {"registering", "answered", "failing", "littered"}
         => call[c].key # None
    /\ call[c].created => call[c].key # None
    /\ call[c].stage = "registering" => ~call[c].stored
    /\ call[c].answer # NoIdentity =>
         call[c].answer = registry[call[c].installation]
    /\ At(c, "returned") =>
         /\ call[c].answer # NoIdentity
         /\ call[c].answer.actor = call[c].actor
         /\ call[c].key # None => call[c].answer = Candidate(c)

\* A step that changes one call, which goes on knowing what it should, says it
\* stored something only if it did before, and leaves the registry alone.
LEMMA OneCallStep ==
    ASSUME KeyInv, NEW c \in Call, UNCHANGED registry, KnowsAndStands(c)',
           \A d \in Call \ {c} : call'[d] = call[d],
           call'[c].stored => /\ call[c].stored
                              /\ call'[c].installation = call[c].installation
    PROVE  CallsAreSound'
<1>1. ASSUME NEW d \in Call
      PROVE  KnowsAndStands(d)'
  <2>1. CASE d = c
    BY <2>1
  <2>2. CASE d # c
    BY <2>2 DEF KeyInv, CallsAreSound, KnowsAndStands, At, Candidate
  <2>. QED
    BY <2>1, <2>2
<1>2. ASSUME NEW d \in Call, call'[d].stored
      PROVE  /\ registry'[call'[d].installation] # NoIdentity
             /\ \A e \in Call \ {d} : call'[e].stored =>
                  call'[d].installation # call'[e].installation
  BY <1>2 DEF KeyInv, CallsAreSound
<1>3. QED
  BY <1>1, <1>2 DEF CallsAreSound, KnowsAndStands, At, Candidate

\* A call that changes nothing but its own locals, keeping its key.
LEMMA LocalStep ==
    ASSUME KeyInv, NEW c \in Call, UNCHANGED <<keystore, drawn, registry>>,
           \A d \in Call \ {c} : call'[d] = call[d], SameKey(c),
           KnowsAndStands(c)', call'[c].stored => call[c].stored,
           call'[c].stored => call'[c].installation = call[c].installation
    PROVE  KeysAreFresh' /\ KeysAreGenerated' /\ KeysStayPut' /\ CallsAreSound'
<1>1. \A d \in Call : SameKey(d)
  <2>1. ASSUME NEW d \in Call \ {c}
        PROVE  SameKey(d)
    BY <2>1 DEF SameKey, KeyInv, CallsAreSound
  <2>. QED
    BY <2>1
<1>2. \A i \in Installation : RegistersKnown(i)
  BY DEF RegistersKnown
<1>3. QED
  BY <1>1, <1>2, QuietStep, OneCallStep

\* The same, for a call that only moves to another stage after it got its key,
\* with or without an error code.
LEMMA StageStep ==
    ASSUME KeyInv, NEW c \in Call, UNCHANGED <<keystore, drawn, registry>>,
           NEW stage \in {"failed", "failing", "littered", "gone"},
           NEW code, call' = [call EXCEPT ![c].stage = stage, ![c].code = code],
           call[c].created => stage # "failed",
           ~At(c, "failed"), stage \in {"failing", "littered"} => call[c].key # None
    PROVE  KeysAreFresh' /\ KeysAreGenerated' /\ KeysStayPut' /\ CallsAreSound'
<1>1. \A d \in Call \ {c} : call'[d] = call[d]
  BY DEF KeyInv, TypeOK
<1>2. /\ call'[c].stage = stage /\ call'[c].key = call[c].key
      /\ call'[c].created = call[c].created /\ call'[c].stored = call[c].stored
      /\ call'[c].actor = call[c].actor /\ call'[c].answer = call[c].answer
      /\ call'[c].installation = call[c].installation
  BY DEF KeyInv, TypeOK, Locals
<1>3. SameKey(c)
  BY <1>2 DEF SameKey, KeyInv, CallsAreSound, At
<1>4. KnowsAndStands(c)'
  BY <1>2 DEF KnowsAndStands, KeyInv, CallsAreSound, At, Candidate
<1>5. QED
  BY <1>1, <1>2, <1>3, <1>4, LocalStep

\* Goes(c, stage) is such a step.
LEMMA GoesStep ==
    ASSUME KeyInv, NEW c \in Call, NEW stage, Goes(c, stage)
    PROVE  call' = [call EXCEPT ![c].stage = stage, ![c].code = call[c].code]
BY DEF KeyInv, TypeOK, Locals, Goes

LEMMA RegisterStep ==
    ASSUME KeyInv, NEW c \in Call, Register(c)
    PROVE  KeysAreFresh' /\ KeysAreGenerated' /\ KeysStayPut' /\ CallsAreSound'
<1> DEFINE i == call[c].installation
<1>1. /\ call[c] \in Locals
      /\ call[c].stage = "registering" /\ call[c].key # None /\ ~call[c].stored
      /\ i \in Installation /\ Candidate(c) # NoIdentity
  BY NoneAssumption DEF KeyInv, TypeOK, CallsAreSound, Register, At, Reference, Candidate,
     NoIdentity
<1>2. /\ \A d \in Call \ {c} : call'[d] = call[d]
      /\ call'[c].stage = "answered" /\ call'[c].key = call[c].key
      /\ call'[c].created = call[c].created
      /\ call'[c].actor = call[c].actor /\ call'[c].installation = i
      /\ call'[c].answer = registry'[i] /\ call'[c].stored = Accepted(c)
  BY <1>1 DEF Register, KeyInv, TypeOK, Locals
<1>3. /\ Accepted(c) => registry'[i] = Candidate(c) /\ registry[i] = NoIdentity
      /\ ~Accepted(c) => registry' = registry
      /\ \A j \in Installation \ {i} : registry'[j] = registry[j]
      /\ UNCHANGED <<keystore, drawn>>
  BY <1>1 DEF Register, KeyInv, TypeOK, Accepted
<1>4. KeysAreFresh' /\ KeysAreGenerated' /\ KeysStayPut'
  <2>1. \A d \in Call : SameKey(d)
    BY <1>1, <1>2 DEF SameKey, KeyInv, CallsAreSound
  <2>2. \A j \in Installation : RegistersKnown(j)
    BY <1>1, <1>3 DEF RegistersKnown
  <2>. QED
    BY <1>3, <2>1, <2>2, QuietStep
<1>5. ASSUME NEW d \in Call
      PROVE  KnowsAndStands(d)'
  <2>1. CASE d = c
    BY <1>1, <1>2, <2>1 DEF KnowsAndStands, At
  <2>2. CASE d # c
    <3>1. call[d].answer # NoIdentity =>
            registry'[call[d].installation] = registry[call[d].installation]
      <4>1. CASE call[d].installation = i
        BY <1>3, <4>1 DEF KeyInv, CallsAreSound
      <4>2. CASE call[d].installation # i
        <5>1. call[d].answer # NoIdentity => call[d].installation \in Installation
          BY DEF KeyInv, TypeOK, At, Reference, CallsAreSound
        <5>. QED
          BY <1>3, <4>2, <5>1
      <4>. QED
        BY <4>1, <4>2
    <3>. QED
      BY <1>2, <2>2, <3>1 DEF KnowsAndStands, KeyInv, CallsAreSound, At, Candidate
  <2>. QED
    BY <2>1, <2>2
<1>6. ASSUME NEW d \in Call, call'[d].stored
      PROVE  /\ registry'[call'[d].installation] # NoIdentity
             /\ \A e \in Call \ {d} : call'[e].stored =>
                  call'[d].installation # call'[e].installation
  <2>1. \A e \in Call : call[e].stored => registry[call[e].installation] # NoIdentity
    BY DEF KeyInv, CallsAreSound
  <2>2. CASE Accepted(c)
    <3>1. \A e \in Call \ {c} : call'[e].stored => call'[e].installation # i
      BY <1>2, <1>3, <2>1, <2>2
    <3>2. ASSUME NEW e \in Call \ {c}, call[e].stored
          PROVE  registry'[call[e].installation] # NoIdentity
      <4>1. call[e].installation \in Installation \ {i}
        BY <1>2, <3>1, <3>2 DEF KeyInv, TypeOK, At, Reference, CallsAreSound
      <4>. QED
        BY <1>3, <2>1, <3>2, <4>1
    <3>. QED
      BY <1>1, <1>2, <1>3, <1>6, <2>2, <3>1, <3>2 DEF KeyInv, CallsAreSound
  <2>3. CASE ~Accepted(c)
    BY <1>2, <1>3, <1>6, <2>3 DEF KeyInv, CallsAreSound
  <2>. QED
    BY <2>2, <2>3
<1>7. CallsAreSound'
  BY <1>5, <1>6 DEF CallsAreSound, KnowsAndStands, At, Candidate
<1>8. QED
  BY <1>4, <1>7

\* The store happened although the call does not know.
LEMMA RegisterFailsStep ==
    ASSUME KeyInv, NEW c \in Call, RegisterFails(c)
    PROVE  KeysAreFresh' /\ KeysAreGenerated' /\ KeysStayPut' /\ CallsAreSound'
<1> DEFINE i == call[c].installation
<1>1. /\ call[c] \in Locals
      /\ call[c].stage = "registering" /\ call[c].key # None /\ ~call[c].stored
      /\ call[c].answer = NoIdentity \/ call[c].answer = registry[i]
      /\ i \in Installation /\ Candidate(c) # NoIdentity
  BY NoneAssumption DEF KeyInv, TypeOK, CallsAreSound, RegisterFails, At, Reference,
     Candidate, NoIdentity
<1>2. /\ \A d \in Call \ {c} : call'[d] = call[d]
      /\ call'[c].stage = "failing" /\ call'[c].key = call[c].key
      /\ call'[c].created = call[c].created /\ call'[c].stored = call[c].stored
      /\ call'[c].actor = call[c].actor /\ call'[c].installation = i
      /\ call'[c].answer = call[c].answer
      /\ UNCHANGED <<keystore, drawn>>
  BY <1>1 DEF RegisterFails, Fails, KeyInv, TypeOK, Locals
<1>3. CASE UNCHANGED registry
  <2>1. SameKey(c)
    BY <1>1, <1>2 DEF SameKey, KeyInv, CallsAreSound
  <2>2. KnowsAndStands(c)'
    BY <1>1, <1>2, <1>3 DEF KnowsAndStands, KeyInv, CallsAreSound, At
  <2>. QED
    BY <1>1, <1>2, <1>3, <2>1, <2>2, LocalStep
<1>4. CASE Accepted(c) /\ registry' = [registry EXCEPT ![i] = Candidate(c)]
  <2>1. /\ registry[i] = NoIdentity /\ registry'[i] = Candidate(c)
        /\ \A j \in Installation \ {i} : registry'[j] = registry[j]
    BY <1>1, <1>4 DEF Accepted, KeyInv, TypeOK
  <2>2. KeysAreFresh' /\ KeysAreGenerated' /\ KeysStayPut'
    <3>1. \A d \in Call : SameKey(d)
      BY <1>1, <1>2 DEF SameKey, KeyInv, CallsAreSound
    <3>2. \A j \in Installation : RegistersKnown(j)
      BY <1>1, <2>1 DEF RegistersKnown
    <3>. QED
      BY <1>2, <3>1, <3>2, QuietStep
  <2>3. ASSUME NEW d \in Call
        PROVE  KnowsAndStands(d)'
    <3>1. call[d].answer # NoIdentity =>
            registry'[call[d].installation] = registry[call[d].installation]
      <4>1. call[d].answer # NoIdentity => call[d].installation \in Installation \ {i}
        BY <2>1 DEF KeyInv, TypeOK, At, Reference, CallsAreSound
      <4>. QED
        BY <2>1, <4>1
    <3>. QED
      BY <1>1, <1>2, <3>1 DEF KnowsAndStands, KeyInv, CallsAreSound, At, Candidate
  <2>4. ASSUME NEW d \in Call, call'[d].stored
        PROVE  /\ registry'[call'[d].installation] # NoIdentity
               /\ \A e \in Call \ {d} : call'[e].stored =>
                    call'[d].installation # call'[e].installation
    <3>1. call[d].stored /\ call'[d].installation = call[d].installation
      BY <1>2, <2>4
    <3>2. registry[call[d].installation] # NoIdentity
      BY <3>1 DEF KeyInv, CallsAreSound
    <3>3. call[d].installation \in Installation
      BY <3>1 DEF KeyInv, TypeOK, At, Reference, CallsAreSound
    <3>. QED
      BY <1>1, <1>2, <2>1, <3>1, <3>2, <3>3 DEF KeyInv, CallsAreSound
  <2>5. CallsAreSound'
    BY <2>3, <2>4 DEF CallsAreSound, KnowsAndStands, At, Candidate
  <2>. QED
    BY <2>2, <2>5
<1>5. QED
  BY <1>3, <1>4 DEF RegisterFails

LEMMA KeyStep ==
    ASSUME KeyInv, [Next]_vars
    PROVE  KeyInv'
<1> USE NoneAssumption
<1>1. ASSUME NEW c \in Call, CallStep(c)
      PROVE  KeysAreFresh' /\ KeysAreGenerated' /\ KeysStayPut' /\ CallsAreSound'
  <2>0. /\ call[c] \in Locals
        /\ ~At(c, "idle") => Reference(c) \in Actor \X Installation
    BY DEF KeyInv, TypeOK
  <2>1. ASSUME NEW a \in Actor, NEW i \in Installation, Begin(c, a, i)
        PROVE  KeysAreFresh' /\ KeysAreGenerated' /\ KeysStayPut' /\ CallsAreSound'
    <3>1. /\ \A d \in Call \ {c} : call'[d] = call[d]
          /\ call'[c].stage = "looking" /\ call'[c].key = None
          /\ call'[c].created = FALSE /\ call'[c].stored = FALSE
          /\ call'[c].answer = NoIdentity
          /\ UNCHANGED <<keystore, drawn, registry>>
      BY <2>1 DEF Begin, Idle, KeyInv, TypeOK
    <3>2. call[c].key = None /\ call[c].created = FALSE
      BY <2>0, <2>1 DEF Begin, KeyInv, CallsAreSound, At, Locals
    <3>3. SameKey(c)
      BY <3>1, <3>2 DEF SameKey
    <3>4. KnowsAndStands(c)'
      BY <3>1 DEF KnowsAndStands, At
    <3>. QED
      BY <3>1, <3>3, <3>4, LocalStep
  <2>2. CASE LookUp(c)
    <3>1. /\ \A d \in Call \ {c} : call'[d] = call[d]
          /\ call'[c].stage = "looked" /\ call'[c].key = call[c].key
          /\ call'[c].created = call[c].created /\ call'[c].stored = call[c].stored
          /\ call'[c].actor = call[c].actor
          /\ call'[c].installation = call[c].installation
          /\ call'[c].answer = registry[call[c].installation]
          /\ UNCHANGED <<keystore, drawn, registry>>
      BY <2>0, <2>2 DEF LookUp, KeyInv, TypeOK, Locals
    <3>2. SameKey(c) /\ KnowsAndStands(c)'
      BY <2>2, <3>1 DEF LookUp, SameKey, KnowsAndStands, KeyInv, CallsAreSound, At
    <3>. QED
      BY <3>1, <3>2, LocalStep
  <2>3. CASE LookUpFails(c)
    <3>1. ~call[c].created
      BY <2>3 DEF LookUpFails, KeyInv, CallsAreSound, At
    <3>. QED
      BY <2>3, <3>1, StageStep DEF LookUpFails, Fails, At
  <2>4. CASE ReturnExisting(c)
    <3>1. ~call[c].created /\ call[c].key = None /\ ~call[c].stored
      BY <2>4 DEF ReturnExisting, KeyInv, CallsAreSound, At
    <3>2. CASE ExistingFault(c) = None
      <4>1. /\ \A d \in Call \ {c} : call'[d] = call[d]
            /\ call'[c].stage = "returned" /\ call'[c].key = call[c].key
            /\ call'[c].created = call[c].created /\ call'[c].stored = call[c].stored
            /\ call'[c].actor = call[c].actor
            /\ call'[c].installation = call[c].installation
            /\ call'[c].answer = call[c].answer
            /\ UNCHANGED <<keystore, drawn, registry>>
        BY <2>0, <2>4, <3>2 DEF ReturnExisting, Goes, KeyInv, TypeOK, Locals
      <4>2. call[c].answer # NoIdentity /\ call[c].answer.actor = call[c].actor
        BY <2>4, <3>2 DEF ReturnExisting, ExistingFault
      <4>3. SameKey(c) /\ KnowsAndStands(c)'
        BY <2>4, <3>1, <4>1, <4>2 DEF SameKey, KnowsAndStands, KeyInv, CallsAreSound, At
      <4>. QED
        BY <4>1, <4>3, LocalStep
    <3>3. CASE ExistingFault(c) # None
      BY <2>4, <3>1, <3>3, StageStep DEF ReturnExisting, Fails, At
    <3>. QED
      BY <3>2, <3>3
  <2>5. ASSUME NEW k \in Key, NEW next \in {"registering", "failing"},
               GetOrCreate(c, k, next)
        PROVE  KeysAreFresh' /\ KeysAreGenerated' /\ KeysStayPut' /\ CallsAreSound'
    <3>1. /\ \A d \in Call \ {c} : call'[d] = call[d]
          /\ call'[c].stage = next /\ call'[c].key = k /\ k # None
          /\ ~call'[c].stored /\ call'[c].answer = NoIdentity
          /\ UNCHANGED registry
      BY <2>0, <2>5 DEF GetOrCreate, KeyInv, TypeOK, CallsAreSound, Locals, At
    <3>2. KnowsAndStands(c)'
      BY <3>1 DEF KnowsAndStands, At
    <3>3. CallsAreSound'
      BY <3>1, <3>2, OneCallStep
    <3>. QED
      BY <2>5, <3>3, GetOrCreateStep
  <2>6. CASE KeyFails(c)
    <3>1. ~call[c].created
      BY <2>6 DEF KeyFails, KeyInv, CallsAreSound, At
    <3>. QED
      BY <2>6, <3>1, StageStep DEF KeyFails, Fails, At
  <2>7. CASE Register(c)
    BY <2>7, RegisterStep
  <2>8. CASE RegisterFails(c)
    BY <2>8, RegisterFailsStep
  <2>9. CASE Finish(c)
    <3>1. call[c].key # None
      BY <2>9 DEF Finish, KeyInv, CallsAreSound, At
    <3>2. CASE Confirmed(c)
      <4>1. /\ \A d \in Call \ {c} : call'[d] = call[d]
            /\ call'[c].stage = "returned" /\ call'[c].key = call[c].key
            /\ call'[c].created = call[c].created /\ call'[c].stored = call[c].stored
            /\ call'[c].actor = call[c].actor
            /\ call'[c].installation = call[c].installation
            /\ call'[c].answer = call[c].answer
            /\ UNCHANGED <<keystore, drawn, registry>>
        BY <2>0, <2>9, <3>2 DEF Finish, Goes, KeyInv, TypeOK, Locals
      <4>2. /\ call[c].answer = Candidate(c) /\ Candidate(c) # NoIdentity
            /\ Candidate(c).actor = call[c].actor
        BY <3>1, <3>2 DEF Confirmed, Candidate, NoIdentity
      <4>3. SameKey(c) /\ KnowsAndStands(c)'
        BY <2>9, <3>1, <4>1, <4>2 DEF Finish, SameKey, KnowsAndStands, KeyInv,
           CallsAreSound, At, Candidate
      <4>. QED
        BY <4>1, <4>3, LocalStep
    <3>3. CASE ~Confirmed(c)
      BY <2>9, <3>1, <3>3, StageStep DEF Finish, Fails, At
    <3>. QED
      BY <3>2, <3>3
  <2>10. CASE CleanUp(c)
    <3>1. call[c].key # None /\ ~At(c, "failed")
      BY <2>10 DEF CleanUp, KeyInv, CallsAreSound, At
    <3>2. CASE /\ Undoes(c) /\ Goes(c, "failed")
               /\ keystore' = [keystore EXCEPT ![Reference(c)] = None]
      <4>1. CallsAreSound'
        <5>1. /\ \A d \in Call \ {c} : call'[d] = call[d]
              /\ call'[c].stage = "failed" /\ call'[c].key = call[c].key
              /\ call'[c].created = call[c].created
              /\ call'[c].stored = call[c].stored
              /\ call'[c].installation = call[c].installation
              /\ call'[c].answer = call[c].answer
              /\ UNCHANGED <<drawn, registry>>
          BY <2>0, <2>10, <3>2 DEF CleanUp, Goes, KeyInv, TypeOK, Locals
        <5>2. KnowsAndStands(c)'
          BY <3>1, <5>1 DEF KnowsAndStands, KeyInv, CallsAreSound, At
        <5>. QED
          BY <5>1, <5>2, OneCallStep
      <4>. QED
        BY <2>10, <3>2, <4>1, DeleteStep DEF CleanUp, Undoes
    <3>3. CASE Undoes(c) /\ Goes(c, "littered") /\ UNCHANGED keystore
      BY <2>10, <3>1, <3>3, GoesStep, StageStep DEF CleanUp
    <3>4. CASE ~Undoes(c) /\ Goes(c, "failed") /\ UNCHANGED keystore
      BY <2>10, <3>1, <3>4, GoesStep, StageStep DEF CleanUp, Undoes
    <3>. QED
      BY <2>10, <3>2, <3>3, <3>4 DEF CleanUp
  <2>11. CASE Vanish(c)
    BY <2>11, GoesStep, StageStep DEF Vanish, UnderWay, At
  <2>12. QED
    BY <1>1, <2>1, <2>2, <2>3, <2>4, <2>5, <2>6, <2>7, <2>8, <2>9, <2>10, <2>11
       DEF CallStep
<1>2. ASSUME UNCHANGED vars
      PROVE  KeysAreFresh' /\ KeysAreGenerated' /\ KeysStayPut' /\ CallsAreSound'
  <2>1. UNCHANGED <<keystore, drawn, registry, call>>
    BY <1>2 DEF vars
  <2>2. \A d \in Call : SameKey(d)
    BY <2>1 DEF SameKey, KeyInv, CallsAreSound
  <2>3. \A i \in Installation : RegistersKnown(i)
    BY <2>1 DEF RegistersKnown
  <2>4. KeysAreFresh' /\ KeysAreGenerated' /\ KeysStayPut'
    BY <2>1, <2>2, <2>3, QuietStep
  <2>5. CallsAreSound'
    BY <2>1 DEF KeyInv, CallsAreSound, At, Candidate
  <2>. QED
    BY <2>4, <2>5
<1>3. TypeOK'
  BY TypeStep DEF KeyInv
<1>4. KeysAreFresh' /\ KeysAreGenerated' /\ KeysStayPut' /\ CallsAreSound'
  BY <1>1, <1>2 DEF Next
<1>5. QED
  BY <1>3, <1>4 DEF KeyInv

\* Where every key is, who generated it and what every call knows of it: the
\* inductive invariant behind the theorems that follow.
THEOREM KeyInvariant == Spec => []KeyInv
<1>1. Init => KeyInv
  <2>1. ASSUME Init
        PROVE  TypeOK
    BY <2>1, NoneAssumption DEF Init, TypeOK, Idle, Locals, Stage, UnderWay, At,
       NoIdentity, Identity, Reference
  <2>2. ASSUME Init
        PROVE  KeysAreFresh /\ KeysAreGenerated /\ KeysStayPut /\ CallsAreSound
    BY <2>2 DEF Init, Idle, NoIdentity, KeysAreFresh, KeysAreGenerated, KeysStayPut,
       CallsAreSound, At
  <2>. QED
    BY <2>1, <2>2 DEF KeyInv
<1>2. KeyInv /\ [Next]_vars => KeyInv'
  BY KeyStep
<1>3. QED
  BY <1>1, <1>2, PTL DEF Spec

\* Concurrent registrations converge on one identity, for any number of users,
\* installations and calls.
THEOREM RegistrationsConverge == Spec => []CallsConverge
<1>1. KeyInv => CallsConverge
  BY DEF KeyInv, CallsAreSound, CallsConverge, At
<1>2. QED
  BY <1>1, KeyInvariant, PTL

\* No failing call takes a key that another one bound.
THEOREM BoundKeysAreKept == Spec => []BoundKeyIsKept
<1>1. KeyInv => BoundKeyIsKept
  <2>1. ASSUME KeyInv, NEW i \in Installation, registry[i] # NoIdentity
        PROVE  \/ keystore[<<registry[i].actor, i>>] = registry[i].key
               \/ \E c \in Call : /\ At(c, "failed") /\ call[c].created
                                  /\ call[c].key = registry[i].key
    <3>1. PICK c \in Call : Generated(c, registry[i].actor, i, registry[i].key)
      BY <2>1 DEF KeyInv, KeysAreGenerated
    <3>. QED
      BY <2>1, <3>1 DEF KeyInv, KeysStayPut, Generated
  <2>. QED
    BY <2>1 DEF BoundKeyIsKept
<1>2. QED
  BY <1>1, KeyInvariant, PTL

\* Every key without an identity has a call to answer for it.
THEOREM OrphansExplained == Spec => []OrphansAreExplained
<1>1. KeyInv => OrphansAreExplained
  <2>1. ASSUME KeyInv, NEW a \in Actor, NEW i \in Installation,
               keystore[<<a, i>>] # None
        PROVE  \/ registry[i] = [actor |-> a, key |-> keystore[<<a, i>>]]
               \/ \E c \in Call :
                    /\ call[c].created /\ call[c].key = keystore[<<a, i>>]
                    /\ call[c].stage \in {"registering", "answered", "failing",
                                          "littered", "gone"}
    <3>1. PICK c \in Call : Generated(c, a, i, keystore[<<a, i>>])
      BY <2>1 DEF KeyInv, KeysAreGenerated
    <3>2. /\ call[c].created /\ call[c].key = keystore[<<a, i>>]
          /\ call[c].actor = a /\ call[c].installation = i
      BY <3>1 DEF Generated, Reference
    <3>3. call[c].stage \notin {"idle", "looking", "looked", "failed"}
      BY <2>1, <3>2 DEF KeyInv, CallsAreSound, KeysStayPut, At, Reference
    <3>4. CASE call[c].stage = "returned"
      BY <2>1, <3>2, <3>4 DEF KeyInv, CallsAreSound, At, Candidate
    <3>5. CASE call[c].stage # "returned"
      <4>1. call[c].stage \in Stage
        BY <2>1 DEF KeyInv, TypeOK, Locals
      <4>. QED
        BY <3>2, <3>3, <3>5, <4>1 DEF Stage, UnderWay
    <3>. QED
      BY <3>4, <3>5
  <2>. QED
    BY <2>1 DEF OrphansAreExplained
<1>2. QED
  BY <1>1, KeyInvariant, PTL
================================================================================
