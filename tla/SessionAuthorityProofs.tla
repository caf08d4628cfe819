------------------------ MODULE SessionAuthorityProofs ------------------------
(* Theorems about SessionAuthority, for any devices, calls, lifetimes, limits. *)
EXTENDS SessionAuthority, FiniteSetTheorems, TLAPS

\* A list after an append: the old places as before, and one more.
LEMMA AppendReads ==
    ASSUME NEW S, NEW s \in Seq(S), NEW e \in S
    PROVE  /\ Append(s, e) \in Seq(S)
           /\ Len(s) + 1 \notin DOMAIN s
           /\ Len(s) + 1 \in Nat \ {0}
           /\ DOMAIN Append(s, e) = DOMAIN s \cup {Len(s) + 1}
           /\ Append(s, e)[Len(s) + 1] = e
           /\ \A k \in DOMAIN s : Append(s, e)[k] = s[k] /\ s[k] \in S /\ k \in Nat \ {0}
OBVIOUS

\* Purging a dict drops keys and changes no entry.
LEMMA OnlyReads ==
    ASSUME NEW f, NEW S
    PROVE  /\ DOMAIN Only(f, S) = DOMAIN f \cap S
           /\ \A k \in DOMAIN f \cap S : Only(f, S)[k] = f[k]
BY DEF Only

--------------------------------------------------------------------------------
(* Types                                                                      *)

ChallengeShape ==
    /\ unissued \subseteq Challenge
    /\ DOMAIN challenges \subseteq Challenge \ unissued
    /\ \A c \in DOMAIN challenges : challenges[c] \in ChallengeRecord

SessionShape ==
    /\ epoch \in [Device -> Nat]
    /\ grants \in Seq(Grant)
    /\ DOMAIN sessions \subseteq DOMAIN grants
    /\ \A k \in DOMAIN sessions : sessions[k] \in SessionRecord
    /\ active \in [Device -> DOMAIN grants \cup {NoSession}]

NonceShape ==
    /\ DOMAIN seen \subseteq (DOMAIN grants) \X Nonce
    /\ \A key \in DOMAIN seen : seen[key] \in Nat
    /\ admitted \in Seq((DOMAIN grants) \X Nonce)

LoginShape ==
    /\ login \in [Login -> {IdleLogin} \cup BusyLogin]

CallShape ==
    /\ call \in [Request -> {IdleCall} \cup BusyCall]

Shapes ==
    /\ now \in Nat
    /\ ChallengeShape
    /\ SessionShape
    /\ NonceShape
    /\ LoginShape
    /\ CallShape

\* The challenge store within its limits.
Limits ==
    /\ IsFiniteSet(DOMAIN challenges)
    /\ Cardinality(DOMAIN challenges) <= MaxRecords
    /\ \A d \in Device :
           Cardinality({c \in DOMAIN challenges : challenges[c].device = d}) <= MaxPerDevice

LEMMA Numbers ==
    /\ ChallengeLifetime \in Nat /\ SessionLifetime \in Nat
    /\ Second \in Nat \ {0} /\ Leeway \in Nat
    /\ MaxRecords \in Nat /\ MaxPerDevice \in Nat
BY TimeAssumption, LimitAssumption

\* The second of a time is a number, and no later than the time.
LEMMA WholeSecondReads ==
    ASSUME NEW t \in Nat
    PROVE  WholeSecond(t) \in Nat
BY Numbers DEF WholeSecond

LEMMA InitShapes == Init => Shapes
<1> SUFFICES ASSUME Init PROVE Shapes
    OBVIOUS
<1>1. ChallengeShape
    BY DEF Init, ChallengeShape
<1>2. SessionShape
    BY DEF Init, SessionShape, NoSession
<1>3. NonceShape
    BY DEF Init, NonceShape
<1>4. LoginShape /\ CallShape
    BY DEF Init, LoginShape, CallShape
<1>5. QED
    BY <1>1, <1>2, <1>3, <1>4 DEF Init, Shapes

\* A step that lets grants alone and touches one group of variables.
LEMMA LoginKept ==
    ASSUME LoginShape, unissued' = unissued, NEW l \in Login,
           NEW r \in {IdleLogin} \cup BusyLogin, login' = [login EXCEPT ![l] = r]
    PROVE  LoginShape'
BY DEF LoginShape, BusyLogin, IdleLogin

LEMMA CallKept ==
    ASSUME CallShape, grants' = grants, NEW q \in Request,
           NEW r \in {IdleCall} \cup BusyCall, call' = [call EXCEPT ![q] = r]
    PROVE  CallShape'
BY DEF CallShape, BusyCall, IdleCall

LEMMA LoginTypes ==
    ASSUME LoginShape, NEW l \in Login, login[l].stage # "idle"
    PROVE  login[l] \in BusyLogin
BY DEF LoginShape, IdleLogin

LEMMA CallTypes ==
    ASSUME CallShape, NEW q \in Request, call[q].stage # "idle"
    PROVE  call[q] \in BusyCall
BY DEF CallShape, IdleCall

\* Every step keeps the types.
LEMMA IssueShapes ==
    ASSUME Shapes, NEW d \in Device, NEW c \in Challenge, Issue(d, c)
    PROVE  Shapes'
<1>1. challenges' = [x \in LiveChallenges \cup {c} |->
           IF x = c
           THEN [device |-> d, issued |-> now, expires |-> now + ChallengeLifetime]
           ELSE challenges[x]]
      /\ unissued' = unissued \ {c} /\ c \in unissued
    BY DEF Issue
<1>2. LiveChallenges \subseteq DOMAIN challenges
    BY DEF LiveChallenges
<1>3. [device |-> d, issued |-> now, expires |-> now + ChallengeLifetime] \in ChallengeRecord
    BY Numbers DEF Shapes, ChallengeRecord
<1>4. ChallengeShape'
    BY <1>1, <1>2, <1>3 DEF Shapes, ChallengeShape
<1>5. LoginShape'
    BY <1>1 DEF Issue, Shapes, LoginShape, BusyLogin
<1>6. SessionShape' /\ NonceShape' /\ CallShape' /\ now' \in Nat
    BY DEF Issue, authority, Shapes, SessionShape, NonceShape, CallShape, BusyCall
<1>7. QED
    BY <1>4, <1>5, <1>6 DEF Shapes

\* Purging or consuming challenges keeps their types.
LEMMA FewerChallenges ==
    ASSUME ChallengeShape, NEW S, challenges' = Only(challenges, S), unissued' = unissued
    PROVE  ChallengeShape'
<1>1. /\ DOMAIN challenges' = DOMAIN challenges \cap S
      /\ \A c \in DOMAIN challenges' : challenges'[c] = challenges[c]
    BY OnlyReads
<1>2. QED
    BY <1>1 DEF ChallengeShape

\* So does purging sessions.
LEMMA FewerSessions ==
    ASSUME SessionShape, NEW S, sessions' = Only(sessions, S),
           UNCHANGED <<epoch, active, grants>>
    PROVE  SessionShape'
<1>1. /\ DOMAIN sessions' = DOMAIN sessions \cap S
      /\ \A k \in DOMAIN sessions' : sessions'[k] = sessions[k]
    BY OnlyReads
<1>2. QED
    BY <1>1 DEF SessionShape

LEMMA RotateShapes ==
    ASSUME Shapes, NEW l \in Login, RotateSession(l)
    PROVE  Shapes'
<1> DEFINE d == login[l].device
           t == login[l].at
           next == login[l].epoch + 1
           id == Len(grants) + 1
           grant == [challenge |-> login[l].challenge, device |-> d, epoch |-> next,
                     exp |-> WholeSecond(t + SessionLifetime)]
           new == [device |-> d, status |-> "active", epoch |-> next,
                   expires |-> t + SessionLifetime]
<1>1. login[l] \in BusyLogin
    BY LoginTypes DEF Shapes, RotateSession
<1>2. d \in Device /\ t \in Nat /\ next \in Nat /\ t + SessionLifetime \in Nat
      /\ login[l].challenge \in Challenge
    BY <1>1, Numbers DEF BusyLogin
<1>3. grant \in Grant /\ new \in SessionRecord
    BY <1>1, <1>2, WholeSecondReads DEF BusyLogin, Grant, SessionRecord
<1>4. /\ grants' = Append(grants, grant)
      /\ epoch' = [epoch EXCEPT ![d] = next]
      /\ active' = [active EXCEPT ![d] = id]
      /\ sessions' = [k \in Kept(t) \cup {id} |->
             IF k = id THEN new
             ELSE IF k = active[d] THEN [sessions[k] EXCEPT !.status = "revoked"]
             ELSE sessions[k]]
      /\ login' = [login EXCEPT ![l] = IdleLogin]
      /\ UNCHANGED <<now, unissued, challenges, seen, call, admitted>>
    BY DEF RotateSession
<1>5. /\ grants' \in Seq(Grant)
      /\ DOMAIN grants' = DOMAIN grants \cup {id}
    BY <1>3, <1>4, AppendReads DEF Shapes, SessionShape
<1>6. Kept(t) \subseteq DOMAIN sessions
    BY DEF Kept
<1>7. \A k \in DOMAIN sessions' : sessions'[k] \in SessionRecord
    BY <1>3, <1>4, <1>6 DEF Shapes, SessionShape, SessionRecord
<1>8. SessionShape'
    BY <1>2, <1>4, <1>5, <1>6, <1>7 DEF Shapes, SessionShape
<1>9. NonceShape'
  <2>1. (DOMAIN grants) \X Nonce \subseteq (DOMAIN grants') \X Nonce
      BY <1>5
  <2>2. seen' = seen /\ admitted' = admitted
      BY <1>4
  <2>3. admitted \in Seq((DOMAIN grants') \X Nonce)
      BY <2>1 DEF Shapes, NonceShape
  <2>4. QED
      BY <2>1, <2>2, <2>3 DEF Shapes, NonceShape
<1>10. CallShape'
    BY <1>4, <1>5 DEF Shapes, CallShape, BusyCall
<1>11. LoginShape'
    BY <1>4, LoginKept DEF Shapes
<1>12. QED
    BY <1>4, <1>8, <1>9, <1>10, <1>11 DEF Shapes, ChallengeShape

LEMMA LoginShapes ==
    ASSUME Shapes, NEW l \in Login, LoginStep(l)
    PROVE  Shapes'
<1>1. ASSUME NEW c \in Challenge, LoadChallenge(l, c) PROVE Shapes'
  <2> DEFINE r == [stage |-> "loaded", challenge |-> c, device |-> challenges[c].device,
                   at |-> now, epoch |-> 0]
  <2>1. r \in BusyLogin
      BY <1>1 DEF LoadChallenge, Shapes, ChallengeShape, ChallengeRecord, BusyLogin
  <2>2. LoginShape'
      BY <1>1, <2>1, LoginKept DEF LoadChallenge, Shapes
  <2>3. QED
      BY <1>1, <2>2 DEF LoadChallenge, authority, Shapes, ChallengeShape, SessionShape,
                        NonceShape, CallShape, BusyCall
<1>2. ASSUME GetDevice(l) PROVE Shapes'
  <2> DEFINE r == [login[l] EXCEPT !.stage = "verified", !.epoch = epoch[login[l].device]]
  <2>1. login[l] \in BusyLogin
      BY <1>2, LoginTypes DEF GetDevice, Shapes
  <2>2. r \in BusyLogin
      BY <2>1 DEF BusyLogin, Shapes, SessionShape
  <2>3. login' = [login EXCEPT ![l] = r]
      BY <1>2 DEF GetDevice, Shapes, LoginShape
  <2>4. LoginShape'
      BY <1>2, <2>2, <2>3, LoginKept DEF GetDevice, Shapes
  <2>5. QED
      BY <1>2, <2>4 DEF GetDevice, authority, Shapes, ChallengeShape, SessionShape,
                        NonceShape, CallShape, BusyCall
<1>3. ASSUME ConsumeChallenge(l) PROVE Shapes'
  <2> DEFINE r == [login[l] EXCEPT !.stage = "consumed"]
  <2>1. login[l] \in BusyLogin
      BY <1>3, LoginTypes DEF ConsumeChallenge, Shapes
  <2>2. r \in BusyLogin
      BY <2>1 DEF BusyLogin
  <2>3. login' = [login EXCEPT ![l] = r]
      BY <1>3 DEF ConsumeChallenge, Shapes, LoginShape
  <2>4. LoginShape'
      BY <1>3, <2>2, <2>3, LoginKept DEF ConsumeChallenge, Shapes
  <2>5. ChallengeShape'
      BY <1>3, FewerChallenges DEF ConsumeChallenge, Consumed, Shapes
  <2>6. QED
      BY <1>3, <2>4, <2>5 DEF ConsumeChallenge, authority, Shapes, SessionShape,
                        NonceShape, CallShape, BusyCall
<1>4. CASE RotateSession(l)
    BY <1>4, RotateShapes
<1>5. ASSUME RotationConflicts(l) PROVE Shapes'
  <2>1. SessionShape'
      BY <1>5, FewerSessions DEF RotationConflicts, Shapes
  <2>2. LoginShape'
      BY <1>5, LoginKept DEF RotationConflicts, Shapes
  <2>3. QED
      BY <1>5, <2>1, <2>2 DEF RotationConflicts, Shapes, ChallengeShape, NonceShape,
                              CallShape, BusyCall
<1>6. ASSUME ProofRefused(l) \/ LoginFails(l) PROVE Shapes'
  <2>1. LoginShape'
      BY <1>6, LoginKept DEF ProofRefused, LoginFails, Shapes
  <2>2. QED
      BY <1>6, <2>1 DEF ProofRefused, LoginFails, authority, Shapes, ChallengeShape,
                        SessionShape, NonceShape, CallShape, BusyCall
<1>7. QED
    BY <1>1, <1>2, <1>3, <1>4, <1>5, <1>6 DEF LoginStep

LEMMA GrantTypes ==
    ASSUME SessionShape, NEW k \in DOMAIN grants
    PROVE  /\ grants[k].device \in Device /\ grants[k].challenge \in Challenge
           /\ grants[k].epoch \in Nat /\ grants[k].exp \in Nat
           /\ k \in Nat \ {0}
<1>1. grants[k] \in Grant /\ k \in Nat \ {0}
    BY DEF SessionShape
<1>2. QED
    BY <1>1 DEF Grant

\* An admission records the nonce under its session.
LEMMA AdmitShapes ==
    ASSUME Shapes, NEW q \in Request, Admit(q)
    PROVE  Shapes'
<1> DEFINE exp == grants[call[q].token].exp
<1>1. call[q] \in BusyCall
    BY CallTypes DEF Admit, Shapes
<1>2. Key(q) \in (DOMAIN grants) \X Nonce /\ call[q].token \in DOMAIN grants
    BY <1>1 DEF BusyCall, Key
<1>3. exp \in Nat
    BY <1>2, GrantTypes DEF Shapes
<1>4. /\ seen' = [key \in Remembered \cup {Key(q)} |-> IF key = Key(q) THEN exp ELSE seen[key]]
      /\ admitted' = IF now < exp THEN Append(admitted, Key(q)) ELSE admitted
      /\ call' = [call EXCEPT ![q] = IdleCall]
      /\ UNCHANGED <<now, unissued, challenges, authority, login>>
    BY DEF Admit
<1>5. Remembered \subseteq DOMAIN seen
    BY DEF Remembered
<1>6. admitted' \in Seq((DOMAIN grants) \X Nonce)
    BY <1>2, <1>4, AppendReads DEF Shapes, NonceShape
<1>7. /\ DOMAIN seen' = Remembered \cup {Key(q)}
      /\ \A key \in DOMAIN seen' : seen'[key] \in Nat
    BY <1>3, <1>4, <1>5 DEF Shapes, NonceShape
<1>8. NonceShape'
    BY <1>2, <1>4, <1>5, <1>6, <1>7 DEF Shapes, NonceShape, authority
<1>9. CallShape'
    BY <1>4, CallKept DEF Shapes, authority
<1>10. QED
    BY <1>4, <1>8, <1>9 DEF Shapes, authority, ChallengeShape, SessionShape, LoginShape, BusyLogin

LEMMA CallShapes ==
    ASSUME Shapes, NEW q \in Request, CallStep(q)
    PROVE  Shapes'
<1>1. ASSUME NEW k \in DOMAIN grants, NEW n \in Nonce, Present(q, k, n) PROVE Shapes'
  <2> DEFINE r == [stage |-> "decoded", token |-> k, nonce |-> n, epoch |-> 0,
                   current |-> active[grants[k].device] = k]
  <2>1. r \in BusyCall
      BY DEF BusyCall
  <2>2. CallShape'
      BY <1>1, <2>1, CallKept DEF Present, authority, Shapes
  <2>3. QED
      BY <1>1, <2>2 DEF Present, authority, Shapes, ChallengeShape, SessionShape,
                        NonceShape, LoginShape, BusyLogin
<1>2. ASSUME ReadDevice(q) PROVE Shapes'
  <2> DEFINE r == [call[q] EXCEPT !.stage = "device", !.epoch = epoch[TokenDevice(q)]]
  <2>1. call[q] \in BusyCall
      BY <1>2, CallTypes DEF ReadDevice, Shapes
  <2>2. TokenDevice(q) \in Device
      BY <2>1, GrantTypes DEF TokenDevice, BusyCall, Shapes
  <2>3. r \in BusyCall
      BY <2>1, <2>2 DEF BusyCall, Shapes, SessionShape
  <2>4. call' = [call EXCEPT ![q] = r]
      BY <1>2 DEF ReadDevice, Shapes, CallShape
  <2>5. CallShape'
      BY <1>2, <2>3, <2>4, CallKept DEF ReadDevice, authority, Shapes
  <2>6. QED
      BY <1>2, <2>5 DEF ReadDevice, authority, Shapes, ChallengeShape, SessionShape,
                        NonceShape, LoginShape, BusyLogin
<1>3. ASSUME ReadSession(q) PROVE Shapes'
  <2> DEFINE r == [call[q] EXCEPT !.stage = "checked"]
  <2>1. call[q] \in BusyCall
      BY <1>3, CallTypes DEF ReadSession, Shapes
  <2>2. r \in BusyCall
      BY <2>1 DEF BusyCall
  <2>3. call' = [call EXCEPT ![q] = r]
      BY <1>3 DEF ReadSession, Shapes, CallShape
  <2>4. CallShape'
      BY <1>3, <2>2, <2>3, CallKept DEF ReadSession, authority, Shapes
  <2>5. QED
      BY <1>3, <2>4 DEF ReadSession, authority, Shapes, ChallengeShape, SessionShape,
                        NonceShape, LoginShape, BusyLogin
<1>4. CASE Admit(q)
    BY <1>4, AdmitShapes
<1>5. ASSUME RefuseReplay(q) PROVE Shapes'
  <2>1. CallShape'
      BY <1>5, CallKept DEF RefuseReplay, authority, Shapes
  <2>2. /\ DOMAIN seen' = DOMAIN seen \cap Remembered
        /\ \A key \in DOMAIN seen' : seen'[key] = seen[key]
      BY <1>5, OnlyReads DEF RefuseReplay
  <2>3. NonceShape'
      BY <1>5, <2>2 DEF RefuseReplay, authority, Shapes, NonceShape
  <2>4. QED
      BY <1>5, <2>1, <2>3 DEF RefuseReplay, authority, Shapes, ChallengeShape, SessionShape,
                        LoginShape, BusyLogin
<1>6. ASSUME RefuseCall(q) PROVE Shapes'
  <2>1. CallShape'
      BY <1>6, CallKept DEF RefuseCall, authority, Shapes
  <2>2. QED
      BY <1>6, <2>1 DEF RefuseCall, authority, Shapes, ChallengeShape, SessionShape,
                        NonceShape, LoginShape, BusyLogin
<1>7. QED
    BY <1>1, <1>2, <1>3, <1>4, <1>5, <1>6 DEF CallStep

LEMMA NextShapes ==
    ASSUME Shapes, [Next]_vars
    PROVE  Shapes'
<1>1. ASSUME Tick PROVE Shapes'
    BY <1>1 DEF Tick, authority, Shapes, ChallengeShape, SessionShape, NonceShape,
                LoginShape, BusyLogin, CallShape, BusyCall
<1>2. ASSUME NEW d \in Device, IssueRefused(d) PROVE Shapes'
  <2>1. ChallengeShape'
      BY <1>2, FewerChallenges DEF IssueRefused, Shapes
  <2>2. QED
      BY <1>2, <2>1 DEF IssueRefused, authority, Shapes, SessionShape, NonceShape,
                LoginShape, BusyLogin, CallShape, BusyCall
<1>3. CASE UNCHANGED vars
    BY <1>3 DEF vars, authority, Shapes, ChallengeShape, SessionShape, NonceShape,
                LoginShape, BusyLogin, CallShape, BusyCall
<1>4. QED
    BY <1>1, <1>2, <1>3, IssueShapes, LoginShapes, CallShapes DEF Next, IssueStep

--------------------------------------------------------------------------------
(* The limits of the challenge store                                          *)

LEMMA InitLimits == Init => Limits
<1> SUFFICES ASSUME Init PROVE Limits
    OBVIOUS
<1>1. DOMAIN challenges = {} /\ \A d \in Device : {c \in DOMAIN challenges : challenges[c].device = d} = {}
    BY DEF Init
<1>2. IsFiniteSet({}) /\ Cardinality({}) = 0
    BY FS_EmptySet
<1>3. QED
    BY <1>1, <1>2, Numbers DEF Limits

\* A smaller store is within the limits, too.
LEMMA FewerLimits ==
    ASSUME Limits, DOMAIN challenges' \subseteq DOMAIN challenges,
           \A c \in DOMAIN challenges' : challenges'[c] = challenges[c]
    PROVE  Limits'
<1>1. IsFiniteSet(DOMAIN challenges') /\ Cardinality(DOMAIN challenges') <= Cardinality(DOMAIN challenges)
      /\ Cardinality(DOMAIN challenges') \in Nat /\ Cardinality(DOMAIN challenges) \in Nat
    BY FS_Subset, FS_CardinalityType DEF Limits
<1>2. ASSUME NEW d \in Device
      PROVE  Cardinality({c \in DOMAIN challenges' : challenges'[c].device = d}) <= MaxPerDevice
  <2> DEFINE S == {c \in DOMAIN challenges : challenges[c].device = d}
             T == {c \in DOMAIN challenges' : challenges'[c].device = d}
  <2>1. T \subseteq S /\ S \subseteq DOMAIN challenges
      OBVIOUS
  <2>2. IsFiniteSet(S)
      BY <2>1, FS_Subset DEF Limits
  <2>3. Cardinality(T) <= Cardinality(S) /\ Cardinality(T) \in Nat /\ Cardinality(S) \in Nat
      BY <2>1, <2>2, FS_Subset, FS_CardinalityType
  <2>4. Cardinality(S) <= MaxPerDevice
      BY DEF Limits
  <2>5. QED
      BY <2>3, <2>4, Numbers
<1>3. QED
    BY <1>1, <1>2, Numbers DEF Limits

LEMMA IssueLimits ==
    ASSUME Limits, NEW d \in Device, NEW c \in Challenge, Issue(d, c)
    PROVE  Limits'
<1> DEFINE L == LiveChallenges
<1>1. L \subseteq DOMAIN challenges /\ MayIssue(d)
      /\ DOMAIN challenges' = L \cup {c}
      /\ challenges'[c].device = d
      /\ \A x \in L \ {c} : challenges'[x] = challenges[x]
    BY DEF LiveChallenges, Issue
<1>2. IsFiniteSet(L) /\ IsFiniteSet(L \cup {c}) /\ Cardinality(L) \in Nat
      /\ Cardinality(L \cup {c}) \in Nat /\ Cardinality(L \cup {c}) <= Cardinality(L) + 1
    BY <1>1, FS_Subset, FS_AddElement, FS_CardinalityType DEF Limits
<1>3. Cardinality(L \cup {c}) <= MaxRecords
    BY <1>1, <1>2, Numbers DEF MayIssue
<1>4. ASSUME NEW e \in Device
      PROVE  Cardinality({x \in DOMAIN challenges' : challenges'[x].device = e}) <= MaxPerDevice
  <2> DEFINE T == {x \in DOMAIN challenges' : challenges'[x].device = e}
             S == {x \in DOMAIN challenges : challenges[x].device = e}
  <2>1. CASE e = d
    <3>1. T \subseteq OfDevice(d) \cup {c} /\ OfDevice(d) \subseteq L
        BY <1>1, <2>1 DEF OfDevice
    <3>2. IsFiniteSet(OfDevice(d)) /\ Cardinality(OfDevice(d)) \in Nat
        BY <1>2, <3>1, FS_Subset, FS_CardinalityType
    <3>3. IsFiniteSet(OfDevice(d) \cup {c})
          /\ Cardinality(OfDevice(d) \cup {c}) \in Nat
          /\ Cardinality(OfDevice(d) \cup {c}) <= Cardinality(OfDevice(d)) + 1
        BY <3>2, FS_AddElement, FS_CardinalityType
    <3>4. Cardinality(T) \in Nat /\ Cardinality(T) <= Cardinality(OfDevice(d) \cup {c})
        BY <3>1, <3>3, FS_Subset, FS_CardinalityType
    <3>5. QED
        BY <1>1, <3>2, <3>3, <3>4, Numbers DEF MayIssue
  <2>2. CASE e # d
    <3>1. T \subseteq S /\ S \subseteq DOMAIN challenges
        BY <1>1, <2>2
    <3>2. IsFiniteSet(S) /\ Cardinality(S) \in Nat /\ Cardinality(S) <= MaxPerDevice
        BY <3>1, FS_Subset, FS_CardinalityType DEF Limits
    <3>3. Cardinality(T) \in Nat /\ Cardinality(T) <= Cardinality(S)
        BY <3>1, <3>2, FS_Subset, FS_CardinalityType
    <3>4. QED
        BY <3>2, <3>3, Numbers
  <2>3. QED
      BY <2>1, <2>2
<1>5. QED
    BY <1>1, <1>2, <1>3, <1>4 DEF Limits

LEMMA NextLimits ==
    ASSUME Limits, [Next]_vars
    PROVE  Limits'
<1>1. ASSUME UNCHANGED challenges PROVE Limits'
    BY <1>1 DEF Limits
<1>2. ASSUME NEW S, challenges' = Only(challenges, S) PROVE Limits'
  <2>1. DOMAIN challenges' \subseteq DOMAIN challenges
        /\ \A c \in DOMAIN challenges' : challenges'[c] = challenges[c]
      BY <1>2, OnlyReads
  <2>2. QED
      BY <2>1, FewerLimits
<1>3. ASSUME NEW d \in Device, IssueRefused(d) PROVE Limits'
    BY <1>2, <1>3 DEF IssueRefused
<1>4. ASSUME NEW l \in Login, LoginStep(l) PROVE Limits'
  <2>1. ASSUME ConsumeChallenge(l) PROVE Limits'
      BY <1>2, <2>1 DEF ConsumeChallenge, Consumed
  <2>2. QED
      BY <1>1, <1>4, <2>1 DEF LoginStep, LoadChallenge, GetDevice, RotateSession,
                              RotationConflicts, ProofRefused, LoginFails
<1>5. ASSUME NEW q \in Request, CallStep(q) PROVE UNCHANGED challenges
    BY <1>5 DEF CallStep, Present, ReadDevice, ReadSession, Admit, RefuseReplay, RefuseCall
<1>6. Tick \/ UNCHANGED vars => UNCHANGED challenges
    BY DEF Tick, vars
<1>7. QED
    BY <1>1, <1>3, <1>4, <1>5, <1>6, IssueLimits DEF Next, IssueStep

\* Every reachable state is well typed and the challenge store keeps to both of
\* its limits, for any devices, calls and lifetimes.
THEOREM TypeCorrect == Spec => []TypeOK
<1> DEFINE Both == Shapes /\ Limits
<1>1. Init => Both
    BY InitShapes, InitLimits
<1>2. Both /\ [Next]_vars => Both'
    BY NextShapes, NextLimits
<1>3. Both => TypeOK
    BY DEF Shapes, ChallengeShape, SessionShape, NonceShape, LoginShape, CallShape, Limits, TypeOK
<1>4. QED
    BY <1>1, <1>2, <1>3, PTL DEF Spec

--------------------------------------------------------------------------------
(* Sessions and the requests of them                                          *)

\* What a rotation does, with its types.
LEMMA RotateReads ==
    ASSUME Shapes, NEW l \in Login, RotateSession(l)
    PROVE  LET d == login[l].device
               id == Len(grants) + 1
               next == login[l].epoch + 1
           IN  /\ d \in Device /\ login[l].epoch = epoch[d] /\ next \in Nat
               /\ id \notin DOMAIN grants /\ id \notin DOMAIN sessions /\ id # NoSession
               /\ grants' \in Seq(Grant)
               /\ DOMAIN grants' = DOMAIN grants \cup {id}
               /\ \A k \in DOMAIN grants : grants'[k] = grants[k]
               /\ grants'[id].device = d /\ grants'[id].epoch = next
               /\ grants'[id].challenge = login[l].challenge
               /\ epoch' = [epoch EXCEPT ![d] = next]
               /\ active' = [active EXCEPT ![d] = id]
               /\ DOMAIN sessions' = Kept(login[l].at) \cup {id}
               /\ sessions'[id].device = d /\ sessions'[id].status = "active"
               /\ sessions'[id].epoch = next
               /\ \A k \in Kept(login[l].at) :
                      /\ sessions'[k].device = sessions[k].device
                      /\ sessions'[k].epoch = sessions[k].epoch
                      /\ sessions'[k].status =
                             IF k = active[d] THEN "revoked" ELSE sessions[k].status
<1> DEFINE d == login[l].device
           t == login[l].at
           next == login[l].epoch + 1
           id == Len(grants) + 1
           grant == [challenge |-> login[l].challenge, device |-> d, epoch |-> next,
                     exp |-> WholeSecond(t + SessionLifetime)]
<1>1. login[l] \in BusyLogin
    BY LoginTypes DEF Shapes, RotateSession
<1>2. d \in Device /\ t \in Nat /\ next \in Nat /\ t + SessionLifetime \in Nat
      /\ login[l].challenge \in Challenge
    BY <1>1, Numbers DEF BusyLogin
<1>3. grant \in Grant
    BY <1>1, <1>2, WholeSecondReads DEF BusyLogin, Grant
<1>4. login[l].epoch = epoch[d] /\ grants' = Append(grants, grant)
      /\ epoch' = [epoch EXCEPT ![d] = next] /\ active' = [active EXCEPT ![d] = id]
    BY DEF RotateSession, MayRotate
<1>5. /\ grants' \in Seq(Grant)
      /\ id \notin DOMAIN grants /\ id # NoSession
      /\ DOMAIN grants' = DOMAIN grants \cup {id}
      /\ \A k \in DOMAIN grants : grants'[k] = grants[k]
      /\ grants'[id] = grant
    BY <1>3, <1>4, AppendReads DEF Shapes, SessionShape, NoSession
<1>6. id \notin DOMAIN sessions /\ Kept(t) \subseteq DOMAIN sessions
    BY <1>5 DEF Shapes, SessionShape, Kept
<1>7. /\ DOMAIN sessions' = Kept(t) \cup {id}
      /\ sessions'[id] = [device |-> d, status |-> "active", epoch |-> next,
                          expires |-> t + SessionLifetime]
      /\ \A k \in Kept(t) : sessions'[k] = IF k = active[d]
                                           THEN [sessions[k] EXCEPT !.status = "revoked"]
                                           ELSE sessions[k]
    BY <1>6 DEF RotateSession
<1>8. \A k \in Kept(t) : sessions[k] \in SessionRecord
    BY <1>6 DEF Shapes, SessionShape
<1>9. \A k \in Kept(t) :
          /\ sessions'[k].device = sessions[k].device
          /\ sessions'[k].epoch = sessions[k].epoch
          /\ sessions'[k].status = IF k = active[d] THEN "revoked" ELSE sessions[k].status
    BY <1>7, <1>8 DEF SessionRecord
<1>10. QED
    BY <1>2, <1>4, <1>5, <1>6, <1>7, <1>9

\* A purge at any time keeps the sessions that are active.
LEMMA KeptActive ==
    ASSUME NEW t, NEW k \in DOMAIN sessions, sessions[k].status = "active"
    PROVE  k \in Kept(t)
BY DEF Kept

LEMMA RotateOneActive ==
    ASSUME Shapes, OneActiveSession, NEW l \in Login, RotateSession(l)
    PROVE  OneActiveSession'
<1> DEFINE d == login[l].device
           t == login[l].at
           id == Len(grants) + 1
<1>1. /\ d \in Device /\ id \notin DOMAIN sessions
      /\ epoch' = [epoch EXCEPT ![d] = login[l].epoch + 1]
      /\ active' = [active EXCEPT ![d] = id]
      /\ DOMAIN sessions' = Kept(t) \cup {id}
      /\ sessions'[id].device = d /\ sessions'[id].status = "active"
      /\ sessions'[id].epoch = login[l].epoch + 1
      /\ \A k \in Kept(t) :
             /\ sessions'[k].device = sessions[k].device
             /\ sessions'[k].epoch = sessions[k].epoch
             /\ sessions'[k].status = IF k = active[d] THEN "revoked" ELSE sessions[k].status
      /\ Kept(t) \subseteq DOMAIN sessions
    BY RotateReads DEF Kept
<1>2. epoch \in [Device -> Nat] /\ DOMAIN active = Device
    BY DEF Shapes, SessionShape
<1>3. ASSUME NEW e \in Device, active'[e] # NoSession
      PROVE  /\ active'[e] \in DOMAIN sessions'
             /\ sessions'[active'[e]].device = e
             /\ sessions'[active'[e]].status = "active"
             /\ sessions'[active'[e]].epoch = epoch'[e]
  <2>1. CASE e = d
      BY <1>1, <1>2, <2>1
  <2>2. CASE e # d
    <3>1. active'[e] = active[e] /\ epoch'[e] = epoch[e]
        BY <1>1, <1>2, <2>2
    <3>2. /\ active[e] \in DOMAIN sessions
          /\ sessions[active[e]].device = e
          /\ sessions[active[e]].status = "active"
          /\ sessions[active[e]].epoch = epoch[e]
        BY <1>3, <3>1 DEF OneActiveSession
    <3>3. active[e] \in Kept(t)
        BY <3>2, KeptActive
    <3>4. active[e] # active[d]
      <4>1. active[d] # NoSession => sessions[active[d]].device = d
          BY <1>1 DEF OneActiveSession
      <4>2. QED
          BY <1>3, <2>2, <3>1, <3>2, <4>1
    <3>5. QED
        BY <1>1, <3>1, <3>2, <3>3, <3>4
  <2>3. QED
      BY <2>1, <2>2
<1>4. ASSUME NEW k \in DOMAIN sessions', sessions'[k].status = "active"
      PROVE  active'[sessions'[k].device] = k
  <2>1. CASE k = id
      BY <1>1, <1>2, <2>1
  <2>2. CASE k # id
    <3>1. k \in Kept(t) /\ k \in DOMAIN sessions /\ k # active[d]
          /\ sessions[k].status = "active" /\ sessions'[k].device = sessions[k].device
        BY <1>1, <1>4, <2>2
    <3>2. active[sessions[k].device] = k /\ sessions[k].device \in Device
        BY <3>1 DEF OneActiveSession, Shapes, SessionShape, SessionRecord
    <3>3. QED
        BY <1>1, <1>2, <3>1, <3>2
  <2>3. QED
      BY <2>1, <2>2
<1>5. QED
    BY <1>3, <1>4 DEF OneActiveSession

LEMMA ConflictOneActive ==
    ASSUME Shapes, OneActiveSession, NEW l \in Login, RotationConflicts(l)
    PROVE  OneActiveSession'
<1>1. /\ DOMAIN sessions' = DOMAIN sessions \cap Kept(login[l].at)
      /\ \A k \in DOMAIN sessions' : sessions'[k] = sessions[k]
      /\ UNCHANGED <<epoch, active>>
    BY OnlyReads DEF RotationConflicts
<1>2. QED
    BY <1>1, KeptActive DEF OneActiveSession

\* The session of a busy request is the device's own only if it was so when the
\* request came: a session that has been replaced never comes back.
CurrentIsRemembered ==
    \A q \in Request :
        call[q].stage # "idle" /\ active[TokenDevice(q)] = call[q].token => call[q].current

LEMMA RotateCurrent ==
    ASSUME Shapes, CurrentIsRemembered, NEW l \in Login, RotateSession(l)
    PROVE  CurrentIsRemembered'
<1> DEFINE id == Len(grants) + 1
<1>1. /\ login[l].device \in Device /\ id \notin DOMAIN grants
      /\ active' = [active EXCEPT ![login[l].device] = id]
      /\ \A k \in DOMAIN grants : grants'[k] = grants[k]
    BY RotateReads
<1>2. call' = call
    BY DEF RotateSession
<1>3. ASSUME NEW q \in Request, call[q].stage # "idle", active'[TokenDevice(q)'] = call[q].token
      PROVE  call[q].current
  <2>1. call[q] \in BusyCall
      BY <1>3, CallTypes DEF Shapes
  <2>2. call[q].token \in DOMAIN grants
      BY <2>1 DEF BusyCall
  <2>3. TokenDevice(q)' = TokenDevice(q) /\ TokenDevice(q) \in Device
      BY <1>1, <1>2, <2>2, GrantTypes DEF TokenDevice, Shapes
  <2>4. active[TokenDevice(q)] = call[q].token
      BY <1>1, <1>3, <2>2, <2>3 DEF Shapes, SessionShape
  <2>5. QED
      BY <1>3, <2>4 DEF CurrentIsRemembered
<1>4. QED
    BY <1>2, <1>3 DEF CurrentIsRemembered

\* The three together are inductive.
SessionInv == OneActiveSession /\ CurrentIsRemembered /\ AdmittedWasCurrent

LEMMA CallSessions ==
    ASSUME Shapes, SessionInv, NEW q \in Request, CallStep(q)
    PROVE  SessionInv'
<1>1. UNCHANGED authority
    BY DEF CallStep, Present, ReadDevice, ReadSession, Admit, RefuseReplay, RefuseCall
<1>2. OneActiveSession'
    BY <1>1 DEF authority, OneActiveSession, SessionInv
<1>3. ASSUME NEW p \in Request \ {q} PROVE call'[p] = call[p]
    BY DEF CallStep, Present, ReadDevice, ReadSession, Admit, RefuseReplay, RefuseCall, Shapes, CallShape
<1>4. ASSUME NEW p \in Request \ {q}
      PROVE  /\ call'[p].stage # "idle" /\ active'[TokenDevice(p)'] = call'[p].token => call'[p].current
             /\ call'[p].stage = "checked" => call'[p].current
    BY <1>1, <1>3 DEF authority, TokenDevice, SessionInv, CurrentIsRemembered, AdmittedWasCurrent
<1>5. /\ call'[q].stage # "idle" /\ active'[TokenDevice(q)'] = call'[q].token => call'[q].current
      /\ call'[q].stage = "checked" => call'[q].current
  <2>1. ASSUME NEW k \in DOMAIN grants, NEW n \in Nonce, Present(q, k, n)
        PROVE  call'[q].token = k /\ call'[q].stage = "decoded"
               /\ call'[q].current = (active[grants[k].device] = k)
      BY <2>1 DEF Present, Shapes, CallShape
  <2>2. ASSUME ReadDevice(q)
        PROVE  call'[q].token = call[q].token /\ call'[q].stage = "device"
               /\ call'[q].current = call[q].current /\ call[q].stage # "idle"
    <3>1. call[q] \in BusyCall
        BY <2>2, CallTypes DEF ReadDevice, Shapes
    <3>2. QED
        BY <2>2, <3>1 DEF ReadDevice, Shapes, CallShape, BusyCall
  <2>3. ASSUME ReadSession(q)
        PROVE  call'[q].token = call[q].token /\ call'[q].current = call[q].current
               /\ call[q].stage # "idle" /\ active[TokenDevice(q)] = call[q].token
    <3>1. call[q] \in BusyCall
        BY <2>3, CallTypes DEF ReadSession, Shapes
    <3>2. active[TokenDevice(q)] = call[q].token
        BY <2>3 DEF ReadSession, ValidRecords, SessionInv, OneActiveSession
    <3>3. QED
        BY <2>3, <3>1, <3>2 DEF ReadSession, Shapes, CallShape, BusyCall
  <2>4. ASSUME Admit(q) \/ RefuseReplay(q) \/ RefuseCall(q) PROVE call'[q].stage = "idle"
      BY <2>4 DEF Admit, RefuseReplay, RefuseCall, IdleCall, Shapes, CallShape
  <2>5. CASE \E k \in DOMAIN grants, n \in Nonce : Present(q, k, n)
      BY <1>1, <2>1, <2>5 DEF authority, TokenDevice
  <2>6. CASE ReadDevice(q)
      BY <1>1, <2>2, <2>6 DEF authority, TokenDevice, SessionInv, CurrentIsRemembered
  <2>7. CASE ReadSession(q)
      BY <1>1, <2>3, <2>7 DEF authority, TokenDevice, SessionInv, CurrentIsRemembered
  <2>8. QED
      BY <2>4, <2>5, <2>6, <2>7 DEF CallStep
<1>6. QED
    BY <1>2, <1>4, <1>5 DEF SessionInv, CurrentIsRemembered, AdmittedWasCurrent

LEMMA NextSessions ==
    ASSUME Shapes, SessionInv, [Next]_vars
    PROVE  SessionInv'
<1>1. ASSUME UNCHANGED authority, UNCHANGED call PROVE SessionInv'
    BY <1>1 DEF authority, SessionInv, OneActiveSession, CurrentIsRemembered, AdmittedWasCurrent,
                TokenDevice
<1>2. ASSUME NEW l \in Login, LoginStep(l) PROVE SessionInv'
  <2>1. ASSUME RotateSession(l) PROVE SessionInv'
    <3>1. call' = call
        BY <2>1 DEF RotateSession
    <3>2. QED
        BY <2>1, <3>1, RotateOneActive, RotateCurrent DEF SessionInv, AdmittedWasCurrent
  <2>2. ASSUME RotationConflicts(l) PROVE SessionInv'
    <3>1. UNCHANGED <<call, active, grants>>
        BY <2>2 DEF RotationConflicts
    <3>2. QED
        BY <2>2, <3>1, ConflictOneActive DEF SessionInv, AdmittedWasCurrent, CurrentIsRemembered,
                                             TokenDevice
  <2>3. QED
      BY <1>1, <1>2, <2>1, <2>2 DEF LoginStep, LoadChallenge, GetDevice, ConsumeChallenge,
                                    ProofRefused, LoginFails
<1>3. Tick \/ IssueStep \/ UNCHANGED vars => UNCHANGED authority /\ UNCHANGED call
    BY DEF Tick, IssueStep, Issue, IssueRefused, vars
<1>4. QED
    BY <1>1, <1>2, <1>3, CallSessions DEF Next

LEMMA InitSessions == Init => SessionInv
BY DEF Init, SessionInv, OneActiveSession, CurrentIsRemembered, AdmittedWasCurrent, IdleCall

\* A device has one active session at most, and its record is there to be
\* revoked when the next login rotates it.
THEOREM OneSessionPerDevice == Spec => []OneActiveSession
<1>1. Init => Shapes /\ SessionInv
    BY InitShapes, InitSessions
<1>2. Shapes /\ SessionInv /\ [Next]_vars => (Shapes /\ SessionInv)'
    BY NextShapes, NextSessions
<1>3. SessionInv => OneActiveSession
    BY DEF SessionInv
<1>4. QED
    BY <1>1, <1>2, <1>3, PTL DEF Spec

\* No request that came after its session had been replaced passes the checks,
\* whatever happens between its reads of the device and of the session.
THEOREM RequestsAreCurrent == Spec => []AdmittedWasCurrent
<1>1. Init => Shapes /\ SessionInv
    BY InitShapes, InitSessions
<1>2. Shapes /\ SessionInv /\ [Next]_vars => (Shapes /\ SessionInv)'
    BY NextShapes, NextSessions
<1>3. SessionInv => AdmittedWasCurrent
    BY DEF SessionInv
<1>4. QED
    BY <1>1, <1>2, <1>3, PTL DEF Spec
--------------------------------------------------------------------------------
(* Challenges and epochs                                                      *)

\* A challenge that was granted, or that a login has consumed, is neither in
\* the store nor to be drawn again.
GrantedIsGone ==
    \A k \in DOMAIN grants : grants[k].challenge \notin DOMAIN challenges \cup unissued

ChallengeInv == ChallengeGrantsOnce /\ GrantedIsGone

\* A step that grants nothing, lets nobody consume and puts back no challenge.
LEMMA NothingGranted ==
    ASSUME ChallengeInv, grants' = grants,
           DOMAIN challenges' \cup unissued' \subseteq DOMAIN challenges \cup unissued,
           \A m \in Login : login'[m].stage = "consumed" =>
               /\ login[m].stage = "consumed" /\ login'[m].challenge = login[m].challenge
               /\ login[m].challenge \notin DOMAIN challenges'
    PROVE  ChallengeInv'
BY DEF ChallengeInv, ChallengeGrantsOnce, GrantedIsGone

LEMMA IssueChallenges ==
    ASSUME Shapes, ChallengeInv, IssueStep
    PROVE  ChallengeInv'
<1>1. ASSUME NEW d \in Device, NEW c \in Challenge, Issue(d, c) PROVE ChallengeInv'
  <2>1. /\ c \in unissued /\ unissued' = unissued \ {c}
        /\ DOMAIN challenges' \subseteq DOMAIN challenges \cup {c}
        /\ UNCHANGED <<grants, login>>
      BY <1>1 DEF Issue, LiveChallenges, authority
  <2>2. ASSUME NEW m \in Login, login[m].stage = "consumed"
        PROVE  login[m].challenge \notin DOMAIN challenges'
    <3>1. login[m] \in BusyLogin
        BY <2>2, LoginTypes DEF Shapes
    <3>2. login[m].challenge \notin unissued
        BY <3>1 DEF BusyLogin
    <3>3. QED
        BY <2>1, <2>2, <3>2 DEF ChallengeInv, ChallengeGrantsOnce
  <2>3. QED
      BY <2>1, <2>2, NothingGranted
<1>2. ASSUME NEW d \in Device, IssueRefused(d) PROVE ChallengeInv'
  <2>1. DOMAIN challenges' \subseteq DOMAIN challenges /\ UNCHANGED <<unissued, grants, login>>
      BY <1>2, OnlyReads DEF IssueRefused, authority
  <2>2. QED
      BY <2>1, NothingGranted DEF ChallengeInv, ChallengeGrantsOnce
<1>3. QED
    BY <1>1, <1>2 DEF IssueStep

LEMMA ConsumeChallenges ==
    ASSUME Shapes, ChallengeInv, NEW l \in Login, ConsumeChallenge(l)
    PROVE  ChallengeInv'
<1> DEFINE c == login[l].challenge
<1>1. /\ c \in DOMAIN challenges
      /\ DOMAIN challenges' = DOMAIN challenges \ {c}
      /\ UNCHANGED <<unissued, grants>>
  <2>1. c \in DOMAIN challenges /\ UNCHANGED <<unissued, grants>>
        /\ challenges' = Only(challenges, DOMAIN challenges \ {c})
      BY DEF ConsumeChallenge, Consumed, authority
  <2>2. DOMAIN Only(challenges, DOMAIN challenges \ {c})
            = DOMAIN challenges \cap (DOMAIN challenges \ {c})
      BY OnlyReads
  <2>3. QED
      BY <2>1, <2>2
<1>2. login[l] \in BusyLogin
    BY LoginTypes DEF Shapes, ConsumeChallenge
<1>3. /\ login'[l].challenge = c
      /\ \A m \in Login \ {l} : login'[m] = login[m]
    BY <1>2 DEF ConsumeChallenge, Shapes, LoginShape, BusyLogin
<1>4. \A k \in DOMAIN grants : grants[k].challenge # c
    BY <1>1 DEF ChallengeInv, GrantedIsGone
<1>5. \A m \in Login \ {l} : login[m].stage = "consumed" => login[m].challenge # c
    BY <1>1 DEF ChallengeInv, ChallengeGrantsOnce
<1>6. GrantedIsGone'
    BY <1>1 DEF ChallengeInv, GrantedIsGone
<1>7. ChallengeGrantsOnce'
    BY <1>1, <1>3, <1>4, <1>5 DEF ChallengeInv, ChallengeGrantsOnce
<1>8. QED
    BY <1>6, <1>7 DEF ChallengeInv

LEMMA RotateChallenges ==
    ASSUME Shapes, ChallengeInv, NEW l \in Login, RotateSession(l)
    PROVE  ChallengeInv'
<1> DEFINE c == login[l].challenge
           id == Len(grants) + 1
<1>1. /\ id \notin DOMAIN grants
      /\ DOMAIN grants' = DOMAIN grants \cup {id}
      /\ \A k \in DOMAIN grants : grants'[k] = grants[k]
      /\ grants'[id].challenge = c
    BY RotateReads
<1>2. /\ login[l].stage = "consumed" /\ UNCHANGED <<challenges, unissued>>
      /\ login'[l].stage = "idle"
      /\ \A m \in Login \ {l} : login'[m] = login[m]
    BY DEF RotateSession, IdleLogin, Shapes, LoginShape
<1>3. c \notin unissued
  <2>1. login[l] \in BusyLogin
      BY <1>2, LoginTypes DEF Shapes
  <2>2. QED
      BY <2>1 DEF BusyLogin
<1>4. /\ c \notin DOMAIN challenges
      /\ \A k \in DOMAIN grants : grants[k].challenge # c
      /\ \A m \in Login \ {l} : login[m].stage = "consumed" => login[m].challenge # c
    BY <1>2 DEF ChallengeInv, ChallengeGrantsOnce
<1>5. GrantedIsGone'
    BY <1>1, <1>2, <1>3, <1>4 DEF ChallengeInv, GrantedIsGone
<1>6. \A j, k \in DOMAIN grants' : grants'[j].challenge = grants'[k].challenge => j = k
    BY <1>1, <1>4 DEF ChallengeInv, ChallengeGrantsOnce
<1>7. ChallengeGrantsOnce'
    BY <1>1, <1>2, <1>4, <1>6 DEF ChallengeInv, ChallengeGrantsOnce
<1>8. QED
    BY <1>5, <1>7 DEF ChallengeInv

LEMMA NextChallenges ==
    ASSUME Shapes, ChallengeInv, [Next]_vars
    PROVE  ChallengeInv'
<1>1. ASSUME UNCHANGED <<unissued, challenges, grants, login>> PROVE ChallengeInv'
    BY <1>1 DEF ChallengeInv, ChallengeGrantsOnce, GrantedIsGone
<1>2. ASSUME NEW l \in Login, LoginStep(l) PROVE ChallengeInv'
  <2>1. ASSUME login'[l].stage # "consumed",
               \A m \in Login \ {l} : login'[m] = login[m],
               UNCHANGED <<unissued, challenges, grants>>
        PROVE  ChallengeInv'
      BY <2>1, NothingGranted DEF ChallengeInv, ChallengeGrantsOnce
  <2>2. ASSUME \E c \in Challenge : LoadChallenge(l, c) PROVE ChallengeInv'
      BY <2>1, <2>2 DEF LoadChallenge, authority, Shapes, LoginShape
  <2>3. ASSUME GetDevice(l) PROVE ChallengeInv'
    <3>1. login[l] \in BusyLogin
        BY <2>3, LoginTypes DEF GetDevice, Shapes
    <3>2. QED
        BY <2>1, <2>3, <3>1 DEF GetDevice, authority, Shapes, LoginShape, BusyLogin
  <2>4. ASSUME RotationConflicts(l) \/ ProofRefused(l) \/ LoginFails(l) PROVE ChallengeInv'
      BY <2>1, <2>4 DEF RotationConflicts, ProofRefused, LoginFails, authority, IdleLogin,
                        Shapes, LoginShape
  <2>5. QED
      BY <1>2, <2>2, <2>3, <2>4, ConsumeChallenges, RotateChallenges DEF LoginStep
<1>3. ASSUME NEW q \in Request, CallStep(q) PROVE ChallengeInv'
    BY <1>1, <1>3 DEF CallStep, Present, ReadDevice, ReadSession, Admit, RefuseReplay,
                      RefuseCall, authority
<1>4. Tick \/ UNCHANGED vars => UNCHANGED <<unissued, challenges, grants, login>>
    BY DEF Tick, vars, authority
<1>5. QED
    BY <1>1, <1>2, <1>3, <1>4, IssueChallenges DEF Next

\* A challenge is granted once, however many logins answer it together.
THEOREM ChallengesGrantOnce == Spec => []ChallengeGrantsOnce
<1>1. Init => Shapes /\ ChallengeInv
  <2>1. Init => ChallengeInv
      BY DEF Init, ChallengeInv, ChallengeGrantsOnce, GrantedIsGone, IdleLogin
  <2>2. QED
      BY <2>1, InitShapes
<1>2. Shapes /\ ChallengeInv /\ [Next]_vars => (Shapes /\ ChallengeInv)'
    BY NextShapes, NextChallenges
<1>3. ChallengeInv => ChallengeGrantsOnce
    BY DEF ChallengeInv
<1>4. QED
    BY <1>1, <1>2, <1>3, PTL DEF Spec

\* The grants of a device.
Granted(d) == {k \in DOMAIN grants : grants[k].device = d}

\* EpochCountsGrants, with the finiteness its cardinality needs.
EpochInv ==
    \A d \in Device :
        /\ IsFiniteSet(Granted(d))
        /\ epoch[d] = Cardinality(Granted(d))
        /\ {grants[k].epoch : k \in Granted(d)} = 1..epoch[d]

\* One more after the numbers up to n.
LEMMA OneMore ==
    ASSUME NEW n \in Nat
    PROVE  (1..n) \cup {n + 1} = 1..(n + 1)
OBVIOUS

LEMMA RotateEpochs ==
    ASSUME Shapes, EpochInv, NEW l \in Login, RotateSession(l)
    PROVE  EpochInv'
<1> DEFINE d == login[l].device
           id == Len(grants) + 1
           n == epoch[d]
<1>1. /\ d \in Device /\ login[l].epoch = n
      /\ id \notin DOMAIN grants
      /\ DOMAIN grants' = DOMAIN grants \cup {id}
      /\ \A k \in DOMAIN grants : grants'[k] = grants[k]
      /\ grants'[id].device = d /\ grants'[id].epoch = n + 1
      /\ epoch' = [epoch EXCEPT ![d] = n + 1]
    BY RotateReads
<1>2. epoch \in [Device -> Nat]
    BY DEF Shapes, SessionShape
<1>3. ASSUME NEW e \in Device
      PROVE  /\ IsFiniteSet(Granted(e)')
             /\ epoch'[e] = Cardinality(Granted(e)')
             /\ {grants'[k].epoch : k \in Granted(e)'} = 1..epoch'[e]
  <2>1. /\ IsFiniteSet(Granted(e)) /\ epoch[e] = Cardinality(Granted(e))
        /\ {grants[k].epoch : k \in Granted(e)} = 1..epoch[e]
      BY DEF EpochInv
  <2>2. \A k \in Granted(e) : k \in DOMAIN grants /\ grants'[k] = grants[k]
      BY <1>1 DEF Granted
  <2>3. CASE e = d
    <3>1. Granted(e)' = Granted(e) \cup {id} /\ id \notin Granted(e)
        BY <1>1, <2>3 DEF Granted
    <3>2. epoch'[e] = n + 1 /\ n \in Nat
        BY <1>1, <1>2, <2>3
    <3>3. /\ IsFiniteSet(Granted(e)')
          /\ Cardinality(Granted(e)') = n + 1
        BY <2>1, <2>3, <3>1, FS_AddElement
    <3>4. {grants'[k].epoch : k \in Granted(e)'}
              = {grants[k].epoch : k \in Granted(e)} \cup {n + 1}
        BY <1>1, <2>2, <3>1
    <3>5. QED
        BY <2>1, <2>3, <3>2, <3>3, <3>4, OneMore
  <2>4. CASE e # d
    <3>1. Granted(e)' = Granted(e) /\ epoch'[e] = epoch[e]
        BY <1>1, <1>2, <2>4 DEF Granted
    <3>2. {grants'[k].epoch : k \in Granted(e)'} = {grants[k].epoch : k \in Granted(e)}
        BY <2>2, <3>1
    <3>3. QED
        BY <2>1, <3>1, <3>2
  <2>5. QED
      BY <2>3, <2>4
<1>4. QED
    BY <1>3 DEF EpochInv

LEMMA NextEpochs ==
    ASSUME Shapes, EpochInv, [Next]_vars
    PROVE  EpochInv'
<1>1. ASSUME UNCHANGED <<epoch, grants>> PROVE EpochInv'
    BY <1>1 DEF EpochInv, Granted
<1>2. ASSUME NEW l \in Login, LoginStep(l) PROVE EpochInv'
    BY <1>1, <1>2, RotateEpochs DEF LoginStep, LoadChallenge, GetDevice, ConsumeChallenge,
                                    RotationConflicts, ProofRefused, LoginFails, authority
<1>3. ASSUME NEW q \in Request, CallStep(q) PROVE EpochInv'
    BY <1>1, <1>3 DEF CallStep, Present, ReadDevice, ReadSession, Admit, RefuseReplay,
                      RefuseCall, authority
<1>4. Tick \/ IssueStep \/ UNCHANGED vars => UNCHANGED <<epoch, grants>>
    BY DEF Tick, IssueStep, Issue, IssueRefused, vars, authority
<1>5. QED
    BY <1>1, <1>2, <1>3, <1>4 DEF Next

\* The epochs of a device are handed out without a gap and without a repeat,
\* one with each grant, whatever logins are under way together.
THEOREM EpochsCountGrants == Spec => []EpochCountsGrants
<1>1. Init => Shapes /\ EpochInv
  <2>1. ASSUME Init PROVE EpochInv
    <3>1. ASSUME NEW d \in Device
          PROVE Granted(d) = {} /\ epoch[d] = 0 /\ {grants[k].epoch : k \in Granted(d)} = {}
        BY <2>1 DEF Init, Granted
    <3>2. IsFiniteSet({}) /\ Cardinality({}) = 0 /\ 1..0 = {}
        BY FS_EmptySet
    <3>3. QED
        BY <3>1, <3>2 DEF EpochInv
  <2>2. QED
      BY <2>1, InitShapes
<1>2. Shapes /\ EpochInv /\ [Next]_vars => (Shapes /\ EpochInv)'
    BY NextShapes, NextEpochs
<1>3. EpochInv => EpochCountsGrants
    BY DEF EpochInv, EpochCountsGrants, Granted
<1>4. QED
    BY <1>1, <1>2, <1>3, PTL DEF Spec

--------------------------------------------------------------------------------
(* Nonces                                                                     *)

\* What a nonce was admitted under: the second its token expires in.
Until(key) == grants[key[1]].exp

\* The store still knows every nonce whose token has not expired.
AdmittedIsSeen ==
    \A i \in DOMAIN admitted : now < Until(admitted[i]) =>
        admitted[i] \in DOMAIN seen /\ seen[admitted[i]] = Until(admitted[i])

NonceInv == NonceAdmittedOnce /\ AdmittedIsSeen

\* The token of an admitted nonce.
LEMMA AdmittedTypes ==
    ASSUME Shapes, NEW i \in DOMAIN admitted
    PROVE  admitted[i][1] \in DOMAIN grants /\ Until(admitted[i]) \in Nat
<1>1. admitted[i] \in (DOMAIN grants) \X Nonce
    BY DEF Shapes, NonceShape
<1>2. admitted[i][1] \in DOMAIN grants
    BY <1>1
<1>3. QED
    BY <1>2, GrantTypes DEF Until, Shapes

\* Purging forgets no nonce whose token has not expired.
LEMMA PurgeRemembers ==
    ASSUME AdmittedIsSeen, NEW i \in DOMAIN admitted, now < Until(admitted[i])
    PROVE  admitted[i] \in Remembered /\ seen[admitted[i]] = Until(admitted[i])
BY DEF AdmittedIsSeen, Remembered

LEMMA AdmitNonces ==
    ASSUME Shapes, NonceInv, NEW q \in Request, Admit(q)
    PROVE  NonceInv'
<1> DEFINE exp == grants[call[q].token].exp
<1>1. /\ Key(q) \notin Remembered
      /\ seen' = [key \in Remembered \cup {Key(q)} |-> IF key = Key(q) THEN exp ELSE seen[key]]
      /\ admitted' = IF now < exp THEN Append(admitted, Key(q)) ELSE admitted
      /\ UNCHANGED <<now, grants>>
    BY DEF Admit, authority
<1>2. Until(Key(q)) = exp /\ Key(q) \in (DOMAIN grants) \X Nonce
  <2>1. call[q] \in BusyCall
      BY CallTypes DEF Admit, Shapes
  <2>2. QED
      BY <2>1 DEF BusyCall, Key, Until
<1>3. ASSUME NEW i \in DOMAIN admitted, now < Until(admitted[i])
      PROVE  /\ admitted[i] # Key(q)
             /\ admitted[i] \in DOMAIN seen' /\ seen'[admitted[i]] = Until(admitted[i])
    BY <1>1, <1>3, PurgeRemembers DEF NonceInv
<1>4. CASE now < exp
  <2> DEFINE id == Len(admitted) + 1
  <2>1. /\ id \notin DOMAIN admitted
        /\ DOMAIN admitted' = DOMAIN admitted \cup {id}
        /\ \A i \in DOMAIN admitted : admitted'[i] = admitted[i]
        /\ admitted'[id] = Key(q)
      BY <1>1, <1>2, <1>4, AppendReads DEF Shapes, NonceShape
  <2>2. \A i \in DOMAIN admitted : admitted[i] # Key(q)
      BY <1>2, <1>3, <1>4
  <2>3. NonceAdmittedOnce'
      BY <2>1, <2>2 DEF NonceInv, NonceAdmittedOnce
  <2>4. AdmittedIsSeen'
      BY <1>1, <1>2, <1>3, <2>1 DEF AdmittedIsSeen, Until
  <2>5. QED
      BY <2>3, <2>4 DEF NonceInv
<1>5. CASE ~(now < exp)
  <2>1. admitted' = admitted
      BY <1>1, <1>5
  <2>2. AdmittedIsSeen'
      BY <1>1, <1>3, <2>1 DEF AdmittedIsSeen, Until
  <2>3. QED
      BY <2>1, <2>2 DEF NonceInv, NonceAdmittedOnce
<1>6. QED
    BY <1>4, <1>5

LEMMA NextNonces ==
    ASSUME Shapes, NonceInv, [Next]_vars
    PROVE  NonceInv'
<1>1. ASSUME UNCHANGED <<now, seen, grants, admitted>> PROVE NonceInv'
    BY <1>1 DEF NonceInv, NonceAdmittedOnce, AdmittedIsSeen, Until
<1>2. ASSUME Tick PROVE NonceInv'
  <2>1. now' = now + 1 /\ now \in Nat /\ UNCHANGED <<seen, grants, admitted>>
      BY <1>2 DEF Tick, authority, Shapes
  <2>2. ASSUME NEW i \in DOMAIN admitted, now' < Until(admitted[i]) PROVE now < Until(admitted[i])
      BY <2>1, <2>2, AdmittedTypes
  <2>3. QED
      BY <2>1, <2>2 DEF NonceInv, NonceAdmittedOnce, AdmittedIsSeen, Until
<1>3. ASSUME NEW l \in Login, RotateSession(l) PROVE NonceInv'
  <2>1. UNCHANGED <<now, seen, admitted>>
      BY <1>3 DEF RotateSession
  <2>2. \A i \in DOMAIN admitted : grants'[admitted[i][1]] = grants[admitted[i][1]]
      BY <1>3, AdmittedTypes, RotateReads
  <2>3. QED
      BY <2>1, <2>2 DEF NonceInv, NonceAdmittedOnce, AdmittedIsSeen, Until
<1>4. ASSUME NEW l \in Login, LoginStep(l) PROVE NonceInv'
    BY <1>1, <1>3, <1>4 DEF LoginStep, LoadChallenge, GetDevice, ConsumeChallenge,
                            RotationConflicts, ProofRefused, LoginFails, authority
<1>5. ASSUME NEW q \in Request, RefuseReplay(q) PROVE NonceInv'
  <2>1. /\ DOMAIN seen' = DOMAIN seen \cap Remembered
        /\ \A key \in DOMAIN seen' : seen'[key] = seen[key]
        /\ UNCHANGED <<now, grants, admitted>>
      BY <1>5, OnlyReads DEF RefuseReplay, authority
  <2>2. Remembered \subseteq DOMAIN seen
      BY DEF Remembered
  <2>3. QED
      BY <2>1, <2>2, PurgeRemembers DEF NonceInv, NonceAdmittedOnce, AdmittedIsSeen, Until
<1>6. ASSUME NEW q \in Request, CallStep(q) PROVE NonceInv'
    BY <1>1, <1>5, <1>6, AdmitNonces DEF CallStep, Present, ReadDevice, ReadSession,
                                         RefuseCall, authority
<1>7. IssueStep \/ UNCHANGED vars => UNCHANGED <<now, seen, grants, admitted>>
    BY DEF IssueStep, Issue, IssueRefused, vars, authority
<1>8. QED
    BY <1>1, <1>2, <1>4, <1>6, <1>7 DEF Next

\* Before the second its token expires in, a nonce is admitted once in its
\* session, however late its request reaches the store.
THEOREM NoncesAdmittedOnce == Spec => []NonceAdmittedOnce
<1>1. Init => Shapes /\ NonceInv
  <2>1. Init => NonceInv
      BY DEF Init, NonceInv, NonceAdmittedOnce, AdmittedIsSeen
  <2>2. QED
      BY <2>1, InitShapes
<1>2. Shapes /\ NonceInv /\ [Next]_vars => (Shapes /\ NonceInv)'
    BY NextShapes, NextNonces
<1>3. NonceInv => NonceAdmittedOnce
    BY DEF NonceInv
<1>4. QED
    BY <1>1, <1>2, <1>3, PTL DEF Spec
================================================================================
