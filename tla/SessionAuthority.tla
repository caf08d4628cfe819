--------------------------- MODULE SessionAuthority ---------------------------
(***************************************************************************)
(* How a desktop session comes about and how a request of it is admitted:  *)
(* security/session_auth.py and security/desktop_auth.py.                  *)
(*                                                                         *)
(* A login answers a challenge.  It looks the challenge up, reads the      *)
(* device, consumes the challenge and rotates the session of the device,   *)
(* which revokes the prior one and advances the epoch of the device.  A    *)
(* request reads the device, then the session, then consumes its nonce.    *)
(* Each of these is an await on an injected store, whose operation is      *)
(* atomic: a step is one such operation with the code that runs when it    *)
(* returns, and any step of another login or request may come in between.  *)
(*                                                                         *)
(* Time is counted in ticks, Second of them to a second: records keep the  *)
(* tick, tokens only the second.                                           *)
(*                                                                         *)
(* Left out: proofs and headers of the wrong form or for another device    *)
(* (refused before anything changes), signatures, contract ranges beyond   *)
(* the refusal they may cause, and the texts of errors.                    *)
(***************************************************************************)
EXTENDS Integers, Sequences, FiniteSets

CONSTANTS
    Device,             \* registered devices
    Enabled,            \* those whose status is ACTIVE; nothing in the code changes it
    Challenge,          \* challenge ids: each is drawn once
    Login,              \* calls of authenticateSession that may be under way together
    Request,            \* calls of authenticate that may be under way together
    Nonce,              \* request nonces a client may send
    ChallengeLifetime,  \* challenge_lifetime, in ticks
    SessionLifetime,    \* session_lifetime, in ticks
    Second,             \* ticks in a second
    Leeway,             \* leeway_seconds of the token, in ticks
    MaxRecords,         \* max_records of the challenge store
    MaxPerDevice,       \* max_per_device of the challenge store
    Horizon             \* bound: the clock stops here

ASSUME DeviceAssumption == Enabled \subseteq Device
ASSUME TimeAssumption ==
    /\ {ChallengeLifetime, SessionLifetime, Second} \subseteq Nat \ {0}
    /\ {Leeway, Horizon} \subseteq Nat
ASSUME LimitAssumption ==
    /\ {MaxRecords, MaxPerDevice} \subseteq Nat \ {0}
    /\ MaxPerDevice <= MaxRecords

VARIABLES
    now,         \* the clock
    unissued,    \* challenge ids not drawn yet
    challenges,  \* _records of the challenge store: id -> challenge
    epoch,       \* session_epoch of each device
    sessions,    \* _sessions of the authority: id -> record
    active,      \* _active_session_by_device, 0 when it names none
    seen,        \* _seen of the nonce store: (session, nonce) -> expiry
    login,       \* the locals of each authenticateSession
    call,        \* the locals of each authenticate
    grants,      \* the grants handed out so far: session ids are their places
    admitted     \* history: the requests admitted before their token's second

authority == <<epoch, sessions, active, grants>>
vars == <<now, unissued, challenges, authority, seen, login, call, admitted>>

NoSession == 0
NoDevice == "none"
NoChallenge == "none"
NoNonce == "none"

IdleLogin == [stage |-> "idle", challenge |-> NoChallenge, device |-> NoDevice,
              at |-> 0, epoch |-> 0]
IdleCall == [stage |-> "idle", token |-> NoSession, nonce |-> NoNonce,
             epoch |-> 0, current |-> FALSE]

\* A dict with the entries of f whose keys are in S.
Only(f, S) == [k \in DOMAIN f \cap S |-> f[k]]

\* A timestamp of a token: the second a time lies in.
WholeSecond(t) == (t \div Second) * Second

--------------------------------------------------------------------------------
(* InMemorySessionChallengeStore, issueSessionChallenge                       *)

LiveChallenges == {c \in DOMAIN challenges : challenges[c].expires > now}

OfDevice(d) == {c \in LiveChallenges : challenges[c].device = d}

\* Mutant: the limit of one device is not checked.
MayIssue_NoDeviceLimit(d) == Cardinality(LiveChallenges) < MaxRecords

MayIssue(d) ==
    /\ Cardinality(LiveChallenges) < MaxRecords
    /\ Cardinality(OfDevice(d)) < MaxPerDevice

Issue(d, c) ==
    /\ c \in unissued
    /\ d \in Enabled
    /\ MayIssue(d)
    /\ unissued' = unissued \ {c}
    /\ challenges' = [x \in LiveChallenges \cup {c} |->
           IF x = c
           THEN [device |-> d, issued |-> now, expires |-> now + ChallengeLifetime]
           ELSE challenges[x]]
    /\ UNCHANGED <<now, authority, seen, login, call, admitted>>

\* A store at its limits has purged what expired all the same.
IssueRefused(d) ==
    /\ d \in Enabled
    /\ ~MayIssue(d)
    /\ challenges' = Only(challenges, LiveChallenges)
    /\ UNCHANGED <<now, unissued, authority, seen, login, call, admitted>>

--------------------------------------------------------------------------------
(* authenticateSession                                                        *)

LoadChallenge(l, c) ==
    /\ login[l].stage = "idle"
    /\ c \in DOMAIN challenges
    /\ challenges[c].issued <= now
    /\ now < challenges[c].expires
    /\ login' = [login EXCEPT ![l] =
           [stage |-> "loaded", challenge |-> c, device |-> challenges[c].device,
            at |-> now, epoch |-> 0]]
    /\ UNCHANGED <<now, unissued, challenges, authority, seen, call, admitted>>

GetDevice(l) ==
    /\ login[l].stage = "loaded"
    /\ login[l].device \in Enabled
    /\ login' = [login EXCEPT ![l].stage = "verified",
                              ![l].epoch = epoch[login[l].device]]
    /\ UNCHANGED <<now, unissued, challenges, authority, seen, call, admitted>>

\* Mutant: the store finds the challenge and leaves it there.
Consumed_Kept(c) == challenges

Consumed(c) == Only(challenges, DOMAIN challenges \ {c})

ConsumeChallenge(l) ==
    /\ login[l].stage = "verified"
    /\ login[l].challenge \in DOMAIN challenges
    /\ challenges' = Consumed(login[l].challenge)
    /\ login' = [login EXCEPT ![l].stage = "consumed"]
    /\ UNCHANGED <<now, unissued, authority, seen, call, admitted>>

\* Keys, signature or contract range of the proof do not fit the device: the
\* challenge is left alone.
ProofRefused(l) ==
    /\ login[l].stage = "loaded"
    /\ login' = [login EXCEPT ![l] = IdleLogin]
    /\ UNCHANGED <<now, unissued, challenges, authority, seen, call, admitted>>

\* The challenge is gone or a store raises: what was done before stays done.
LoginFails(l) ==
    /\ login[l].stage \in {"verified", "consumed"}
    /\ login' = [login EXCEPT ![l] = IdleLogin]
    /\ UNCHANGED <<now, unissued, challenges, authority, seen, call, admitted>>

\* Mutant: a rotation drops every expired session, the active ones too.
Kept_Unexpired(t) == {k \in DOMAIN sessions : sessions[k].expires > t}

\* The sessions a rotation that was begun at t keeps.
Kept(t) == {k \in DOMAIN sessions : sessions[k].status = "active" \/ sessions[k].expires > t}

\* Mutant: the epoch the caller expects is not compared.
MayRotate_AnyEpoch(l) == login[l].device \in Enabled

MayRotate(l) ==
    /\ login[l].device \in Enabled
    /\ epoch[login[l].device] = login[l].epoch

RotateSession(l) ==
    LET d == login[l].device
        t == login[l].at
        next == login[l].epoch + 1
        id == Len(grants) + 1
    IN  /\ login[l].stage = "consumed"
        /\ MayRotate(l)
        /\ sessions' = [k \in Kept(t) \cup {id} |->
               IF k = id
               THEN [device |-> d, status |-> "active", epoch |-> next,
                     expires |-> t + SessionLifetime]
               ELSE IF k = active[d] THEN [sessions[k] EXCEPT !.status = "revoked"]
               ELSE sessions[k]]
        /\ epoch' = [epoch EXCEPT ![d] = next]
        /\ active' = [active EXCEPT ![d] = id]
        /\ grants' = Append(grants,
               [challenge |-> login[l].challenge, device |-> d, epoch |-> next,
                exp |-> WholeSecond(t + SessionLifetime)])
        /\ login' = [login EXCEPT ![l] = IdleLogin]
        /\ UNCHANGED <<now, unissued, challenges, seen, call, admitted>>

\* SessionRotationConflictError, raised after the purge.
RotationConflicts(l) ==
    /\ login[l].stage = "consumed"
    /\ ~MayRotate(l)
    /\ sessions' = Only(sessions, Kept(login[l].at))
    /\ login' = [login EXCEPT ![l] = IdleLogin]
    /\ UNCHANGED <<now, unissued, challenges, epoch, active, grants, seen, call, admitted>>

--------------------------------------------------------------------------------
(* DesktopSessionAuthenticator.authenticate                                   *)

TokenDevice(q) == grants[call[q].token].device

Present(q, k, n) ==
    /\ call[q].stage = "idle"
    /\ k \in DOMAIN grants
    /\ grants[k].exp > now - Leeway
    /\ call' = [call EXCEPT ![q] =
           [stage |-> "decoded", token |-> k, nonce |-> n, epoch |-> 0,
            current |-> active[grants[k].device] = k]]
    /\ UNCHANGED <<now, unissued, challenges, authority, seen, login, admitted>>

ReadDevice(q) ==
    /\ call[q].stage = "decoded"
    /\ TokenDevice(q) \in Enabled
    /\ call' = [call EXCEPT ![q].stage = "device", ![q].epoch = epoch[TokenDevice(q)]]
    /\ UNCHANGED <<now, unissued, challenges, authority, seen, login, admitted>>

\* Mutant: only the identities are compared.
ValidRecords_IdentityOnly(q, s) == s.device = TokenDevice(q)

\* The device as it was read, the session as it is: _validate_records.
ValidRecords(q, s) ==
    /\ s.status = "active"
    /\ s.device = TokenDevice(q)
    /\ call[q].epoch = grants[call[q].token].epoch
    /\ s.epoch = grants[call[q].token].epoch

ReadSession(q) ==
    /\ call[q].stage = "device"
    /\ call[q].token \in DOMAIN sessions
    /\ ValidRecords(q, sessions[call[q].token])
    /\ sessions[call[q].token].expires > now
    /\ call' = [call EXCEPT ![q].stage = "checked"]
    /\ UNCHANGED <<now, unissued, challenges, authority, seen, login, admitted>>

\* Mutant: a nonce is forgotten a second too early.
Remembered_Early == {key \in DOMAIN seen : seen[key] > now + Second}

Remembered == {key \in DOMAIN seen : seen[key] > now}

Key(q) == <<call[q].token, call[q].nonce>>

Admit(q) ==
    LET exp == grants[call[q].token].exp
    IN  /\ call[q].stage = "checked"
        /\ Key(q) \notin Remembered
        /\ seen' = [key \in Remembered \cup {Key(q)} |->
               IF key = Key(q) THEN exp ELSE seen[key]]
        /\ admitted' = IF now < exp THEN Append(admitted, Key(q)) ELSE admitted
        /\ call' = [call EXCEPT ![q] = IdleCall]
        /\ UNCHANGED <<now, unissued, challenges, authority, login>>

RefuseReplay(q) ==
    /\ call[q].stage = "checked"
    /\ Key(q) \in Remembered
    /\ seen' = Only(seen, Remembered)
    /\ call' = [call EXCEPT ![q] = IdleCall]
    /\ UNCHANGED <<now, unissued, challenges, authority, login, admitted>>

\* A check fails, the contract version is not supported, or a store raises.
RefuseCall(q) ==
    /\ call[q].stage # "idle"
    /\ call' = [call EXCEPT ![q] = IdleCall]
    /\ UNCHANGED <<now, unissued, challenges, authority, seen, login, admitted>>

--------------------------------------------------------------------------------
Tick ==
    /\ now < Horizon
    /\ now' = now + 1
    /\ UNCHANGED <<unissued, challenges, authority, seen, login, call, admitted>>

Init ==
    /\ now = 0
    /\ unissued = Challenge
    /\ challenges = <<>>
    /\ epoch = [d \in Device |-> 0]
    /\ sessions = <<>>
    /\ active = [d \in Device |-> NoSession]
    /\ seen = <<>>
    /\ login = [l \in Login |-> IdleLogin]
    /\ call = [q \in Request |-> IdleCall]
    /\ grants = <<>>
    /\ admitted = <<>>

IssueStep == \E d \in Device :
    \/ \E c \in Challenge : Issue(d, c)
    \/ IssueRefused(d)

LoginStep(l) ==
    \/ \E c \in Challenge : LoadChallenge(l, c)
    \/ GetDevice(l)
    \/ ConsumeChallenge(l)
    \/ RotateSession(l)
    \/ RotationConflicts(l)
    \/ ProofRefused(l)
    \/ LoginFails(l)

CallStep(q) ==
    \/ \E k \in DOMAIN grants, n \in Nonce : Present(q, k, n)
    \/ ReadDevice(q)
    \/ ReadSession(q)
    \/ Admit(q)
    \/ RefuseReplay(q)
    \/ RefuseCall(q)

Next ==
    \/ Tick
    \/ IssueStep
    \/ \E l \in Login : LoginStep(l)
    \/ \E q \in Request : CallStep(q)

Spec == Init /\ [][Next]_vars

--------------------------------------------------------------------------------
Grant == [challenge : Challenge, device : Device, epoch : Nat, exp : Nat]

SessionRecord == [device : Device, status : {"active", "revoked"}, epoch : Nat, expires : Nat]

ChallengeRecord == [device : Device, issued : Nat, expires : Nat]

BusyLogin == [stage : {"loaded", "verified", "consumed"}, challenge : Challenge \ unissued,
              device : Device, at : Nat, epoch : Nat]

BusyCall == [stage : {"decoded", "device", "checked"}, token : DOMAIN grants,
             nonce : Nonce, epoch : Nat, current : BOOLEAN]

\* The types of the state; session ids are places in grants, and the challenge
\* store is within both of its limits, whoever lets challenges expire (issue).
TypeOK ==
    /\ now \in Nat
    /\ unissued \subseteq Challenge
    /\ DOMAIN challenges \subseteq Challenge \ unissued
    /\ \A c \in DOMAIN challenges : challenges[c] \in ChallengeRecord
    /\ Cardinality(DOMAIN challenges) <= MaxRecords
    /\ \A d \in Device :
           Cardinality({c \in DOMAIN challenges : challenges[c].device = d}) <= MaxPerDevice
    /\ epoch \in [Device -> Nat]
    /\ grants \in Seq(Grant)
    /\ DOMAIN sessions \subseteq DOMAIN grants
    /\ \A k \in DOMAIN sessions : sessions[k] \in SessionRecord
    /\ active \in [Device -> DOMAIN grants \cup {NoSession}]
    /\ DOMAIN seen \subseteq (DOMAIN grants) \X Nonce
    /\ \A key \in DOMAIN seen : seen[key] \in Nat
    /\ admitted \in Seq((DOMAIN grants) \X Nonce)
    /\ login \in [Login -> {IdleLogin} \cup BusyLogin]
    /\ call \in [Request -> {IdleCall} \cup BusyCall]

\* A device has one active session at most: the one the authority names, whose
\* record the purge has left alone and whose epoch is the device's
\* (rotate_session revokes self._sessions[prior_id], which has to be there).
OneActiveSession ==
    /\ \A d \in Device : active[d] # NoSession =>
           /\ active[d] \in DOMAIN sessions
           /\ sessions[active[d]].device = d
           /\ sessions[active[d]].status = "active"
           /\ sessions[active[d]].epoch = epoch[d]
    /\ \A k \in DOMAIN sessions :
           sessions[k].status = "active" => active[sessions[k].device] = k

\* A challenge is answered once: however many logins hold it, one of them gets
\* past the store, and its grant is the only one (consume).
ChallengeGrantsOnce ==
    /\ \A j, k \in DOMAIN grants : grants[j].challenge = grants[k].challenge => j = k
    /\ \A l \in Login : login[l].stage = "consumed" =>
           /\ login[l].challenge \notin DOMAIN challenges
           /\ \A k \in DOMAIN grants : grants[k].challenge # login[l].challenge
           /\ \A m \in Login \ {l} :
                  login[m].stage = "consumed" => login[m].challenge # login[l].challenge

\* The epoch of a device is the number of grants it got: of two logins that
\* read the same epoch only one rotates the session (expected_epoch).
EpochCountsGrants ==
    \A d \in Device :
        LET granted == {k \in DOMAIN grants : grants[k].device = d}
        IN  /\ epoch[d] = Cardinality(granted)
            /\ {grants[k].epoch : k \in granted} = 1..epoch[d]

\* A request that passes the registries came while its session was the device's
\* own: once a session is replaced, no later request of it is admitted
\* (_validate_records, over records read at two times).
AdmittedWasCurrent ==
    \A q \in Request : call[q].stage = "checked" => call[q].current

\* Until the second its token expires in, a nonce is admitted once in a session,
\* though the store forgets nonces as it goes and a request may reach it late.
NonceAdmittedOnce ==
    \A i, j \in DOMAIN admitted : admitted[i] = admitted[j] => i = j
================================================================================
