-------------------------------- MODULE Sessions --------------------------------
(***************************************************************************)
(* The sessions of one user (auth.py, routers/auth.py, services/auth.py).  *)
(* A session is a signed token with the user's token_version in it; it is  *)
(* accepted while that is still the version of the user.  A logout raises  *)
(* the version, which ends all sessions of the user.  Logins and logouts   *)
(* run in transactions of their own and lock nothing.                      *)
(***************************************************************************)
EXTENDS Naturals

CONSTANTS
    Requests,   \* logins and logouts, each sent once
    Profiles,   \* what the identity provider says about the user
    None

ASSUME SessionsAssumption == None \notin Nat \cup Profiles

VARIABLES
    user,       \* the row of the user
    request,    \* progress of the requests
    token,      \* the version in the token a login got, while it has not expired
    revoked,    \* history: tokens that were there when a finished logout began
    setBack     \* history: a logout has set the version back

sessionsVars == <<user, request, token, revoked, setBack>>

Pcs == {"idle", "looked", "stored", "read", "done"}

SessionsTypeOK ==
    /\ user \in [version: Nat, profile: Profiles \cup {None}]
    /\ request \in [Requests -> [pc: Pcs, version: Nat, profile: Profiles \cup {None},
                                 known: BOOLEAN, seen: SUBSET Requests]]
    /\ token \in [Requests -> Nat \cup {None}]
    /\ revoked \subseteq Requests
    /\ setBack \in BOOLEAN

Exists == user.profile # None

SessionsInit ==
    /\ user = [version |-> 0, profile |-> None]
    /\ request = [r \in Requests |-> [pc |-> "idle", version |-> 0, profile |-> None,
                                      known |-> FALSE, seen |-> {}]]
    /\ token = [r \in Requests |-> None]
    /\ revoked = {}
    /\ setBack = FALSE

-----------------------------------------------------------------------------
(* Logins.                                                                 *)

\* upsert_oidc_user looks for the row of the subject.
Look(r, p) ==
    /\ request[r].pc = "idle"
    /\ request' = [request EXCEPT ![r] = [pc |-> "looked", version |-> user.version,
                                           profile |-> p, known |-> Exists, seen |-> {}]]
    /\ UNCHANGED <<user, token, revoked, setBack>>

\* Mutant: a login raises the version as a logout does.
StoredRaised(r) == [version |-> user.version + 1, profile |-> request[r].profile]

\* The UPDATE names the columns that a login sets.
Stored(r) == [user EXCEPT !.profile = request[r].profile]

Store(r) ==
    /\ request[r].pc = "looked"
    /\ request[r].known \/ ~Exists
    /\ user' = Stored(r)
    /\ request' = [request EXCEPT ![r].pc = "stored"]
    /\ UNCHANGED <<token, revoked, setBack>>

\* uq_user_oidc: of two first logins, the later one fails.
StoreTwice(r) ==
    /\ request[r].pc = "looked"
    /\ ~request[r].known /\ Exists
    /\ request' = [request EXCEPT ![r].pc = "done"]
    /\ UNCHANGED <<user, token, revoked, setBack>>

\* The row is read again after the commit, and the token made from it.
Issue(r) ==
    /\ request[r].pc = "stored"
    /\ token' = [token EXCEPT ![r] = user.version]
    /\ request' = [request EXCEPT ![r].pc = "done"]
    /\ UNCHANGED <<user, revoked, setBack>>

Expire(t) ==
    /\ token[t] # None
    /\ token' = [token EXCEPT ![t] = None]
    /\ UNCHANGED <<user, request, revoked, setBack>>

-----------------------------------------------------------------------------
(* Logouts.                                                                *)

Issued == {t \in Requests : token[t] # None}

\* Any token that has not expired will do, an ended session's too.
ReadLogout(r) ==
    /\ request[r].pc = "idle"
    /\ Issued # {}
    /\ request' = [request EXCEPT ![r] = [pc |-> "read", version |-> user.version,
                                           profile |-> None, known |-> FALSE, seen |-> Issued]]
    /\ UNCHANGED <<user, token, revoked, setBack>>

\* Mutant: the version stays.
Kept(r) == request[r].version

Raised(r) == request[r].version + 1

Logout(r) ==
    /\ request[r].pc = "read"
    /\ user' = [user EXCEPT !.version = Raised(r)]
    /\ request' = [request EXCEPT ![r].pc = "done"]
    /\ revoked' = revoked \cup request[r].seen
    /\ setBack' = (setBack \/ Raised(r) < user.version)
    /\ UNCHANGED token

-----------------------------------------------------------------------------
Step(r) ==
    \/ \E p \in Profiles : Look(r, p)
    \/ Store(r) \/ StoreTwice(r) \/ Issue(r) \/ Expire(r)
    \/ ReadLogout(r) \/ Logout(r)

SessionsNext == \E r \in Requests : Step(r)

SessionsSpec == SessionsInit /\ [][SessionsNext]_sessionsVars

-----------------------------------------------------------------------------
\* _user_from_session_payload.
Accepted(t) == token[t] # None /\ token[t] = user.version

\* A session that a logout has ended is not accepted again, though logouts overlap and
\* write the version they read, unless one has set it back: a logout passed by two
\* others, one after the other (routers/auth.py, logout).
EndedStaysEnded == setBack \/ \A t \in revoked : ~Accepted(t)

\* Logins of the same user, each of which rewrites the row, end no session and
\* bring none back: only a logout does, or time.
OnlyLogoutsEndSessions ==
    [][\A t \in Requests :
          /\ token[t] # None /\ token'[t] # None /\ Accepted(t) # Accepted(t)'
          => \E r \in Requests : Logout(r)]_sessionsVars
=============================================================================
