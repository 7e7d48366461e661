------------------------------ MODULE Membership ------------------------------
(***************************************************************************)
(* Membership and API keys of one project, as concurrent requests change   *)
(* them: every request authorizes, reads and writes in steps of its own,   *)
(* in one transaction, and only the row lock on the project                *)
(* (members.lock_project, FOR NO KEY UPDATE) keeps the steps of two        *)
(* requests apart.  Requests that authenticate with a key record its use   *)
(* in a transaction of their own, without that lock.                       *)
(***************************************************************************)
EXTENDS Naturals, FiniteSets

CONSTANTS
    Users, Keys,
    Threads,   \* server threads: each serves one request after another
    Nobody,    \* no user, no thread
    MaxTime    \* bound on the clock that stamps key uses

ASSUME MembershipAssumption ==
    /\ IsFiniteSet(Users)
    /\ Nobody \notin Users \cup Threads
    /\ MaxTime \in Nat

VARIABLES
    project, role, creator, active,  \* the database: see Access
    author,    \* history: who made the latest change
    lock,      \* the thread whose transaction locks the project row, or Nobody
    pc,        \* step of each thread
    req,       \* the request each thread serves
    seen,      \* the caller's role, as the thread read it under the lock
    doomed,    \* the keys that the thread's transaction is going to revoke
    lastUsed,  \* api_keys.last_used_at
    time       \* the clock; it advances at every key use

dbVars == <<project, role, creator, active, author>>
vars == <<dbVars, lock, pc, req, seen, doomed, lastUsed, time>>

Roles == {"editor", "admin"}

\* Requests, by their handler; "by" is the session user who calls it.
AdminOps ==
         [kind: {"add", "set"}, by: Users, user: Users, to: Roles]
    \cup [kind: {"remove"}, by: Users, user: Users]
    \cup [kind: {"delete"}, by: Users]
KeyOps == [kind: {"create", "revoke"}, by: Users, key: Keys]
Uses == [kind: {"use"}, key: Keys, at: 0..MaxTime]
Idle == [kind |-> "none"]
Ops == AdminOps \cup KeyOps \cup Uses \cup {Idle}

Steps == {"idle", "arrived", "locked", "authorized", "ready", "using"}
Locked == {"locked", "authorized", "ready"}

Access == INSTANCE Access

\* Types of the database and of the requests' local variables.
TypeOK ==
    /\ project \in {"absent", "live", "deleted"}
    /\ role \in [Users -> Roles \cup {"none"}]
    /\ creator \in [Keys -> Users \cup {Nobody}]
    /\ active \subseteq Keys
    /\ author \in Users \cup {Nobody}
    /\ lock \in Threads \cup {Nobody}
    /\ pc \in [Threads -> Steps]
    /\ req \in [Threads -> Ops]
    /\ seen \in [Threads -> Roles \cup {"none"}]
    /\ doomed \in [Threads -> SUBSET Keys]
    /\ lastUsed \in [Keys -> 0..MaxTime]
    /\ time \in 0..MaxTime

Init ==
    /\ Access!Init
    /\ lock = Nobody
    /\ pc = [t \in Threads |-> "idle"]
    /\ req = [t \in Threads |-> Idle]
    /\ seen = [t \in Threads |-> "none"]
    /\ doomed = [t \in Threads |-> {}]
    /\ lastUsed = [k \in Keys |-> 0]
    /\ time = 0

-----------------------------------------------------------------------------
\* create_project commits the project and its founder's admin row together.
CreateProject(u) ==
    /\ Access!CreateProject(u)
    /\ UNCHANGED <<lock, pc, req, seen, doomed, lastUsed, time>>

\* The transaction ends, and with it the lock; the thread is free again.
Finish(t) ==
    /\ lock' = IF lock = t THEN Nobody ELSE lock
    /\ pc' = [pc EXCEPT ![t] = "idle"]
    /\ req' = [req EXCEPT ![t] = Idle]
    /\ seen' = [seen EXCEPT ![t] = "none"]
    /\ doomed' = [doomed EXCEPT ![t] = {}]
    /\ UNCHANGED <<lastUsed, time>>

\* The request is routed.  Key requests read the membership (member_api) before
\* any lock; admin requests (session_admin) do not look yet.
Arrive(t, op) ==
    /\ pc[t] = "idle"
    /\ project = "live"
    /\ op \in KeyOps => Access!Member(op.by)
    /\ pc' = [pc EXCEPT ![t] = "arrived"]
    /\ req' = [req EXCEPT ![t] = op]
    /\ UNCHANGED <<dbVars, lock, seen, doomed, lastUsed, time>>

\* lock_project: waits for the row; a project deleted meanwhile is a 404.
LockProject(t) ==
    /\ pc[t] = "arrived"
    /\ lock = Nobody
    /\ \/ /\ project = "live"
          /\ lock' = t
          /\ pc' = [pc EXCEPT ![t] = "locked"]
          /\ UNCHANGED <<req, seen, doomed, lastUsed, time>>
       \/ /\ project # "live"
          /\ Finish(t)
    /\ UNCHANGED dbVars

\* Mutants: a key request is not rechecked; any member passes for an admin.
MayActOnce(t) == req[t] \in AdminOps => role[req[t].by] = "admin"
MayActAsMember(t) == role[req[t].by] # "none"

\* An admin request needs an admin, a key request a member.
MayAct(t) == IF req[t] \in AdminOps THEN role[req[t].by] = "admin"
                                   ELSE role[req[t].by] # "none"

\* membership_for, read afresh under the lock.
Authorize(t) ==
    /\ pc[t] = "locked"
    /\ MayAct(t)
    /\ seen' = [seen EXCEPT ![t] = role[req[t].by]]
    /\ pc' = [pc EXCEPT ![t] = "authorized"]
    /\ UNCHANGED <<dbVars, lock, req, doomed, lastUsed, time>>

\* Mutant: off by one.
LastAdminOffByOne(u) == role[u] = "admin" /\ Cardinality(Access!Admins) < 1

\* Taking the role from u leaves no admin, by _admin_count.
LastAdmin(u) == role[u] = "admin" /\ Cardinality(Access!Admins) <= 1

\* The handler reads the rows it is about to change and applies its guards.
CheckAdd(t) ==
    /\ req[t].kind = "add"
    /\ ~Access!Member(req[t].user)
    /\ UNCHANGED doomed

CheckSet(t) ==
    /\ req[t].kind = "set"
    /\ Access!Member(req[t].user)
    /\ req[t].to # "admin" => ~LastAdmin(req[t].user)
    /\ UNCHANGED doomed

CheckRemove(t) ==
    /\ req[t].kind = "remove"
    /\ Access!Member(req[t].user)
    /\ ~LastAdmin(req[t].user)
    /\ doomed' = [doomed EXCEPT ![t] = Access!KeysOf(req[t].user)]

CheckDelete(t) == req[t].kind = "delete" /\ UNCHANGED doomed

CheckCreateKey(t) ==
    /\ req[t].kind = "create"
    /\ doomed' = [doomed EXCEPT ![t] = Access!KeysOf(req[t].by)]

CheckRevokeKey(t) ==
    /\ req[t].kind = "revoke"
    /\ creator[req[t].key] # Nobody
    /\ seen[t] = "admin" \/ creator[req[t].key] = req[t].by
    /\ doomed' = [doomed EXCEPT ![t] = {req[t].key}]

Check(t) ==
    /\ pc[t] = "authorized"
    /\ \/ CheckAdd(t) \/ CheckSet(t) \/ CheckRemove(t) \/ CheckDelete(t)
       \/ CheckCreateKey(t) \/ CheckRevokeKey(t)
    /\ pc' = [pc EXCEPT ![t] = "ready"]
    /\ UNCHANGED <<dbVars, lock, req, seen, lastUsed, time>>

\* db.commit(): what was decided is written, whatever the database holds now.
CommitRole(t) ==
    /\ req[t].kind \in {"add", "set"}
    /\ role' = [role EXCEPT ![req[t].user] = req[t].to]
    /\ UNCHANGED <<project, creator, active>>

CommitRemove(t) ==
    /\ req[t].kind = "remove"
    /\ role' = [role EXCEPT ![req[t].user] = "none"]
    /\ active' = active \ doomed[t]
    /\ UNCHANGED <<project, creator>>

\* The cascade deletes memberships and keys with the project.
CommitDelete(t) ==
    /\ req[t].kind = "delete"
    /\ project' = "deleted"
    /\ role' = [u \in Users |-> "none"]
    /\ active' = {}
    /\ UNCHANGED creator

\* generate_api_key: a key nobody was ever given.
CommitCreateKey(t) ==
    /\ req[t].kind = "create"
    /\ creator[req[t].key] = Nobody
    /\ creator' = [creator EXCEPT ![req[t].key] = req[t].by]
    /\ active' = (active \ doomed[t]) \cup {req[t].key}
    /\ UNCHANGED <<project, role>>

CommitRevokeKey(t) ==
    /\ req[t].kind = "revoke"
    /\ active' = active \ doomed[t]
    /\ UNCHANGED <<project, role, creator>>

Commit(t) ==
    /\ pc[t] = "ready"
    /\ \/ CommitRole(t) \/ CommitRemove(t) \/ CommitDelete(t)
       \/ CommitCreateKey(t) \/ CommitRevokeKey(t)
    /\ author' = req[t].by
    /\ Finish(t)

\* Refused by a check (403, 404, 409, last admin), or the connection broke:
\* the transaction rolls back.
GiveUp(t) ==
    /\ pc[t] \in Locked \cup {"arrived"}
    /\ Finish(t)
    /\ UNCHANGED dbVars

-----------------------------------------------------------------------------
\* A catalog request authenticates with a key (_resolve_api_key) ...
UseKey(t, k) ==
    /\ pc[t] = "idle"
    /\ k \in active
    /\ time < MaxTime
    /\ time' = time + 1
    /\ pc' = [pc EXCEPT ![t] = "using"]
    /\ req' = [req EXCEPT ![t] = [kind |-> "use", key |-> k, at |-> time + 1]]
    /\ UNCHANGED <<dbVars, lock, seen, doomed, lastUsed>>

\* Mutant: the last recorded use wins.
LastRecorded(a, b) == b

Later(a, b) == IF a > b THEN a ELSE b

\* ... and get_db records the use after the response, unless that fails or the
\* key was revoked meanwhile.
RecordUse(t) ==
    /\ pc[t] = "using"
    /\ LET k == req[t].key IN
         \/ /\ k \in active
            /\ lastUsed' = [lastUsed EXCEPT ![k] = Later(@, req[t].at)]
         \/ UNCHANGED lastUsed
    /\ pc' = [pc EXCEPT ![t] = "idle"]
    /\ req' = [req EXCEPT ![t] = Idle]
    /\ UNCHANGED <<dbVars, lock, seen, doomed, time>>

ThreadStep(t) ==
    \/ LockProject(t) \/ Authorize(t) \/ Check(t) \/ Commit(t) \/ GiveUp(t)
    \/ RecordUse(t)

Next ==
    \/ \E u \in Users : CreateProject(u)
    \/ \E t \in Threads :
         \/ \E op \in AdminOps \cup KeyOps : Arrive(t, op)
         \/ \E k \in Keys : UseKey(t, k)
         \/ ThreadStep(t)

Spec == Init /\ [][Next]_vars

-----------------------------------------------------------------------------
\* A live project keeps an admin, whatever demotions, removals and departures
\* run at the same time (the LAST_ADMIN guards of members.py).
HasAdmin == project = "live" => Access!Admins # {}

\* No active key outlives its creator's membership: a removal and a key creation
\* that overlap never leave one behind (remove_member, create_api_key).
NoOrphanKey == \A k \in active : Access!Member(creator[k])

\* A user holds at most one active key, even when rotations overlap
\* (create_api_key).
OneKeyEach == \A k, l \in active : creator[k] = creator[l] => k = l

\* The keys that work are one at most for each member, and none of anybody else.
KeysSound == NoOrphanKey /\ OneKeyEach

\* Every change is authorized by the roles at the moment it commits, and decided
\* on the rows of that moment: nobody acts on a role already taken away.
ActsAtomically == Access!Spec

\* last_used_at only moves forward, in whatever order the uses are recorded, and
\* not after the key is revoked (get_db).
UsageMonotone ==
    [][\A k \in Keys : lastUsed'[k] # lastUsed[k] =>
                          lastUsed'[k] > lastUsed[k] /\ k \in active]_vars
=============================================================================
