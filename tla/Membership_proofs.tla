--------------------------- MODULE Membership_proofs ---------------------------
(***************************************************************************)
(* Membership implements Access for any users, keys and threads, and so a  *)
(* live project keeps an admin, no active key is orphaned, and nobody has  *)
(* two active keys; and the sessions of a user, which are an account's     *)
(* other way in.                                                           *)
(***************************************************************************)
EXTENDS Membership, Sessions, FiniteSetTheorems, TLAPS

\* The lock belongs to the one thread that is past lock_project.
LockHeld == \A t \in Threads : pc[t] \in Locked <=> lock = t

\* A request that changes membership or keys is one of those handlers.
Served ==
    \A t \in Threads :
        /\ pc[t] \in Locked \cup {"arrived"} => req[t] \in AdminOps \cup KeyOps
        /\ pc[t] \in Locked => project = "live"
        /\ pc[t] = "using" => req[t] \in Uses

\* What a thread read under the lock is still true.
Allowed(op) == IF op \in AdminOps THEN role[op.by] = "admin" ELSE role[op.by] # "none"
Authorized ==
    \A t \in Threads : pc[t] \in {"authorized", "ready"} =>
        seen[t] = role[req[t].by] /\ Allowed(req[t])

\* The guards it passed still hold, and it revokes what there is to revoke.
Decision(t) ==
    \/ req[t].kind = "add" /\ ~Access!Member(req[t].user)
    \/ /\ req[t].kind = "set"
       /\ Access!Member(req[t].user)
       /\ req[t].to # "admin" => ~LastAdmin(req[t].user)
    \/ /\ req[t].kind = "remove"
       /\ Access!Member(req[t].user)
       /\ ~LastAdmin(req[t].user)
       /\ doomed[t] = Access!KeysOf(req[t].user)
    \/ req[t].kind = "delete"
    \/ req[t].kind = "create" /\ doomed[t] = Access!KeysOf(req[t].by)
    \/ /\ req[t].kind = "revoke"
       /\ seen[t] = "admin" \/ creator[req[t].key] = req[t].by
       /\ doomed[t] = {req[t].key}
Decided == \A t \in Threads : pc[t] = "ready" => Decision(t)

KeysIssued == \A k \in active : creator[k] # Nobody

IInv ==
    /\ TypeOK
    /\ LockHeld /\ Served /\ Authorized /\ Decided
    /\ KeysIssued /\ HasAdmin /\ NoOrphanKey /\ OneKeyEach

-----------------------------------------------------------------------------
\* An admin who is not the last one leaves another behind.
LEMMA AnotherAdmin ==
    ASSUME NEW u \in Users, ~LastAdmin(u)
    PROVE  Access!Admins # {u}
  <1> SUFFICES ASSUME Access!Admins = {u}
               PROVE  FALSE
    OBVIOUS
  <1>1. role[u] = "admin"
    BY DEF Access!Admins
  <1>2. Cardinality({u}) = 1
    BY FS_Singleton
  <1>3. QED
    BY <1>1, <1>2 DEF LastAdmin

\* The fields of each kind of request.
LEMMA Fields ==
    /\ \A op \in AdminOps :
          op.by \in Users /\ op.kind \in {"add", "set", "remove", "delete"}
    /\ \A op \in AdminOps : op.kind \in {"add", "set", "remove"} => op.user \in Users
    /\ \A op \in AdminOps : op.kind \in {"add", "set"} => op.to \in Roles
    /\ \A op \in KeyOps : op.by \in Users /\ op.key \in Keys
    /\ \A op \in KeyOps : op.kind \in {"create", "revoke"}
    /\ \A op \in Uses : op.key \in Keys /\ op.at \in 0..MaxTime /\ op.kind = "use"
  BY DEF AdminOps, KeyOps, Uses

\* Ending a request keeps the types of what it does not write.
LEMMA FinishFacts ==
    ASSUME NEW t \in Threads, TypeOK, Finish(t)
    PROVE  /\ lock' \in Threads \cup {Nobody}
           /\ pc' \in [Threads -> Steps]
           /\ req' \in [Threads -> Ops]
           /\ seen' \in [Threads -> Roles \cup {"none"}]
           /\ doomed' \in [Threads -> SUBSET Keys]
           /\ lastUsed' \in [Keys -> 0..MaxTime] /\ time' \in 0..MaxTime
  BY DEF TypeOK, Finish, Steps, Ops

\* A commit is one of Access's operations.
LEMMA CommitStep ==
    ASSUME TypeOK, Served, Authorized, Decided, KeysIssued, NEW t \in Threads, Commit(t)
    PROVE  Access!Next
  <1> USE Fields DEF TypeOK, Served, Authorized, Decided, Decision, Allowed, Locked,
          Access!Admins
  <1> DEFINE op == req[t]
  <1>0. pc[t] = "ready" /\ op \in AdminOps \cup KeyOps /\ author' = op.by
    BY DEF Commit
  <1>1. CASE CommitRole(t)
    <2>1. op \in AdminOps /\ op.user \in Users /\ op.to \in Roles /\ op.by \in Access!Admins
      BY <1>0, <1>1 DEF CommitRole
    <2>2. Access!AddMember(op.by, op.user, op.to) \/ Access!SetRole(op.by, op.user, op.to)
      BY <1>0, <1>1, <2>1, AnotherAdmin
         DEF CommitRole, Access!AddMember, Access!SetRole, Access!LastAdmin
    <2>3. QED
      BY <2>1, <2>2 DEF Access!Next, Roles
  <1>2. CASE CommitRemove(t)
    <2>1. op \in AdminOps /\ op.user \in Users /\ op.by \in Access!Admins
      BY <1>0, <1>2 DEF CommitRemove
    <2>2. Access!RemoveMember(op.by, op.user)
      BY <1>0, <1>2, <2>1, AnotherAdmin
         DEF CommitRemove, Access!RemoveMember, Access!LastAdmin
    <2>3. QED
      BY <2>1, <2>2 DEF Access!Next
  <1>3. CASE CommitDelete(t)
    <2>1. op.by \in Access!Admins
      BY <1>0, <1>3 DEF CommitDelete
    <2>2. QED
      BY <1>0, <1>3, <2>1 DEF CommitDelete, Access!Next, Access!DeleteProject
  <1>4. CASE CommitCreateKey(t)
    <2>0. op.kind = "create" /\ op \in KeyOps /\ op \notin AdminOps
      BY <1>0, <1>4 DEF CommitCreateKey
    <2>1. op.by \in Users /\ op.key \in Keys /\ Access!Member(op.by)
      BY <1>0, <2>0 DEF Access!Member
    <2>2. Access!CreateKey(op.by, op.key)
      BY <1>0, <1>4, <2>0, <2>1 DEF CommitCreateKey, Access!CreateKey
    <2>3. QED
      BY <2>1, <2>2 DEF Access!Next
  <1>5. CASE CommitRevokeKey(t)
    <2>0. op.kind = "revoke" /\ op \in KeyOps /\ op \notin AdminOps
      BY <1>0, <1>5 DEF CommitRevokeKey
    <2>1. op.by \in Users /\ op.key \in Keys /\ Access!Member(op.by)
      BY <1>0, <2>0 DEF Access!Member
    <2>2. Access!RevokeKey(op.by, op.key)
      BY <1>0, <1>5, <2>0, <2>1 DEF CommitRevokeKey, Access!RevokeKey
    <2>3. QED
      BY <2>1, <2>2 DEF Access!Next
  <1>6. QED
    BY <1>1, <1>2, <1>3, <1>4, <1>5 DEF Commit

\* Every step is a step of Access or leaves the database alone.
LEMMA AccessStep ==
    ASSUME TypeOK, Served, Authorized, Decided, KeysIssued, [Next]_vars
    PROVE  [Access!Next]_(Access!vars)
  <1>1. CASE \E u \in Users : CreateProject(u)
    BY <1>1 DEF CreateProject, Access!Next
  <1>2. ASSUME NEW t \in Threads, Commit(t)
        PROVE  Access!Next
    BY <1>2, CommitStep
  <1>3. ASSUME NEW t \in Threads, NEW op \in AdminOps \cup KeyOps, Arrive(t, op)
        PROVE  UNCHANGED Access!vars
    BY <1>3 DEF Arrive, dbVars, Access!vars
  <1>4. ASSUME NEW t \in Threads, NEW k \in Keys, UseKey(t, k)
        PROVE  UNCHANGED Access!vars
    BY <1>4 DEF UseKey, dbVars, Access!vars
  <1>5. ASSUME NEW t \in Threads,
               LockProject(t) \/ Authorize(t) \/ Check(t) \/ GiveUp(t) \/ RecordUse(t)
        PROVE  UNCHANGED Access!vars
    BY <1>5 DEF LockProject, Authorize, MayAct, Check, GiveUp, RecordUse, dbVars,
                Access!vars
  <1>6. CASE UNCHANGED vars
    BY <1>6 DEF vars, dbVars, Access!vars
  <1>7. QED
    BY <1>1, <1>2, <1>3, <1>4, <1>5, <1>6 DEF Next, ThreadStep

\* What Access's operations preserve.
LEMMA AccessKeeps ==
    ASSUME TypeOK, KeysIssued, HasAdmin, NoOrphanKey, OneKeyEach, [Access!Next]_(Access!vars)
    PROVE  (KeysIssued /\ HasAdmin /\ NoOrphanKey /\ OneKeyEach)'
  <1> DEFINE Goal == KeysIssued /\ HasAdmin /\ NoOrphanKey /\ OneKeyEach
  <1> SUFFICES Goal'
    OBVIOUS
  <1> USE MembershipAssumption
      DEF TypeOK, KeysIssued, HasAdmin, NoOrphanKey, OneKeyEach, Access!Member, Access!Admins,
          Access!KeysOf
  <1>1. ASSUME NEW u \in Users, Access!CreateProject(u)
        PROVE  Goal'
    BY <1>1 DEF Access!CreateProject
  <1>2. ASSUME NEW by \in Users, NEW u \in Users, NEW r \in Roles,
               Access!AddMember(by, u, r)
        PROVE  Goal'
    BY <1>2 DEF Access!AddMember, Roles
  <1>3. ASSUME NEW by \in Users, NEW u \in Users, NEW r \in Roles, Access!SetRole(by, u, r)
        PROVE  Goal'
    <2>1. HasAdmin'
      BY <1>3 DEF Access!SetRole, Access!LastAdmin
    <2>2. QED
      BY <1>3, <2>1 DEF Access!SetRole, Roles
  <1>4. ASSUME NEW by \in Users, NEW u \in Users, Access!RemoveMember(by, u)
        PROVE  Goal'
    <2>1. HasAdmin'
      BY <1>4 DEF Access!RemoveMember, Access!LastAdmin
    <2>2. QED
      BY <1>4, <2>1 DEF Access!RemoveMember
  <1>5. ASSUME NEW by \in Users, Access!DeleteProject(by)
        PROVE  Goal'
    BY <1>5 DEF Access!DeleteProject
  <1>6. ASSUME NEW by \in Users, NEW k \in Keys, Access!CreateKey(by, k)
        PROVE  Goal'
    BY <1>6 DEF Access!CreateKey
  <1>7. ASSUME NEW by \in Users, NEW k \in Keys, Access!RevokeKey(by, k)
        PROVE  Goal'
    BY <1>7 DEF Access!RevokeKey
  <1>8. CASE UNCHANGED Access!vars
    BY <1>8 DEF Access!vars
  <1>9. QED
    BY <1>1, <1>2, <1>3, <1>4, <1>5, <1>6, <1>7, <1>8 DEF Access!Next, Roles

-----------------------------------------------------------------------------
\* Access's operations keep the database typed.
LEMMA AccessTypes ==
    ASSUME TypeOK, [Access!Next]_(Access!vars)
    PROVE  /\ project' \in {"absent", "live", "deleted"}
           /\ role' \in [Users -> Roles \cup {"none"}]
           /\ creator' \in [Keys -> Users \cup {Nobody}]
           /\ active' \subseteq Keys
           /\ author' \in Users \cup {Nobody}
  BY DEF TypeOK, Roles, Access!Next, Access!vars, Access!CreateProject, Access!AddMember,
     Access!SetRole, Access!RemoveMember, Access!DeleteProject, Access!CreateKey,
     Access!RevokeKey, Access!KeysOf

\* Every action of Membership keeps the variables typed.
LEMMA TypeStep ==
    ASSUME TypeOK, Served, Authorized, Decided, KeysIssued, [Next]_vars
    PROVE  TypeOK'
  <1> USE DEF Steps, dbVars, Access!vars
  <1>0. /\ project' \in {"absent", "live", "deleted"}
        /\ role' \in [Users -> Roles \cup {"none"}]
        /\ creator' \in [Keys -> Users \cup {Nobody}]
        /\ active' \subseteq Keys
        /\ author' \in Users \cup {Nobody}
    BY AccessStep, AccessTypes
  <1>1. ASSUME NEW u \in Users, CreateProject(u)
        PROVE  TypeOK'
    BY <1>0, <1>1 DEF TypeOK, CreateProject
  <1>2. ASSUME NEW t \in Threads, NEW op \in AdminOps \cup KeyOps, Arrive(t, op)
        PROVE  TypeOK'
    BY <1>0, <1>2 DEF TypeOK, Arrive, Ops
  <1>3. ASSUME NEW t \in Threads, LockProject(t)
        PROVE  TypeOK'
    <2>1. CASE project = "live"
      BY <1>0, <1>3, <2>1 DEF TypeOK, LockProject
    <2>2. CASE project # "live"
      BY <1>0, <1>3, <2>2, FinishFacts DEF TypeOK, LockProject
    <2>3. QED
      BY <2>1, <2>2
  <1>4. ASSUME NEW t \in Threads, Authorize(t)
        PROVE  TypeOK'
    <2>1. role[req[t].by] \in Roles \cup {"none"}
      BY <1>4, Fields DEF TypeOK, Authorize, MayAct, Served, Locked
    <2>2. QED
      BY <1>0, <1>4, <2>1 DEF TypeOK, Authorize, MayAct
  <1>5. ASSUME NEW t \in Threads, Check(t)
        PROVE  TypeOK'
    <2>1. req[t] \in AdminOps \cup KeyOps
      BY <1>5 DEF Check, Served, Locked
    <2>2. req[t].kind = "revoke" => req[t].key \in Keys
      BY <2>1, Fields
    <2>3. doomed' \in [Threads -> SUBSET Keys]
      BY <1>5, <2>2 DEF TypeOK, Check, CheckAdd, CheckSet, CheckRemove, CheckDelete,
         CheckCreateKey, CheckRevokeKey, Access!KeysOf
    <2>4. QED
      BY <1>0, <1>5, <2>3 DEF TypeOK, Check
  <1>6. ASSUME NEW t \in Threads, Commit(t) \/ GiveUp(t)
        PROVE  TypeOK'
    BY <1>0, <1>6, FinishFacts DEF TypeOK, Commit, GiveUp
  <1>7. ASSUME NEW t \in Threads, NEW k \in Keys, UseKey(t, k)
        PROVE  TypeOK'
    <2>1. time' \in 0..MaxTime
      BY <1>7, MembershipAssumption DEF TypeOK, UseKey
    <2>2. req' \in [Threads -> Ops]
      BY <1>7, <2>1 DEF TypeOK, UseKey, Ops, Uses
    <2>3. pc' \in [Threads -> Steps]
      BY <1>7 DEF TypeOK, UseKey
    <2>4. UNCHANGED <<lock, seen, doomed, lastUsed>>
      BY <1>7 DEF UseKey
    <2>5. QED
      BY <1>0, <2>1, <2>2, <2>3, <2>4 DEF TypeOK
  <1>8. ASSUME NEW t \in Threads, RecordUse(t)
        PROVE  TypeOK'
    <2>0. req[t].key \in Keys /\ req[t].at \in 0..MaxTime
      BY <1>8, Fields DEF RecordUse, Served
    <2>1. req' \in [Threads -> Ops]
      BY <1>8 DEF TypeOK, RecordUse, Ops
    <2>2. lastUsed' \in [Keys -> 0..MaxTime]
      BY <1>8, <2>0 DEF TypeOK, RecordUse, Later
    <2>3. QED
      BY <1>0, <1>8, <2>1, <2>2 DEF TypeOK, RecordUse
  <1>9. CASE UNCHANGED vars
    BY <1>0, <1>9 DEF TypeOK, vars
  <1>10. QED
    BY <1>1, <1>2, <1>3, <1>4, <1>5, <1>6, <1>7, <1>8, <1>9 DEF Next, ThreadStep

\* No two threads hold the lock, so what a thread read stays true until it ends.
LEMMA LockStep ==
    ASSUME TypeOK, LockHeld, Served, Authorized, Decided, [Next]_vars
    PROVE  (LockHeld /\ Served /\ Authorized /\ Decided)'
  <1> DEFINE Goal == LockHeld /\ Served /\ Authorized /\ Decided
  <1> SUFFICES Goal'
    OBVIOUS
  <1> USE MembershipAssumption
      DEF TypeOK, LockHeld, Served, Authorized, Decided, Allowed, Decision, Locked, dbVars,
          Access!Member, LastAdmin, Access!Admins, Access!KeysOf
  <1>1. ASSUME NEW u \in Users, CreateProject(u)
        PROVE  Goal'
    BY <1>1 DEF CreateProject, Access!CreateProject
  <1>2. ASSUME NEW t \in Threads, NEW op \in AdminOps \cup KeyOps, Arrive(t, op)
        PROVE  Goal'
    <2>1. req'[t] \in AdminOps \cup KeyOps /\ pc[t] = "idle" /\ pc'[t] = "arrived"
            /\ project = "live"
      BY <1>2 DEF Arrive
    <2>2. \A s \in Threads : s # t => pc'[s] = pc[s] /\ req'[s] = req[s]
      BY <1>2 DEF Arrive
    <2>3. UNCHANGED <<dbVars, lock, seen, doomed>>
      BY <1>2 DEF Arrive
    <2>4. \A s \in Threads : s # t => /\ Decision(s)' = Decision(s)
                                      /\ Allowed(req[s])' = Allowed(req[s])
      BY <2>2, <2>3
    <2> HIDE DEF Decision, Allowed
    <2>5. QED
      BY <2>1, <2>2, <2>3, <2>4
  <1>3. ASSUME NEW t \in Threads, LockProject(t)
        PROVE  Goal'
    BY <1>3 DEF LockProject, Finish
  <1>4. ASSUME NEW t \in Threads, Authorize(t)
        PROVE  Goal'
    BY <1>4 DEF Authorize, MayAct
  <1>5. ASSUME NEW t \in Threads, Check(t)
        PROVE  Goal'
    <2>1. pc[t] = "authorized" /\ pc'[t] = "ready"
      BY <1>5 DEF Check
    <2>2. \A s \in Threads : s # t => pc'[s] = pc[s] /\ doomed'[s] = doomed[s]
      BY <1>5 DEF Check, CheckAdd, CheckSet, CheckRemove, CheckDelete, CheckCreateKey,
         CheckRevokeKey
    <2>3. UNCHANGED <<dbVars, lock, req, seen>>
      BY <1>5 DEF Check
    <2>4. Decision(t)'
      BY <1>5, <2>3 DEF Check, CheckAdd, CheckSet, CheckRemove, CheckDelete, CheckCreateKey,
         CheckRevokeKey
    <2>5. \A s \in Threads : s # t => Decision(s)' = Decision(s)
      BY <2>2, <2>3
    <2>6. \A s \in Threads : Allowed(req[s])' = Allowed(req[s])
      BY <2>3
    <2> HIDE DEF Decision, Allowed
    <2>7. QED
      BY <2>1, <2>2, <2>3, <2>4, <2>5, <2>6
  <1>6. ASSUME NEW t \in Threads, Commit(t)
        PROVE  Goal'
    <2>1. pc[t] = "ready" /\ lock = t
      BY <1>6 DEF Commit
    <2>2. \A s \in Threads :
            s # t => pc[s] \notin Locked /\ pc'[s] = pc[s] /\ req'[s] = req[s]
      BY <1>6, <2>1 DEF Commit, Finish
    <2>3. pc'[t] = "idle" /\ lock' = Nobody
      BY <1>6, <2>1 DEF Commit, Finish
    <2>4. QED
      BY <2>2, <2>3
  <1>7. ASSUME NEW t \in Threads, GiveUp(t)
        PROVE  Goal'
    <2>1. pc'[t] = "idle" /\ lock' = IF lock = t THEN Nobody ELSE lock
      BY <1>7 DEF GiveUp, Finish
    <2>2. \A s \in Threads : s # t => /\ pc'[s] = pc[s] /\ req'[s] = req[s]
                                      /\ seen'[s] = seen[s] /\ doomed'[s] = doomed[s]
      BY <1>7 DEF GiveUp, Finish
    <2>3. UNCHANGED dbVars
      BY <1>7 DEF GiveUp
    <2>4. \A s \in Threads : s # t => /\ Decision(s)' = Decision(s)
                                      /\ Allowed(req[s])' = Allowed(req[s])
      BY <2>2, <2>3
    <2> HIDE DEF Decision, Allowed
    <2>5. QED
      BY <2>1, <2>2, <2>3, <2>4
  <1>8. ASSUME NEW t \in Threads, NEW k \in Keys, UseKey(t, k)
        PROVE  Goal'
    <2>1. [kind |-> "use", key |-> k, at |-> time + 1] \in Uses
      BY <1>8 DEF UseKey, Uses
    <2>2. req'[t] \in Uses /\ pc'[t] = "using" /\ pc[t] = "idle"
      BY <1>8, <2>1 DEF UseKey
    <2>3. \A s \in Threads : s # t => pc'[s] = pc[s] /\ req'[s] = req[s]
      BY <1>8 DEF UseKey
    <2>4. UNCHANGED <<dbVars, lock, seen, doomed>>
      BY <1>8 DEF UseKey
    <2>5. \A s \in Threads : s # t => /\ Decision(s)' = Decision(s)
                                      /\ Allowed(req[s])' = Allowed(req[s])
      BY <2>3, <2>4
    <2> HIDE DEF Decision, Allowed
    <2>6. QED
      BY <2>2, <2>3, <2>4, <2>5
  <1>9. ASSUME NEW t \in Threads, RecordUse(t)
        PROVE  Goal'
    <2>1. pc[t] = "using" /\ pc'[t] = "idle"
      BY <1>9 DEF RecordUse, Finish
    <2>2. \A s \in Threads : s # t => /\ pc'[s] = pc[s] /\ req'[s] = req[s]
                                      /\ seen'[s] = seen[s] /\ doomed'[s] = doomed[s]
      BY <1>9 DEF RecordUse, Finish
    <2>3. UNCHANGED <<dbVars, lock>>
      BY <1>9 DEF RecordUse
    <2>4. \A s \in Threads : s # t => /\ Decision(s)' = Decision(s)
                                      /\ Allowed(req[s])' = Allowed(req[s])
      BY <2>2, <2>3
    <2> HIDE DEF Decision, Allowed
    <2>5. QED
      BY <2>1, <2>2, <2>3, <2>4
  <1>10. CASE UNCHANGED vars
    <2>1. UNCHANGED <<dbVars, lock, pc, req, seen, doomed>>
      BY <1>10 DEF vars
    <2>2. \A s \in Threads : /\ Decision(s)' = Decision(s)
                             /\ Allowed(req[s])' = Allowed(req[s])
      BY <2>1
    <2> HIDE DEF Decision, Allowed
    <2>3. QED
      BY <2>1, <2>2
  <1>11. QED
    BY <1>1, <1>2, <1>3, <1>4, <1>5, <1>6, <1>7, <1>8, <1>9, <1>10 DEF Next, ThreadStep

-----------------------------------------------------------------------------
\* The inductive invariant: what a thread read under the project lock stays true.
THEOREM Invariance == Spec => []IInv
  <1>1. Init => IInv
    BY MembershipAssumption
       DEF Init, IInv, TypeOK, LockHeld, Served, Authorized, Decided, KeysIssued, HasAdmin,
           NoOrphanKey, OneKeyEach, Steps, Locked, Ops, Access!Init
  <1>2. IInv /\ [Next]_vars => IInv'
    BY TypeStep, LockStep, AccessStep, AccessKeeps DEF IInv
  <1>3. QED
    BY <1>1, <1>2, PTL DEF Spec

\* Types of the database and of the requests' local variables.
THEOREM TypeCorrect == Spec => []TypeOK
  BY Invariance, PTL DEF IInv

\* A live project always has an admin.
THEOREM AdminRemains == Spec => []HasAdmin
  BY Invariance, PTL DEF IInv

\* No active key outlives its creator's membership.
THEOREM KeysFollowMembers == Spec => []NoOrphanKey
  BY Invariance, PTL DEF IInv

\* Nobody has two active keys.
THEOREM OneActiveKey == Spec => []OneKeyEach
  BY Invariance, PTL DEF IInv

\* The working keys are one at most for each member, and none of anybody else.
THEOREM KeysHold == Spec => []KeysSound
  BY KeysFollowMembers, OneActiveKey, PTL DEF KeysSound

\* Concurrent requests change membership and keys as atomic ones would.
THEOREM Refinement == Spec => ActsAtomically
  <1>1. Init => Access!Init
    BY DEF Init
  <1>2. IInv /\ [Next]_vars => [Access!Next]_(Access!vars)
    BY AccessStep DEF IInv
  <1>3. QED
    BY <1>1, <1>2, Invariance, PTL DEF Spec, ActsAtomically, Access!Spec

\* last_used_at only moves forward, and not after the key is revoked.
THEOREM UsesMoveForward == Spec => UsageMonotone
  <1> DEFINE Forward ==
        \A k \in Keys : lastUsed'[k] # lastUsed[k] =>
                           lastUsed'[k] > lastUsed[k] /\ k \in active
  <1>1. ASSUME IInv, [Next]_vars
        PROVE  [Forward]_vars
    <2>1. ASSUME NEW t \in Threads, RecordUse(t), NEW k \in Keys, lastUsed'[k] # lastUsed[k]
          PROVE  lastUsed'[k] > lastUsed[k] /\ k \in active
      <3>1. /\ req[t].key \in active
            /\ lastUsed' = [lastUsed EXCEPT ![req[t].key] = Later(@, req[t].at)]
        BY <2>1 DEF RecordUse
      <3>2. req[t].at \in 0..MaxTime /\ lastUsed \in [Keys -> 0..MaxTime] /\ MaxTime \in Nat
        BY <1>1, <2>1, Fields, MembershipAssumption DEF IInv, TypeOK, Served, RecordUse
      <3>3. k = req[t].key /\ lastUsed'[k] = Later(lastUsed[k], req[t].at)
        BY <2>1, <3>1, <3>2
      <3> QED
        BY <2>1, <3>1, <3>2, <3>3 DEF Later
    <2>2. ASSUME NEW t \in Threads, RecordUse(t)
          PROVE  Forward
      BY <2>1, <2>2
    <2>3. ASSUME \A t \in Threads : ~RecordUse(t)
          PROVE  UNCHANGED lastUsed
      BY <1>1, <2>3 DEF Next, ThreadStep, CreateProject, Arrive, UseKey, LockProject, Authorize,
                        Check, Commit, GiveUp, Finish, vars
    <2> QED
      BY <2>2, <2>3
  <1> QED
    BY <1>1, Invariance, PTL DEF Spec, UsageMonotone
-----------------------------------------------------------------------------
(* The sessions of a user (Sessions), for any number of logins and logouts. *)

\* Tokens, and what logouts have seen of them, belong to logins that are done.
TokensDone ==
    \A t \in Requests :
        \/ token[t] # None \/ t \in revoked \/ \E r \in Requests : t \in request[r].seen
        => request[t].pc = "done"

LoggingOut == {r \in Requests : request[r].pc = "read"}

\* While no logout has set the version back, none has read a version ahead of it, no
\* token is ahead of it or of a logout that has seen it, and the ended ones are behind.
NoneAhead == \A t \in Requests : token[t] # None => token[t] <= user.version
EndedBehind == \A t \in revoked : token[t] # None => token[t] < user.version
ReadBefore ==
    \A r \in LoggingOut :
        /\ request[r].version <= user.version
        /\ \A t \in request[r].seen : token[t] # None => token[t] <= request[r].version

Rising == NoneAhead /\ EndedBehind /\ ReadBefore

SessionsInv == SessionsTypeOK /\ TokensDone /\ (~setBack => Rising)

\* The initial state satisfies the inductive invariant.
LEMMA InitSessions == SessionsInit => SessionsInv
<1>. SUFFICES ASSUME SessionsInit PROVE SessionsInv
  OBVIOUS
<1>1. SessionsTypeOK
  BY SessionsAssumption DEF SessionsInit, SessionsTypeOK, Pcs
<1>2. TokensDone
  BY DEF SessionsInit, TokensDone
<1>3. Rising
  BY DEF SessionsInit, Rising, NoneAhead, EndedBehind, ReadBefore, LoggingOut
<1>. QED
  BY <1>1, <1>2, <1>3 DEF SessionsInv

\* Every step, and every stutter, preserves the types.
LEMMA StepTypes == SessionsTypeOK /\ [SessionsNext]_sessionsVars => SessionsTypeOK'
<1>. SUFFICES ASSUME SessionsTypeOK, [SessionsNext]_sessionsVars PROVE SessionsTypeOK'
  OBVIOUS
<1>. USE SessionsAssumption DEF SessionsTypeOK, Pcs
<1>1. ASSUME NEW r \in Requests, NEW p \in Profiles, Look(r, p) PROVE SessionsTypeOK'
  BY <1>1 DEF Look, Exists
<1>2. ASSUME NEW r \in Requests, Store(r) PROVE SessionsTypeOK'
  BY <1>2 DEF Store, Stored
<1>3. ASSUME NEW r \in Requests, StoreTwice(r) PROVE SessionsTypeOK'
  BY <1>3 DEF StoreTwice
<1>4. ASSUME NEW r \in Requests, Issue(r) PROVE SessionsTypeOK'
  BY <1>4 DEF Issue
<1>5. ASSUME NEW t \in Requests, Expire(t) PROVE SessionsTypeOK'
  BY <1>5 DEF Expire
<1>6. ASSUME NEW r \in Requests, ReadLogout(r) PROVE SessionsTypeOK'
  BY <1>6 DEF ReadLogout, Issued
<1>7. ASSUME NEW r \in Requests, Logout(r) PROVE SessionsTypeOK'
  BY <1>7 DEF Logout, Raised
<1>8. CASE UNCHANGED sessionsVars
  BY <1>8 DEF sessionsVars
<1>. QED
  BY <1>1, <1>2, <1>3, <1>4, <1>5, <1>6, <1>7, <1>8 DEF SessionsNext, Step

\* Every step, and every stutter, preserves the inductive invariant.
LEMMA StepSessions == SessionsInv /\ [SessionsNext]_sessionsVars => SessionsInv'
<1>. SUFFICES ASSUME SessionsInv, [SessionsNext]_sessionsVars PROVE SessionsInv'
  OBVIOUS
<1>. USE SessionsAssumption
<1>0. SessionsTypeOK'
  BY StepTypes DEF SessionsInv
<1>1. ASSUME NEW r \in Requests, NEW p \in Profiles, Look(r, p)
      PROVE TokensDone' /\ (~setBack' => Rising')
  BY <1>1 DEF Look, SessionsInv, SessionsTypeOK, TokensDone, Rising, NoneAhead, EndedBehind,
              ReadBefore, LoggingOut
<1>2. ASSUME NEW r \in Requests, Store(r)
      PROVE TokensDone' /\ (~setBack' => Rising')
  BY <1>2 DEF Store, Stored, SessionsInv, SessionsTypeOK, TokensDone, Rising, NoneAhead, EndedBehind,
              ReadBefore, LoggingOut
<1>3. ASSUME NEW r \in Requests, StoreTwice(r)
      PROVE TokensDone' /\ (~setBack' => Rising')
  BY <1>3 DEF StoreTwice, SessionsInv, SessionsTypeOK, TokensDone, Rising, NoneAhead, EndedBehind,
              ReadBefore, LoggingOut
<1>4. ASSUME NEW r \in Requests, Issue(r)
      PROVE TokensDone' /\ (~setBack' => Rising')
  BY <1>4 DEF Issue, SessionsInv, SessionsTypeOK, TokensDone, Rising, NoneAhead, EndedBehind,
              ReadBefore, LoggingOut
<1>5. ASSUME NEW t \in Requests, Expire(t)
      PROVE TokensDone' /\ (~setBack' => Rising')
  BY <1>5 DEF Expire, SessionsInv, SessionsTypeOK, TokensDone, Rising, NoneAhead, EndedBehind,
              ReadBefore, LoggingOut
<1>6. ASSUME NEW r \in Requests, ReadLogout(r)
      PROVE TokensDone' /\ (~setBack' => Rising')
  <2>1. TokensDone'
    BY <1>6 DEF ReadLogout, Issued, SessionsInv, SessionsTypeOK, TokensDone
  <2>2. ASSUME ~setBack' PROVE Rising'
    <3>1. Rising
      BY <1>6, <2>2 DEF ReadLogout, SessionsInv
    <3>2. NoneAhead' /\ EndedBehind'
      BY <1>6, <3>1 DEF ReadLogout, Rising, NoneAhead, EndedBehind
    <3>3. ASSUME NEW s \in LoggingOut'
          PROVE  /\ request'[s].version <= user'.version
                 /\ \A t \in request'[s].seen : token'[t] # None => token'[t] <= request'[s].version
      <4>1. CASE s = r
        BY <1>6, <3>1, <4>1 DEF ReadLogout, Issued, Rising, NoneAhead, SessionsInv, SessionsTypeOK
      <4>2. CASE s # r
        BY <1>6, <3>1, <3>3, <4>2 DEF ReadLogout, LoggingOut, Rising, ReadBefore, SessionsInv, SessionsTypeOK
      <4>. QED
        BY <4>1, <4>2
    <3>. QED
      BY <3>2, <3>3 DEF Rising, ReadBefore
  <2>. QED
    BY <2>1, <2>2
<1>7. ASSUME NEW r \in Requests, Logout(r)
      PROVE TokensDone' /\ (~setBack' => Rising')
  <2>1. TokensDone'
    BY <1>7 DEF Logout, SessionsInv, SessionsTypeOK, TokensDone
  <2>2. ASSUME ~setBack' PROVE Rising'
    <3>1. Rising /\ r \in LoggingOut /\ request[r].version \in Nat /\ user.version \in Nat
      BY <1>7, <2>2 DEF Logout, SessionsInv, SessionsTypeOK, LoggingOut
    <3>2. user'.version = request[r].version + 1 /\ user'.version >= user.version /\ token' = token
      <4>1. user'.version = request[r].version + 1 /\ token' = token
        BY <1>7, <3>1 DEF Logout, Raised, SessionsInv, SessionsTypeOK
      <4>2. ~(request[r].version + 1 < user.version)
        BY <1>7, <2>2, Zenon DEF Logout, Raised
      <4>. QED
        BY <3>1, <4>1, <4>2
    <3>3. NoneAhead'
      BY <3>1, <3>2 DEF Rising, NoneAhead, SessionsInv, SessionsTypeOK
    <3>4. EndedBehind'
      <4>1. ASSUME NEW t \in revoked', token[t] # None PROVE token[t] < request[r].version + 1
        <5>1. token[t] \in Nat
          BY <4>1, <1>0 DEF SessionsTypeOK, SessionsInv
        <5>2. CASE t \in revoked
          BY <3>1, <3>2, <4>1, <5>1, <5>2 DEF Rising, EndedBehind
        <5>3. CASE t \in request[r].seen
          BY <3>1, <4>1, <5>1, <5>3 DEF Rising, ReadBefore
        <5>. QED
          BY <1>7, <4>1, <5>2, <5>3 DEF Logout
      <4>. QED
        BY <3>2, <4>1 DEF EndedBehind
    <3>5. ASSUME NEW s \in LoggingOut'
          PROVE  /\ request'[s].version <= user'.version
                 /\ \A t \in request'[s].seen : token'[t] # None => token'[t] <= request'[s].version
      <4>1. s \in LoggingOut /\ request'[s] = request[s] /\ request[s].version \in Nat
        BY <1>7, <3>5 DEF Logout, LoggingOut, SessionsInv, SessionsTypeOK
      <4>. QED
        BY <3>1, <3>2, <4>1 DEF Rising, ReadBefore
    <3>. QED
      BY <3>3, <3>4, <3>5 DEF Rising, ReadBefore
  <2>. QED
    BY <2>1, <2>2
<1>8. CASE UNCHANGED sessionsVars
  BY <1>8 DEF sessionsVars, SessionsInv, SessionsTypeOK, TokensDone, Rising, NoneAhead, EndedBehind,
              ReadBefore, LoggingOut
<1>. QED
  BY <1>0, <1>1, <1>2, <1>3, <1>4, <1>5, <1>6, <1>7, <1>8 DEF SessionsNext, Step, SessionsInv

\* The inductive invariant holds in every reachable state.
THEOREM SessionsInvariance == SessionsSpec => []SessionsInv
<1>. QED
  BY InitSessions, StepSessions, PTL DEF SessionsSpec

\* Every variable keeps its type.
THEOREM SessionsTyped == SessionsSpec => []SessionsTypeOK
<1>1. SessionsInv => SessionsTypeOK
  BY DEF SessionsInv
<1>. QED
  BY <1>1, SessionsInvariance, PTL

\* A session that a logout has ended stays ended unless a logout has set the version back.
THEOREM EndedSessions == SessionsSpec => []EndedStaysEnded
<1>1. SessionsInv => EndedStaysEnded
  BY DEF SessionsInv, SessionsTypeOK, Rising, EndedBehind, EndedStaysEnded, Accepted
<1>. QED
  BY <1>1, SessionsInvariance, PTL

\* Logins end no session and bring none back, whatever overlaps.
THEOREM LoginsAreHarmless == SessionsSpec => OnlyLogoutsEndSessions
<1>. DEFINE A == \A t \in Requests :
                    /\ token[t] # None /\ token'[t] # None /\ Accepted(t) # Accepted(t)'
                    => \E r \in Requests : Logout(r)
<1>1. SessionsInv /\ [SessionsNext]_sessionsVars => [A]_sessionsVars
  <2>. SUFFICES ASSUME SessionsInv, [SessionsNext]_sessionsVars, ~UNCHANGED sessionsVars,
                       NEW t \in Requests, token[t] # None, token'[t] # None,
                       Accepted(t) # Accepted(t)'
                PROVE \E r \in Requests : Logout(r)
    OBVIOUS
  <2>1. user'.version # user.version \/ token'[t] # token[t]
    BY DEF Accepted
  <2>2. PICK r \in Requests : Step(r)
    BY DEF SessionsNext
  <2>3. CASE Logout(r)
    BY <2>3
  <2>4. CASE \E p \in Profiles : Look(r, p)
    BY <2>1, <2>4 DEF Look
  <2>5. CASE Store(r)
    BY <2>1, <2>5 DEF Store, Stored, SessionsInv, SessionsTypeOK
  <2>6. CASE StoreTwice(r) \/ ReadLogout(r)
    BY <2>1, <2>6 DEF StoreTwice, ReadLogout
  <2>7. CASE Issue(r)
    BY <2>1, <2>7 DEF Issue, SessionsInv, SessionsTypeOK, TokensDone
  <2>8. CASE Expire(r)
    BY <2>1, <2>8 DEF Expire, SessionsInv, SessionsTypeOK
  <2>. QED
    BY <2>2, <2>3, <2>4, <2>5, <2>6, <2>7, <2>8 DEF Step
<1>. QED
  BY <1>1, SessionsInvariance, PTL DEF SessionsSpec, OnlyLogoutsEndSessions
=============================================================================
