-------------------------------- MODULE Access --------------------------------
(***************************************************************************)
(* What membership and API keys of one project promise: every change is    *)
(* made by somebody who may make it at that very moment, and takes effect  *)
(* at once, on the roles and keys of that moment.                          *)
(***************************************************************************)
CONSTANTS Users, Keys, Nobody

VARIABLES
    project,   \* "absent", "live" or "deleted"
    role,      \* project_members: the role of each user, "none" without a row
    creator,   \* api_keys.created_by of each key, Nobody before it is issued
    active,    \* the issued keys that are not revoked
    author     \* history: who made the latest change

vars == <<project, role, creator, active, author>>

Admins == {u \in Users : role[u] = "admin"}
Member(u) == role[u] # "none"
KeysOf(u) == {k \in active : creator[k] = u}

LastAdmin(u) == Admins = {u}

Init ==
    /\ project = "absent"
    /\ role = [u \in Users |-> "none"]
    /\ creator = [k \in Keys |-> Nobody]
    /\ active = {}
    /\ author = Nobody

CreateProject(u) ==
    /\ project = "absent"
    /\ project' = "live"
    /\ role' = [role EXCEPT ![u] = "admin"]
    /\ author' = u
    /\ UNCHANGED <<creator, active>>

AddMember(by, u, r) ==
    /\ by \in Admins
    /\ ~Member(u)
    /\ role' = [role EXCEPT ![u] = r]
    /\ author' = by
    /\ UNCHANGED <<project, creator, active>>

SetRole(by, u, r) ==
    /\ by \in Admins
    /\ Member(u)
    /\ r # "admin" => ~LastAdmin(u)
    /\ role' = [role EXCEPT ![u] = r]
    /\ author' = by
    /\ UNCHANGED <<project, creator, active>>

RemoveMember(by, u) ==
    /\ by \in Admins
    /\ Member(u)
    /\ ~LastAdmin(u)
    /\ role' = [role EXCEPT ![u] = "none"]
    /\ active' = active \ KeysOf(u)
    /\ author' = by
    /\ UNCHANGED <<project, creator>>

DeleteProject(by) ==
    /\ by \in Admins
    /\ project' = "deleted"
    /\ role' = [u \in Users |-> "none"]
    /\ active' = {}
    /\ author' = by
    /\ UNCHANGED creator

\* A new key replaces the caller's earlier ones.
CreateKey(by, k) ==
    /\ Member(by)
    /\ creator[k] = Nobody
    /\ creator' = [creator EXCEPT ![k] = by]
    /\ active' = (active \ KeysOf(by)) \cup {k}
    /\ author' = by
    /\ UNCHANGED <<project, role>>

RevokeKey(by, k) ==
    /\ by \in Admins \/ (Member(by) /\ creator[k] = by)
    /\ active' = active \ {k}
    /\ author' = by
    /\ UNCHANGED <<project, role, creator>>

Next ==
    \/ \E u \in Users : CreateProject(u)
    \/ \E by, u \in Users : \/ \E r \in {"editor", "admin"} :
                                  AddMember(by, u, r) \/ SetRole(by, u, r)
                            \/ RemoveMember(by, u)
    \/ \E by \in Users : DeleteProject(by)
    \/ \E by \in Users, k \in Keys : CreateKey(by, k) \/ RevokeKey(by, k)

Spec == Init /\ [][Next]_vars
=============================================================================
