----------------------------- MODULE JobLifecycle -----------------------------
(***************************************************************************)
(* What background jobs promise their clients.  A job is accepted once,    *)
(* then either completes, and its whole write takes effect at that instant *)
(* on the state all earlier writes left, or fails and changes nothing.     *)
(* Synchronous writes take effect at one instant too.  No locks, threads,  *)
(* connections or deadlines appear here.                                   *)
(***************************************************************************)
EXTENDS Naturals, Sequences

CONSTANTS Jobs, DryRuns, Syncs

VARIABLES status, writes

vars == <<status, writes>>

Init ==
    /\ status = [j \in Jobs |-> "none"]
    /\ writes = <<>>

Write(w) == writes' = Append(writes, [by |-> w, seen |-> Len(writes)])

Accept(j) ==
    /\ status[j] = "none"
    /\ status' = [status EXCEPT ![j] = "running"]
    /\ UNCHANGED writes

Complete(j) ==
    /\ status[j] = "running"
    /\ status' = [status EXCEPT ![j] = "completed"]
    /\ IF j \in DryRuns THEN UNCHANGED writes ELSE Write(j)

Fail(j) ==
    /\ status[j] = "running"
    /\ status' = [status EXCEPT ![j] = "failed"]
    /\ UNCHANGED writes

SyncWrite(s) ==
    /\ \A i \in 1..Len(writes) : writes[i].by # s
    /\ Write(s)
    /\ UNCHANGED status

Next ==
    \/ \E j \in Jobs : Accept(j) \/ Complete(j) \/ Fail(j)
    \/ \E s \in Syncs : SyncWrite(s)

Spec == Init /\ [][Next]_vars
=============================================================================
