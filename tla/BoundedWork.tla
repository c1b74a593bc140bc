---------------------------- MODULE BoundedWork ----------------------------
(***************************************************************************)
(* What the bounded processing queue promises its callers, whatever locks  *)
(* and counters implement it: a job that is submitted is later started or   *)
(* refused, never more than GlobalLimit jobs are active, never more than    *)
(* UserLimit of one user, and a job is refused only because active jobs     *)
(* fill the global limit, or UserLimit other jobs of its user are in the    *)
(* queue.  A job is in the queue from its submission until it has left,     *)
(* which is some time after it finished or was refused.                     *)
(***************************************************************************)
EXTENDS Naturals, FiniteSets

CONSTANTS Jobs, Users, NoUser, Owner, GlobalLimit, UserLimit

VARIABLE status

Active == {j \in Jobs : status[j] = "active"}
JobsOf(u) == {j \in Jobs : Owner[j] = u}

RoomFor(j) ==
    /\ Cardinality(Active) < GlobalLimit
    /\ Owner[j] # NoUser =>
          Cardinality(Active \cap JobsOf(Owner[j])) < UserLimit

\* The others that a refused job gives way to: all the global capacity is
\* active, or UserLimit other jobs of its user are waiting, active or on
\* their way out.
CrowdedOut(j) ==
    \/ Cardinality(Active) >= GlobalLimit
    \/ /\ Owner[j] # NoUser
       /\ Cardinality({k \in JobsOf(Owner[j]) \ {j} : status[k] # "idle"})
             >= UserLimit

Init == status = [j \in Jobs |-> "idle"]

Submit(j) ==
    /\ status[j] = "idle"
    /\ status' = [status EXCEPT ![j] = "waiting"]

Start(j) ==
    /\ status[j] = "waiting"
    /\ RoomFor(j)
    /\ status' = [status EXCEPT ![j] = "active"]

Refuse(j) ==
    /\ status[j] = "waiting"
    /\ CrowdedOut(j)
    /\ \E out \in {"idle", "leaving"} : status' = [status EXCEPT ![j] = out]

Finish(j) ==
    /\ status[j] = "active"
    /\ status' = [status EXCEPT ![j] = "leaving"]

Leave(j) ==
    /\ status[j] = "leaving"
    /\ status' = [status EXCEPT ![j] = "idle"]

Next ==
    \E j \in Jobs :
        Submit(j) \/ Start(j) \/ Refuse(j) \/ Finish(j) \/ Leave(j)

Spec == Init /\ [][Next]_status
=============================================================================
