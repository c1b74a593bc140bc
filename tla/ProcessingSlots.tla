-------------------------- MODULE ProcessingSlots --------------------------
(***************************************************************************)
(* processing_slot of app/services/quota_service.py: the two semaphores    *)
(* every call of process_invoice passes before it works on an invoice.     *)
(*                                                                         *)
(* A job is one thread inside process_invoice (a background task of an     *)
(* upload, a reprocessing, a mailbox scan).  It looks its user's gate up    *)
(* under _processing_lock, waits for that gate, then for the global gate,   *)
(* each wait bounded by a timeout, works, and on the way out releases the    *)
(* global gate and then its user's, two lock operations with other jobs      *)
(* running between them.                                                     *)
(* The gates are objects: a job keeps the gate it looked up even when the   *)
(* bounded table _user_gates has evicted it since.                          *)
(***************************************************************************)
EXTENDS Integers, Sequences, FiniteSets

CONSTANTS
    Jobs,         \* threads that call process_invoice
    Users,        \* owners of invoices
    NoUser,       \* user_id None: a legacy invoice without an owner
    Owner,        \* Owner[j] is the user of job j, or NoUser
    Gates,        \* semaphore objects, one for each live user gate
    NoGate,
    GlobalLimit,  \* settings.max_concurrent_processing_jobs
    UserLimit,    \* settings.max_concurrent_jobs_per_user
    MaxGates      \* capacity of _user_gates, 10_000 in the code

ASSUME SlotsAssumption ==
    /\ IsFiniteSet(Jobs) /\ IsFiniteSet(Users)
    /\ NoUser \notin Users /\ NoGate \notin Gates
    /\ Owner \in [Jobs -> Users \cup {NoUser}]
    /\ GlobalLimit \in Nat \ {0} /\ UserLimit \in Nat \ {0}
    /\ MaxGates \in Nat \ {0}

VARIABLES
    pc,            \* where each job is in processing_slot
    gate,          \* gate[j]: the user gate job j looked up
    userGates,     \* _user_gates: the gate each user has in the table
    order,         \* the insertion order of the table's keys
    permits,       \* permits[g]: counter of the user gate g
    globalPermits  \* counter of the global gate

vars == <<pc, gate, userGates, order, permits, globalPermits>>

PC == {"idle", "userWait", "globalWait", "working", "leaving"}

TypeOK ==
    /\ pc \in [Jobs -> PC]
    /\ gate \in [Jobs -> Gates \cup {NoGate}]
    /\ userGates \in [Users -> Gates \cup {NoGate}]
    /\ order \in Seq(Users)
    /\ permits \in [Gates -> 0..UserLimit]
    /\ globalPermits \in 0..GlobalLimit

Init ==
    /\ pc = [j \in Jobs |-> "idle"]
    /\ gate = [j \in Jobs |-> NoGate]
    /\ userGates = [u \in Users |-> NoGate]
    /\ order = <<>>
    /\ permits = [g \in Gates |-> UserLimit]
    /\ globalPermits = GlobalLimit

\* Gates nothing refers to: a new BoundedSemaphore is one of them.
Unreferenced ==
    {g \in Gates : /\ \A u \in Users : userGates[u] # g
                   /\ \A j \in Jobs : gate[j] # g}

-----------------------------------------------------------------------------
(***************************************************************************)
(* Entry, under _processing_lock.                                          *)
(***************************************************************************)

\* No owner: the job waits for the global gate alone.
EnterUnowned(j) ==
    /\ pc[j] = "idle"
    /\ Owner[j] = NoUser
    /\ pc' = [pc EXCEPT ![j] = "globalWait"]
    /\ UNCHANGED <<gate, userGates, order, permits, globalPermits>>

EnterKnown(j) ==
    /\ pc[j] = "idle"
    /\ Owner[j] # NoUser
    /\ userGates[Owner[j]] # NoGate
    /\ gate' = [gate EXCEPT ![j] = userGates[Owner[j]]]
    /\ pc' = [pc EXCEPT ![j] = "userWait"]
    /\ UNCHANGED <<userGates, order, permits, globalPermits>>

\* First job of a user: a new gate, and when the table is full the oldest
\* entry leaves it, in use or not.
\* Mutant: the table is taken for full one entry too early.
TableFullEarly == Len(order) >= MaxGates - 1

TableFull == Len(order) >= MaxGates

EnterNew(j) ==
    /\ pc[j] = "idle"
    /\ Owner[j] # NoUser
    /\ userGates[Owner[j]] = NoGate
    /\ \E g \in Unreferenced :
          /\ gate' = [gate EXCEPT ![j] = g]
          /\ permits' = [permits EXCEPT ![g] = UserLimit]
          /\ userGates' =
                [u \in Users |->
                    IF u = Owner[j] THEN g
                    ELSE IF TableFull /\ u = Head(order) THEN NoGate
                    ELSE userGates[u]]
    /\ order' = Append(IF TableFull THEN Tail(order) ELSE order, Owner[j])
    /\ pc' = [pc EXCEPT ![j] = "userWait"]
    /\ UNCHANGED globalPermits

(***************************************************************************)
(* The two bounded waits.  A wait that times out saw the counter at zero.  *)
(***************************************************************************)

\* Mutant: the wait's result is ignored.
AcquireUserBlindly(j) ==
    /\ pc[j] = "userWait"
    /\ permits' = [permits EXCEPT ![gate[j]] = @ - 1]
    /\ pc' = [pc EXCEPT ![j] = "globalWait"]
    /\ UNCHANGED <<gate, userGates, order, globalPermits>>

AcquireUser(j) ==
    /\ pc[j] = "userWait"
    /\ permits[gate[j]] > 0
    /\ permits' = [permits EXCEPT ![gate[j]] = @ - 1]
    /\ pc' = [pc EXCEPT ![j] = "globalWait"]
    /\ UNCHANGED <<gate, userGates, order, globalPermits>>

\* Mutant: a refusal without a full gate.
TimeoutUserEarly(j) ==
    /\ pc[j] = "userWait"
    /\ pc' = [pc EXCEPT ![j] = "idle"]
    /\ gate' = [gate EXCEPT ![j] = NoGate]
    /\ UNCHANGED <<userGates, order, permits, globalPermits>>

TimeoutUser(j) ==
    /\ pc[j] = "userWait"
    /\ permits[gate[j]] = 0
    /\ pc' = [pc EXCEPT ![j] = "idle"]
    /\ gate' = [gate EXCEPT ![j] = NoGate]
    /\ UNCHANGED <<userGates, order, permits, globalPermits>>

\* Mutant: the global gate is passed without taking a permit.
AcquireGlobalFree(j) ==
    /\ pc[j] = "globalWait"
    /\ globalPermits > 0
    /\ pc' = [pc EXCEPT ![j] = "working"]
    /\ UNCHANGED <<gate, userGates, order, permits, globalPermits>>

AcquireGlobal(j) ==
    /\ pc[j] = "globalWait"
    /\ globalPermits > 0
    /\ globalPermits' = globalPermits - 1
    /\ pc' = [pc EXCEPT ![j] = "working"]
    /\ UNCHANGED <<gate, userGates, order, permits>>

\* Mutants: the refusal keeps the user gate; the wait has no timeout.
TimeoutGlobalLeaks(j) ==
    /\ pc[j] = "globalWait"
    /\ globalPermits = 0
    /\ gate' = [gate EXCEPT ![j] = NoGate]
    /\ pc' = [pc EXCEPT ![j] = "leaving"]
    /\ UNCHANGED <<userGates, order, permits, globalPermits>>
TimeoutGlobalNever(j) ==
    /\ pc[j] = "globalWait" /\ globalPermits = 0
    /\ UNCHANGED vars

\* Refused: the exception takes the job to the finally clause.
TimeoutGlobal(j) ==
    /\ pc[j] = "globalWait"
    /\ globalPermits = 0
    /\ pc' = [pc EXCEPT ![j] = "leaving"]
    /\ UNCHANGED <<gate, userGates, order, permits, globalPermits>>

(***************************************************************************)
(* The finally clause.                                                     *)
(***************************************************************************)

\* The body returned or raised.
ReleaseGlobal(j) ==
    /\ pc[j] = "working"
    /\ globalPermits' = globalPermits + 1
    /\ pc' = [pc EXCEPT ![j] = "leaving"]
    /\ UNCHANGED <<gate, userGates, order, permits>>

\* An owned job gives its user gate back; without an owner nothing is left.
ReleaseUser(j) ==
    /\ pc[j] = "leaving"
    /\ permits' = IF gate[j] = NoGate THEN permits
                  ELSE [permits EXCEPT ![gate[j]] = @ + 1]
    /\ gate' = [gate EXCEPT ![j] = NoGate]
    /\ pc' = [pc EXCEPT ![j] = "idle"]
    /\ UNCHANGED <<userGates, order, globalPermits>>

-----------------------------------------------------------------------------

Enter(j) == EnterUnowned(j) \/ EnterKnown(j) \/ EnterNew(j)
Wait(j) ==
    AcquireUser(j) \/ TimeoutUser(j) \/ AcquireGlobal(j) \/ TimeoutGlobal(j)
Leave(j) == ReleaseGlobal(j) \/ ReleaseUser(j)

Next == \E j \in Jobs : Enter(j) \/ Wait(j) \/ Leave(j)

Spec == Init /\ [][Next]_vars

\* A wait ends by itself (acquire has a timeout), so does the body (every
\* outgoing call it makes has one), and the finally clause does not wait;
\* nobody has to submit a job.
Fairness == \A j \in Jobs : WF_vars(Wait(j)) /\ WF_vars(Leave(j))

FairSpec == Spec /\ Fairness

-----------------------------------------------------------------------------

Working == {j \in Jobs : pc[j] = "working"}
WorkingFor(u) == {j \in Working : Owner[j] = u}
Holders(g) ==
    {j \in Jobs : gate[j] = g /\ pc[j] \in {"globalWait", "working", "leaving"}}

\* Every permit is either in its gate or held by exactly one job that will
\* release it: no path out of processing_slot leaks or returns one twice
\* (BoundedSemaphore.release would raise and leave the second gate held).
PermitsConserved ==
    /\ globalPermits + Cardinality(Working) = GlobalLimit
    /\ \A g \in Gates : permits[g] + Cardinality(Holders(g)) = UserLimit

\* "Run one invoice inside bounded global ... processing slots"
\* (verifier.py:868).
GlobalLimitHolds == Cardinality(Working) <= GlobalLimit

\* "... and per-user processing slots" (verifier.py:868).
UserLimitHolds == \A u \in Users : Cardinality(WorkingFor(u)) <= UserLimit

\* A job that asks for a slot gets it or is told that the queue is busy: the
\* fixed order user gate, global gate cannot deadlock and no wait is lost.
SlotDecided ==
    \A j \in Jobs : pc[j] \in {"userWait", "globalWait"}
                        ~> pc[j] \in {"idle", "working"}

\* The queue as its callers see it.
Queue == INSTANCE BoundedWork WITH
            status <- [j \in Jobs |->
                          CASE pc[j] = "idle" -> "idle"
                            [] pc[j] \in {"userWait", "globalWait"} -> "waiting"
                            [] pc[j] = "working" -> "active"
                            [] pc[j] = "leaving" -> "leaving"]

\* The gates implement the promise: limits, and refusal only under load,
\* where a job that is on its way out still counts for its user.
ImplementsBoundedWork == Queue!Spec
=============================================================================
