----------------------- MODULE ProcessingSlotsProofs -----------------------
(***************************************************************************)
(* Theorems about the processing gates, for every number of jobs, users     *)
(* and permits.  SlotsInv is the inductive invariant: TypeOK alone does not  *)
(* bound the work, the counters must be tied to the jobs that hold them.     *)
(***************************************************************************)
EXTENDS ProcessingSlots, FiniteSetTheorems, TLAPS

\* A job waits on or holds a gate exactly while it is inside as an owned job.
GateShape ==
    \A j \in Jobs :
        /\ pc[j] = "idle" => gate[j] = NoGate
        /\ Owner[j] = NoUser => gate[j] = NoGate /\ pc[j] # "userWait"
        /\ Owner[j] # NoUser /\ pc[j] # "idle" => gate[j] \in Gates

SlotsInv == TypeOK /\ PermitsConserved /\ GateShape

\* Without eviction every job of a user is at the gate the table names.
TableNames ==
    /\ \A j \in Jobs : gate[j] # NoGate => /\ Owner[j] \in Users
                                           /\ gate[j] = userGates[Owner[j]]
    /\ Cardinality({u \in Users : userGates[u] # NoGate}) = Len(order)

-----------------------------------------------------------------------------

\* The sets the counters count, working jobs and holders of a gate, are finite.
LEMMA FiniteJobSets ==
  /\ \A S : S \subseteq Jobs => IsFiniteSet(S) /\ Cardinality(S) \in Nat
  /\ IsFiniteSet(Working)
  /\ \A g : IsFiniteSet(Holders(g))
<1>1. \A S : S \subseteq Jobs => IsFiniteSet(S) /\ Cardinality(S) \in Nat
  BY FS_Subset, FS_CardinalityType, SlotsAssumption
<1> QED
  BY <1>1 DEF Working, Holders

\* Nobody is inside when the process starts, and every gate is full.
LEMMA InitSlotsInv == Init => SlotsInv
<1> SUFFICES ASSUME Init PROVE SlotsInv
  OBVIOUS
<1>1. TypeOK
  BY SlotsAssumption DEF Init, TypeOK, PC
<1>2. PermitsConserved
  <2>1. Working = {} /\ \A g \in Gates : Holders(g) = {}
    BY DEF Init, Working, Holders
  <2>2. Cardinality({}) = 0
    BY FS_EmptySet
  <2>3. Cardinality(Working) = 0 /\ \A g \in Gates : Cardinality(Holders(g)) = 0
    BY <2>1, <2>2
  <2>4. globalPermits = GlobalLimit /\ \A g \in Gates : permits[g] = UserLimit
    BY DEF Init
  <2> QED
    BY <2>3, <2>4, SlotsAssumption DEF PermitsConserved
<1>3. GateShape
  BY DEF Init, GateShape
<1> QED
  BY <1>1, <1>2, <1>3 DEF SlotsInv

-----------------------------------------------------------------------------
(***************************************************************************)
(* How one job's step changes the sets the counters count.                 *)
(***************************************************************************)

\* Counting a set that gains or loses one job.
LEMMA CountOne ==
  ASSUME NEW S \in SUBSET Jobs, NEW j \in Jobs
  PROVE  /\ j \notin S => Cardinality(S \cup {j}) = Cardinality(S) + 1
         /\ j \in S => Cardinality(S \ {j}) = Cardinality(S) - 1
  BY FiniteJobSets, FS_AddElement, FS_RemoveElement

\* Entering makes or reuses a gate, and may evict one from the table; no permit moves.
LEMMA EnterInv == ASSUME SlotsInv, NEW j \in Jobs, Enter(j) PROVE SlotsInv'
<1> USE DEF SlotsInv
<1>0. Working' = Working
  BY DEF Enter, EnterUnowned, EnterKnown, EnterNew, Working, TypeOK, PC
<1>1. CASE EnterUnowned(j)
  <2>1. \A g \in Gates : Holders(g)' = Holders(g)
    BY <1>1, SlotsAssumption DEF EnterUnowned, Holders, TypeOK, GateShape
  <2> QED
    BY <1>0, <1>1, <2>1
    DEF EnterUnowned, TypeOK, PC, PermitsConserved, GateShape
<1>2. CASE EnterKnown(j)
  <2>1. \A g \in Gates : Holders(g)' = Holders(g)
    BY <1>2 DEF EnterKnown, Holders, TypeOK, PC
  <2>2. userGates[Owner[j]] \in Gates
    BY <1>2, SlotsAssumption DEF EnterKnown, TypeOK
  <2> QED
    BY <1>0, <1>2, <2>1, <2>2, SlotsAssumption
    DEF EnterKnown, TypeOK, PC, PermitsConserved, GateShape
<1>3. CASE EnterNew(j)
  <2>1. PICK g \in Unreferenced :
           /\ gate' = [gate EXCEPT ![j] = g]
           /\ permits' = [permits EXCEPT ![g] = UserLimit]
           /\ userGates' =
                [u \in Users |->
                    IF u = Owner[j] THEN g
                    ELSE IF TableFull /\ u = Head(order) THEN NoGate
                    ELSE userGates[u]]
    BY <1>3 DEF EnterNew
  <2>2. g \in Gates /\ \A k \in Jobs : gate[k] # g
    BY DEF Unreferenced
  <2>3. \A h \in Gates : Holders(h)' = Holders(h)
    BY <1>3, <2>1 DEF EnterNew, Holders, TypeOK, PC
  <2>4. Holders(g) = {} /\ Cardinality({}) = 0
    BY <2>2, FS_EmptySet DEF Holders
  <2>5. permits[g] = UserLimit
    <3>1. permits[g] + Cardinality(Holders(g)) = UserLimit /\ permits[g] \in Nat
      BY <2>2, SlotsAssumption DEF PermitsConserved, TypeOK
    <3> QED
      BY <2>4, <3>1
  <2>6. permits' = permits
    BY <2>1, <2>2, <2>5 DEF TypeOK
  <2>7. Owner[j] \in Users
    BY <1>3, SlotsAssumption DEF EnterNew
  <2>8. order' \in Seq(Users)
    <3>1. TableFull => order # <<>>
      BY SlotsAssumption DEF TableFull, TypeOK
    <3> QED
      BY <1>3, <2>7, <3>1 DEF EnterNew, TypeOK
  <2>9. TypeOK'
    BY <1>3, <2>1, <2>2, <2>6, <2>8 DEF EnterNew, TypeOK, PC
  <2>10. PermitsConserved'
    BY <1>0, <1>3, <2>3, <2>6 DEF EnterNew, PermitsConserved
  <2>11. GateShape'
    BY <1>3, <2>1, <2>2 DEF EnterNew, GateShape, TypeOK
  <2> QED
    BY <2>9, <2>10, <2>11
<1> QED
  BY <1>1, <1>2, <1>3 DEF Enter

\* A permit of the user's gate goes to exactly the job that takes it.
LEMMA AcquireUserInv ==
  ASSUME SlotsInv, NEW j \in Jobs, AcquireUser(j) PROVE SlotsInv'
<1> USE DEF SlotsInv
<1>1. Owner[j] # NoUser /\ gate[j] \in Gates
  BY DEF AcquireUser, GateShape
<1>2. Working' = Working
  BY DEF AcquireUser, Working, TypeOK
<1>3. TypeOK'
  BY <1>1, SlotsAssumption DEF AcquireUser, TypeOK, PC
<1>4. PermitsConserved'
  <2>1. ASSUME NEW g \in Gates
        PROVE  (permits[g] + Cardinality(Holders(g)) = UserLimit)'
    <3>1. CASE g = gate[j]
      <4>1. permits'[g] = permits[g] - 1
        BY <3>1 DEF AcquireUser, TypeOK
      <4>2. Cardinality(Holders(g)') = Cardinality(Holders(g)) + 1
        <5>1. /\ j \notin Holders(g) /\ Holders(g) \in SUBSET Jobs
              /\ Holders(g)' = Holders(g) \cup {j}
          BY <3>1 DEF AcquireUser, Holders, TypeOK
        <5> QED
          BY <5>1, CountOne
      <4>3. Cardinality(Holders(g)) \in Nat /\ permits[g] \in Nat
        BY FiniteJobSets DEF Holders, TypeOK
      <4> QED
        BY <4>1, <4>2, <4>3 DEF PermitsConserved
    <3>2. CASE g # gate[j]
      <4>1. Holders(g)' = Holders(g)
        BY <3>2 DEF AcquireUser, Holders, TypeOK
      <4> QED
        BY <1>1, <3>2, <4>1 DEF AcquireUser, PermitsConserved, TypeOK
    <3> QED
      BY <3>1, <3>2
  <2> QED
    BY <1>2, <2>1 DEF AcquireUser, PermitsConserved
<1>5. GateShape'
  BY DEF AcquireUser, GateShape, TypeOK
<1> QED
  BY <1>3, <1>4, <1>5

\* Giving up at the user's gate returns nothing, as nothing was taken.
LEMMA TimeoutUserInv ==
  ASSUME SlotsInv, NEW j \in Jobs, TimeoutUser(j) PROVE SlotsInv'
<1> USE DEF SlotsInv
<1>1. Working' = Working
  BY DEF TimeoutUser, Working, TypeOK
<1>2. \A g \in Gates : Holders(g)' = Holders(g)
  BY DEF TimeoutUser, Holders, TypeOK
<1> QED
  BY <1>1, <1>2 DEF TimeoutUser, TypeOK, PC, PermitsConserved, GateShape

\* The global permit goes to exactly the job that takes it.
LEMMA AcquireGlobalInv ==
  ASSUME SlotsInv, NEW j \in Jobs, AcquireGlobal(j) PROVE SlotsInv'
<1> USE DEF SlotsInv
<1>1. j \notin Working /\ Working' = Working \cup {j} /\ Working \in SUBSET Jobs
  BY DEF AcquireGlobal, Working, TypeOK
<1>2. \A g \in Gates : Holders(g)' = Holders(g)
  BY DEF AcquireGlobal, Holders, TypeOK
<1>3. Cardinality(Working') = Cardinality(Working) + 1
  BY <1>1, CountOne
<1>4. Cardinality(Working) \in Nat
  BY <1>1, FiniteJobSets
<1>5. TypeOK'
  BY SlotsAssumption DEF AcquireGlobal, TypeOK, PC
<1>6. PermitsConserved'
  BY <1>2, <1>3, <1>4, SlotsAssumption
  DEF AcquireGlobal, PermitsConserved, TypeOK
<1> QED
  BY <1>5, <1>6 DEF AcquireGlobal, GateShape, TypeOK

\* A refused job keeps what it holds until the finally clause.
LEMMA TimeoutGlobalInv ==
  ASSUME SlotsInv, NEW j \in Jobs, TimeoutGlobal(j) PROVE SlotsInv'
<1> USE DEF SlotsInv
<1>1. Working' = Working
  BY DEF TimeoutGlobal, Working, TypeOK
<1>2. \A g \in Gates : Holders(g)' = Holders(g)
  BY DEF TimeoutGlobal, Holders, TypeOK
<1> QED
  BY <1>1, <1>2 DEF TimeoutGlobal, TypeOK, PC, PermitsConserved, GateShape

\* Between the two releases the job holds its user's permit alone.
LEMMA ReleaseGlobalInv ==
  ASSUME SlotsInv, NEW j \in Jobs, ReleaseGlobal(j) PROVE SlotsInv'
<1> USE DEF SlotsInv
<1>1. j \in Working /\ Working' = Working \ {j} /\ Working \in SUBSET Jobs
  BY DEF ReleaseGlobal, Working, TypeOK
<1>2. Cardinality(Working') = Cardinality(Working) - 1
  BY <1>1, CountOne
<1>3. Cardinality(Working) \in Nat /\ Cardinality(Working') \in Nat
  <2>1. Working' \in SUBSET Jobs
    BY <1>1
  <2> QED
    BY <1>1, <2>1, FiniteJobSets
<1>4. \A g \in Gates : Holders(g)' = Holders(g)
  BY DEF ReleaseGlobal, Holders, TypeOK
<1>5. globalPermits' + Cardinality(Working') = GlobalLimit
  BY <1>2, <1>3 DEF ReleaseGlobal, PermitsConserved, TypeOK
<1>6. TypeOK'
  <2>1. globalPermits' \in 0..GlobalLimit
    BY <1>3, <1>5, SlotsAssumption DEF ReleaseGlobal, TypeOK
  <2> QED
    BY <2>1 DEF ReleaseGlobal, TypeOK, PC
<1>7. PermitsConserved'
  BY <1>4, <1>5 DEF ReleaseGlobal, PermitsConserved
<1> QED
  BY <1>6, <1>7 DEF ReleaseGlobal, GateShape, TypeOK

\* The last release gives one permit back to the gate the job looked up.
LEMMA ReleaseUserInv ==
  ASSUME SlotsInv, NEW j \in Jobs, ReleaseUser(j) PROVE SlotsInv'
<1> USE DEF SlotsInv
<1>0. Working' = Working
  BY DEF ReleaseUser, Working, TypeOK
<1>1. ASSUME NEW g \in Gates
      PROVE  /\ permits'[g] \in 0..UserLimit
             /\ permits'[g] + Cardinality(Holders(g)') = UserLimit
  <2>0. /\ Cardinality(Holders(g)) \in Nat /\ permits[g] \in 0..UserLimit
        /\ permits[g] + Cardinality(Holders(g)) = UserLimit
        /\ UserLimit \in Nat /\ Holders(g) \in SUBSET Jobs
    BY FiniteJobSets, SlotsAssumption DEF Holders, TypeOK, PermitsConserved
  <2>1. CASE g = gate[j]
    <3>1. j \in Holders(g) /\ Holders(g)' = Holders(g) \ {j}
      BY <2>1, SlotsAssumption DEF Holders, ReleaseUser, TypeOK
    <3>2. Cardinality(Holders(g)') = Cardinality(Holders(g)) - 1
      BY <2>0, <3>1, CountOne
    <3>3. permits'[g] = permits[g] + 1
      BY <2>1, SlotsAssumption DEF ReleaseUser, TypeOK
    <3>4. Cardinality(Holders(g)') \in Nat
      <4>1. Holders(g)' \in SUBSET Jobs
        BY <2>0, <3>1
      <4> QED
        BY <4>1, FiniteJobSets
    <3> QED
      BY <2>0, <3>2, <3>3, <3>4
  <2>2. CASE g # gate[j]
    <3>1. Holders(g)' = Holders(g)
      BY <2>2, SlotsAssumption DEF Holders, ReleaseUser, TypeOK
    <3>2. permits'[g] = permits[g]
      BY <2>2 DEF ReleaseUser, TypeOK
    <3> QED
      BY <2>0, <3>1, <3>2
  <2> QED
    BY <2>1, <2>2
<1>2. permits' \in [Gates -> 0..UserLimit]
  <2>1. DOMAIN permits' = Gates /\ permits' = [g \in Gates |-> permits'[g]]
    BY DEF ReleaseUser, TypeOK
  <2> QED
    BY <1>1, <2>1
<1>3. TypeOK'
  BY <1>2 DEF ReleaseUser, TypeOK, PC
<1>4. PermitsConserved'
  BY <1>0, <1>1 DEF ReleaseUser, PermitsConserved
<1> QED
  BY <1>3, <1>4 DEF ReleaseUser, GateShape, TypeOK

\* The invariant is inductive: one step per action of Next.
LEMMA SlotsInvStep == SlotsInv /\ [Next]_vars => SlotsInv'
<1> SUFFICES ASSUME SlotsInv, [Next]_vars PROVE SlotsInv'
  OBVIOUS
<1>1. CASE UNCHANGED vars
  BY <1>1 DEF vars, SlotsInv, TypeOK, PermitsConserved, GateShape,
              Working, Holders
<1>2. ASSUME NEW j \in Jobs, Enter(j) \/ Wait(j) \/ Leave(j) PROVE SlotsInv'
  BY <1>2, EnterInv, AcquireUserInv, TimeoutUserInv, AcquireGlobalInv,
     TimeoutGlobalInv, ReleaseGlobalInv, ReleaseUserInv DEF Wait, Leave
<1> QED
  BY <1>1, <1>2 DEF Next

\* So it holds in every state.
LEMMA SlotsInvariant == Spec => []SlotsInv
  BY InitSlotsInv, SlotsInvStep, PTL DEF Spec

\* No counter leaves its range, and every job is somewhere in processing_slot.
THEOREM SlotsTypes == Spec => []TypeOK
<1>1. SlotsInv => TypeOK
  BY DEF SlotsInv
<1> QED
  BY <1>1, SlotsInvariant, PTL

\* The counters account for every job inside, whatever the eviction does.
THEOREM SlotsSafety == Spec => []PermitsConserved
<1>1. SlotsInv => PermitsConserved
  BY DEF SlotsInv
<1> QED
  BY <1>1, SlotsInvariant, PTL

-----------------------------------------------------------------------------
(***************************************************************************)
(* The per-user limit needs the table to be large enough for every user:    *)
(* an evicted gate still has holders while its user gets a fresh one.        *)
(***************************************************************************)

Mapped == {u \in Users : userGates[u] # NoGate}

\* In a table that can hold all users, a user without a gate finds room.
LEMMA FreshUserNeverEvicts ==
  ASSUME TypeOK, TableNames, MaxGates >= Cardinality(Users),
         NEW u \in Users, userGates[u] = NoGate
  PROVE  /\ ~TableFull
         /\ u \notin Mapped /\ IsFiniteSet(Mapped)
         /\ Cardinality(Mapped) \in Nat
<1>1. Mapped \in SUBSET Users /\ u \notin Mapped
  BY DEF Mapped
<1>2. IsFiniteSet(Mapped) /\ Cardinality(Mapped) \in Nat
      /\ Cardinality(Users) \in Nat /\ Cardinality(Mapped) <= Cardinality(Users)
      /\ Cardinality(Mapped) # Cardinality(Users)
  <2>1. IsFiniteSet(Users)
    BY SlotsAssumption
  <2>2. IsFiniteSet(Mapped) /\ Cardinality(Mapped) <= Cardinality(Users)
        /\ (Cardinality(Users) = Cardinality(Mapped) => Users = Mapped)
    BY <1>1, <2>1, FS_Subset
  <2>3. Cardinality(Mapped) \in Nat /\ Cardinality(Users) \in Nat
    BY <2>1, <2>2, FS_CardinalityType
  <2> QED
    BY <1>1, <2>2, <2>3
<1>3. Cardinality(Mapped) = Len(order)
  BY DEF Mapped, TableNames
<1> QED
  BY <1>1, <1>2, <1>3, SlotsAssumption DEF TableFull

\* As long as nothing is evicted, a job's gate stays the one the table names for its user.
LEMMA TableNamesStep ==
  ASSUME SlotsInv, TableNames, MaxGates >= Cardinality(Users), [Next]_vars
  PROVE  TableNames'
<1> USE DEF SlotsInv
<1>1. ASSUME NEW j \in Jobs, EnterNew(j) PROVE TableNames'
  <2>1. Owner[j] \in Users /\ userGates[Owner[j]] = NoGate
    BY <1>1, SlotsAssumption DEF EnterNew
  <2>2. /\ ~TableFull /\ Owner[j] \notin Mapped
        /\ IsFiniteSet(Mapped) /\ Cardinality(Mapped) \in Nat
    BY <2>1, FreshUserNeverEvicts
  <2>3. PICK g \in Unreferenced :
           /\ gate' = [gate EXCEPT ![j] = g]
           /\ userGates' = [u \in Users |-> IF u = Owner[j] THEN g
                                            ELSE userGates[u]]
    <3>1. PICK g \in Unreferenced :
             /\ gate' = [gate EXCEPT ![j] = g]
             /\ userGates' =
                  [u \in Users |->
                      IF u = Owner[j] THEN g
                      ELSE IF TableFull /\ u = Head(order) THEN NoGate
                      ELSE userGates[u]]
      BY <1>1 DEF EnterNew
    <3>2. \A u \in Users : (TableFull /\ u = Head(order)) = FALSE
      BY <2>2
    <3> QED
      BY <3>1, <3>2
  <2>4. g \in Gates /\ g # NoGate
    BY SlotsAssumption DEF Unreferenced
  <2>5. ASSUME NEW k \in Jobs, gate'[k] # NoGate
        PROVE  Owner[k] \in Users /\ gate'[k] = userGates'[Owner[k]]
    <3>1. CASE k = j
      BY <2>1, <2>3, <3>1 DEF TypeOK
    <3>2. CASE k # j
      <4>1. gate[k] # NoGate /\ gate'[k] = gate[k]
        BY <2>3, <2>5, <3>2 DEF TypeOK
      <4>2. Owner[k] \in Users /\ gate[k] = userGates[Owner[k]]
        BY <4>1 DEF TableNames
      <4>3. Owner[k] # Owner[j]
        BY <2>1, <4>1, <4>2
      <4> QED
        BY <2>3, <4>1, <4>2, <4>3
    <3> QED
      BY <3>1, <3>2
  <2>6. Mapped' = Mapped \cup {Owner[j]}
    BY <2>1, <2>3, <2>4 DEF Mapped, TypeOK
  <2>7. Cardinality(Mapped') = Cardinality(Mapped) + 1
    BY <2>2, <2>6, FS_AddElement
  <2>8. Len(order') = Len(order) + 1
    BY <1>1, <2>1, <2>2 DEF EnterNew, TypeOK
  <2> QED
    BY <2>5, <2>7, <2>8 DEF TableNames, Mapped
<1>2. ASSUME NEW j \in Jobs, EnterKnown(j) PROVE TableNames'
  <2>1. Owner[j] \in Users
    BY <1>2, SlotsAssumption DEF EnterKnown
  <2> QED
    BY <1>2, <2>1 DEF EnterKnown, TableNames, TypeOK
<1>3. ASSUME NEW j \in Jobs, EnterUnowned(j) \/ Wait(j) \/ Leave(j)
      PROVE  TableNames'
  <2>1. userGates' = userGates /\ order' = order
    BY <1>3 DEF EnterUnowned, Wait, AcquireUser, TimeoutUser, AcquireGlobal,
                TimeoutGlobal, Leave, ReleaseGlobal, ReleaseUser
  <2>2. gate' = gate \/ gate' = [gate EXCEPT ![j] = NoGate]
    BY <1>3 DEF EnterUnowned, Wait, AcquireUser, TimeoutUser, AcquireGlobal,
                TimeoutGlobal, Leave, ReleaseGlobal, ReleaseUser
  <2> QED
    BY <2>1, <2>2 DEF TableNames, TypeOK
<1>4. CASE UNCHANGED vars
  BY <1>4 DEF vars, TableNames
<1> QED
  BY <1>1, <1>2, <1>3, <1>4 DEF Next, Enter

\* A user's jobs that all hold the gate of the table are at most its permits.
LEMMA NamedGateBoundsUser ==
  ASSUME SlotsInv, TableNames PROVE UserLimitHolds
<1> SUFFICES ASSUME NEW u \in Users
             PROVE  Cardinality(WorkingFor(u)) <= UserLimit
  BY DEF UserLimitHolds
<1> USE DEF SlotsInv
<1>1. CASE WorkingFor(u) = {}
  BY <1>1, FS_EmptySet, SlotsAssumption
<1>2. CASE WorkingFor(u) # {}
  <2>1. \A j \in WorkingFor(u) :
           /\ j \in Jobs /\ pc[j] = "working"
           /\ gate[j] \in Gates /\ gate[j] = userGates[u]
    BY SlotsAssumption
    DEF WorkingFor, Working, GateShape, TableNames
  <2>2. PICK g \in Gates : g = userGates[u]
    BY <1>2, <2>1
  <2>3. WorkingFor(u) \in SUBSET Holders(g) /\ Holders(g) \in SUBSET Jobs
    BY <2>1, <2>2 DEF Holders
  <2>4. /\ Cardinality(WorkingFor(u)) <= Cardinality(Holders(g))
        /\ Cardinality(Holders(g)) \in Nat
        /\ Cardinality(WorkingFor(u)) \in Nat
    <3>1. WorkingFor(u) \in SUBSET Jobs /\ IsFiniteSet(Holders(g))
      BY <2>3, FiniteJobSets
    <3> QED
      BY <2>3, <3>1, FS_Subset, FiniteJobSets
  <2>5. permits[g] \in Nat /\ permits[g] + Cardinality(Holders(g)) = UserLimit
    BY SlotsAssumption DEF PermitsConserved, TypeOK
  <2> QED
    BY <2>4, <2>5
<1> QED
  BY <1>1, <1>2

\* Global bound: at most GlobalLimit jobs between the gates and the finally.
THEOREM GlobalLimitTheorem == Spec => []GlobalLimitHolds
<1>1. TypeOK /\ PermitsConserved => GlobalLimitHolds
  <2> SUFFICES ASSUME TypeOK, PermitsConserved PROVE GlobalLimitHolds
    OBVIOUS
  <2>1. globalPermits \in Nat /\ Cardinality(Working) \in Nat
    BY FiniteJobSets, SlotsAssumption DEF TypeOK, Working
  <2> QED
    BY <2>1 DEF PermitsConserved, GlobalLimitHolds
<1> QED
  BY <1>1, SlotsTypes, SlotsSafety, PTL

\* A table that has room for every user keeps naming the gates in use.
LEMMA TableNamesInvariant ==
  ASSUME MaxGates >= Cardinality(Users)
  PROVE  Spec => [](SlotsInv /\ TableNames)
<1>1. Init => SlotsInv /\ TableNames
  <2> SUFFICES ASSUME Init PROVE TableNames
    BY InitSlotsInv
  <2>1. {u \in Users : userGates[u] # NoGate} = {} /\ Cardinality({}) = 0
    BY FS_EmptySet DEF Init
  <2> QED
    BY <2>1 DEF Init, TableNames
<1>2. SlotsInv /\ TableNames /\ [Next]_vars => (SlotsInv /\ TableNames)'
  BY SlotsInvStep, TableNamesStep
<1> QED
  BY <1>1, <1>2, PTL DEF Spec

\* Per-user bound, for a table that holds a gate for every user.
THEOREM UserLimitTheorem ==
  ASSUME MaxGates >= Cardinality(Users)
  PROVE  Spec => []UserLimitHolds
<1>1. SlotsInv /\ TableNames => UserLimitHolds
  BY NamedGateBoundsUser
<1> QED
  BY <1>1, TableNamesInvariant, PTL

-----------------------------------------------------------------------------
(***************************************************************************)
(* The gates implement BoundedWork.  A refusal at the user gate is justified *)
(* by the other jobs that hold its permits, and these are the user's only if *)
(* no two users ever meet at one gate.                                      *)
(***************************************************************************)

\* A gate belongs to one user, in the table and out of it.
GatesApart ==
    /\ \A j, k \in Jobs : gate[j] # NoGate /\ gate[j] = gate[k] => Owner[j] = Owner[k]
    /\ \A j \in Jobs, u \in Users : gate[j] # NoGate /\ gate[j] = userGates[u] => Owner[j] = u
    /\ \A u, v \in Users : userGates[u] # NoGate /\ userGates[u] = userGates[v] => u = v

\* A new gate is one that nobody refers to, an evicted one stays with its jobs.
LEMMA GatesApartStep == TypeOK /\ GatesApart /\ [Next]_vars => GatesApart'
<1> SUFFICES ASSUME TypeOK, GatesApart, [Next]_vars PROVE GatesApart'
  OBVIOUS
<1>1. ASSUME NEW j \in Jobs, EnterNew(j) PROVE GatesApart'
  <2>1. PICK g \in Unreferenced :
           /\ gate' = [gate EXCEPT ![j] = g]
           /\ userGates' = [u \in Users |-> IF u = Owner[j] THEN g
                                            ELSE IF TableFull /\ u = Head(order) THEN NoGate
                                            ELSE userGates[u]]
    BY <1>1 DEF EnterNew
  <2>2. /\ g # NoGate
        /\ \A u \in Users : userGates[u] # g
        /\ \A k \in Jobs : gate[k] # g
    BY SlotsAssumption DEF Unreferenced
  <2>3. Owner[j] \in Users
    BY <1>1, SlotsAssumption DEF EnterNew
  <2>4. \A k \in Jobs : gate'[k] = IF k = j THEN g ELSE gate[k]
    BY <2>1 DEF TypeOK
  <2>5. \A u \in Users : /\ u = Owner[j] => userGates'[u] = g
                         /\ u # Owner[j] => userGates'[u] \in {NoGate, userGates[u]}
    BY <2>1
  <2> QED
    BY <2>2, <2>3, <2>4, <2>5 DEF GatesApart
<1>2. ASSUME NEW j \in Jobs, EnterKnown(j) PROVE GatesApart'
  <2>1. Owner[j] \in Users
    BY <1>2, SlotsAssumption DEF EnterKnown
  <2> QED
    BY <1>2, <2>1 DEF EnterKnown, GatesApart, TypeOK
<1>3. ASSUME NEW j \in Jobs, EnterUnowned(j) \/ Wait(j) \/ Leave(j)
      PROVE  GatesApart'
  <2>1. /\ userGates' = userGates
        /\ gate' = gate \/ gate' = [gate EXCEPT ![j] = NoGate]
    BY <1>3 DEF EnterUnowned, Wait, AcquireUser, TimeoutUser, AcquireGlobal,
                TimeoutGlobal, Leave, ReleaseGlobal, ReleaseUser
  <2> QED
    BY <2>1 DEF GatesApart, TypeOK
<1>4. CASE UNCHANGED vars
  BY <1>4 DEF vars, GatesApart
<1> QED
  BY <1>1, <1>2, <1>3, <1>4 DEF Next, Enter

\* What BoundedWork calls the status of a job.
StatusAt(label) ==
    CASE label = "idle" -> "idle"
      [] label \in {"userWait", "globalWait"} -> "waiting"
      [] label = "working" -> "active"
      [] label = "leaving" -> "leaving"
Status == [j \in Jobs |->
              CASE pc[j] = "idle" -> "idle"
                [] pc[j] \in {"userWait", "globalWait"} -> "waiting"
                [] pc[j] = "working" -> "active"
                [] pc[j] = "leaving" -> "leaving"]

\* One job moves, one status changes.
LEMMA StatusMoves ==
  ASSUME TypeOK, NEW j \in Jobs, NEW label \in PC, pc' = [pc EXCEPT ![j] = label]
  PROVE  Status' = [Status EXCEPT ![j] = StatusAt(label)]
<1>1. \A k \in Jobs : pc[k] \in PC /\ pc'[k] = IF k = j THEN label ELSE pc[k]
  BY DEF TypeOK
<1>2. /\ Status = [k \in Jobs |-> StatusAt(pc[k])]
      /\ Status' = [k \in Jobs |-> StatusAt(pc'[k])]
  BY DEF Status, StatusAt
<1> QED
  BY <1>1, <1>2

\* BoundedWork counts as this module does.
LEMMA SameCardinality == \A S : Queue!Cardinality(S) = Cardinality(S)
BY DEF Queue!Cardinality, Cardinality

\* The sets that BoundedWork counts are those the permits count.
LEMMA StatusCounts ==
  ASSUME TypeOK
  PROVE  /\ Queue!Active = Working
         /\ \A u : Queue!Active \cap Queue!JobsOf(u) = WorkingFor(u)
         /\ \A k \in Jobs : Status[k] = StatusAt(pc[k])
         /\ \A k \in Jobs : Status[k] # "idle" <=> pc[k] # "idle"
<1>1. \A k \in Jobs : pc[k] \in PC
  BY DEF TypeOK
<1>2. \A k \in Jobs : /\ Status[k] = StatusAt(pc[k])
                      /\ Status[k] # "idle" <=> pc[k] # "idle"
                      /\ Status[k] = "active" <=> pc[k] = "working"
  BY <1>1 DEF Status, StatusAt, PC
<1>3. Queue!Active = Working
  BY <1>2 DEF Queue!Active, Working, Status
<1> QED
  BY <1>2, <1>3 DEF Queue!JobsOf, WorkingFor, Working

\* A job that passes both gates found room under both limits.
LEMMA RoomAtBothGates ==
  ASSUME SlotsInv, TableNames, NEW j \in Jobs, AcquireGlobal(j)
  PROVE  Queue!RoomFor(j)
<1> USE DEF SlotsInv
<1>1. pc[j] = "globalWait" /\ globalPermits > 0
  BY DEF AcquireGlobal
<1>2. Cardinality(Working) < GlobalLimit
  <2>1. globalPermits \in Nat /\ Cardinality(Working) \in Nat
    BY FiniteJobSets, SlotsAssumption DEF TypeOK, Working
  <2> QED
    BY <1>1, <2>1 DEF PermitsConserved
<1>3. ASSUME Owner[j] # NoUser PROVE Cardinality(WorkingFor(Owner[j])) < UserLimit
  <2> DEFINE u == Owner[j]
             g == gate[j]
  <2>1. u \in Users /\ g \in Gates /\ g = userGates[u]
    BY <1>1, <1>3, SlotsAssumption DEF GateShape, TableNames
  <2>2. \A k \in WorkingFor(u) : k \in Holders(g) /\ k # j
    BY <1>1, <2>1, SlotsAssumption DEF WorkingFor, Working, Holders, GateShape, TableNames
  <2>3. j \in Holders(g)
    BY <1>1 DEF Holders
  <2> HIDE DEF u, g
  <2>4. Holders(g) \in SUBSET Jobs /\ WorkingFor(u) \in SUBSET (Holders(g) \ {j})
    BY <2>2 DEF Holders
  <2>5. IsFiniteSet(Holders(g)) /\ Cardinality(Holders(g)) \in Nat
    BY <2>4, FiniteJobSets
  <2>6. /\ IsFiniteSet(Holders(g) \ {j})
        /\ Cardinality(Holders(g) \ {j}) = Cardinality(Holders(g)) - 1
    BY <2>3, <2>5, FS_RemoveElement
  <2>7. /\ Cardinality(WorkingFor(u)) \in Nat
        /\ Cardinality(WorkingFor(u)) <= Cardinality(Holders(g) \ {j})
    <3>1. /\ IsFiniteSet(WorkingFor(u))
          /\ Cardinality(WorkingFor(u)) <= Cardinality(Holders(g) \ {j})
      BY <2>4, <2>6, FS_Subset
    <3> QED
      BY <3>1, FS_CardinalityType
  <2>8. /\ permits[g] \in Nat /\ permits[g] + Cardinality(Holders(g)) = UserLimit
    BY <2>1, SlotsAssumption DEF PermitsConserved, TypeOK
  <2>9. Cardinality(WorkingFor(u)) < UserLimit
    BY <2>5, <2>6, <2>7, <2>8
  <2> QED
    BY <2>9 DEF u
<1> QED
  BY <1>2, <1>3, StatusCounts, SameCardinality DEF Queue!RoomFor

\* A job that times out at its user's gate is crowded out by the gate's holders.
LEMMA RefusedAtUserGate ==
  ASSUME SlotsInv, GatesApart, NEW j \in Jobs, TimeoutUser(j)
  PROVE  Queue!CrowdedOut(j)
<1> USE DEF SlotsInv
<1> DEFINE g == gate[j]
           others == {k \in Queue!JobsOf(Owner[j]) \ {j} : Status[k] # "idle"}
<1>1. pc[j] = "userWait" /\ permits[g] = 0
  BY DEF TimeoutUser
<1>2. Owner[j] # NoUser /\ g \in Gates /\ g # NoGate
  BY <1>1, SlotsAssumption DEF GateShape
<1>3. Cardinality(Holders(g)) = UserLimit
  <2>1. Cardinality(Holders(g)) \in Nat
    BY FiniteJobSets DEF Holders
  <2> QED
    BY <1>1, <1>2, <2>1, SlotsAssumption DEF PermitsConserved
<1>4. ASSUME NEW k \in Holders(g) PROVE k \in others
  <2>1. k \in Jobs /\ gate[k] = g /\ pc[k] \in {"globalWait", "working", "leaving"}
    BY DEF Holders
  <2>2. k # j /\ Owner[k] = Owner[j] /\ Status[k] # "idle"
    BY <1>1, <1>2, <2>1, StatusCounts DEF GatesApart
  <2> QED
    BY <2>1, <2>2 DEF Queue!JobsOf
<1>5. others \in SUBSET Jobs /\ Holders(g) \in SUBSET others
  BY <1>4 DEF Queue!JobsOf
<1> HIDE DEF others
<1>6. /\ IsFiniteSet(others) /\ Cardinality(others) \in Nat
      /\ Cardinality(Holders(g)) <= Cardinality(others)
  <2>1. IsFiniteSet(others) /\ Cardinality(others) \in Nat
    BY <1>5, FiniteJobSets
  <2> QED
    BY <1>5, <2>1, FS_Subset
<1>7. Cardinality(others) >= UserLimit
  BY <1>3, <1>6, SlotsAssumption
<1> QED
  BY <1>2, <1>7, SameCardinality DEF others, Queue!CrowdedOut, Status

\* Every step of the gates is a step of BoundedWork, or none.
LEMMA BoundedWorkStep ==
  ASSUME SlotsInv, TableNames, GatesApart, [Next]_vars
  PROVE  [Queue!Next]_Status
<1> USE DEF SlotsInv
<1>1. ASSUME NEW j \in Jobs, Enter(j) PROVE Queue!Submit(j)
  <2>1. PICK label \in {"userWait", "globalWait"} :
           pc[j] = "idle" /\ pc' = [pc EXCEPT ![j] = label]
    BY <1>1 DEF Enter, EnterUnowned, EnterKnown, EnterNew
  <2>2. Status' = [Status EXCEPT ![j] = "waiting"]
    BY <2>1, StatusMoves DEF PC, StatusAt
  <2>3. Status[j] = "idle"
    BY <2>1, StatusCounts
  <2> QED
    BY <2>2, <2>3 DEF Queue!Submit, Status
<1>2. ASSUME NEW j \in Jobs, AcquireUser(j) PROVE UNCHANGED Status
  <2>1. pc[j] = "userWait" /\ pc' = [pc EXCEPT ![j] = "globalWait"]
    BY <1>2 DEF AcquireUser
  <2> QED
    <3>1. Status[j] = "waiting" /\ Status' = [Status EXCEPT ![j] = "waiting"]
      BY <2>1, StatusMoves, StatusCounts DEF PC, StatusAt
    <3>2. Status = [k \in Jobs |-> StatusAt(pc[k])]
      BY DEF Status, StatusAt
    <3> QED
      BY <3>1, <3>2
<1>3. ASSUME NEW j \in Jobs, TimeoutUser(j) \/ TimeoutGlobal(j) PROVE Queue!Refuse(j)
  <2>1. /\ pc[j] \in {"userWait", "globalWait"}
        /\ \E out \in {"idle", "leaving"} : pc' = [pc EXCEPT ![j] = out]
    BY <1>3 DEF TimeoutUser, TimeoutGlobal
  <2>2. Status[j] = "waiting"
    BY <2>1, StatusCounts DEF StatusAt
  <2>3. \E out \in {"idle", "leaving"} : Status' = [Status EXCEPT ![j] = out]
    BY <2>1, StatusMoves DEF PC, StatusAt
  <2>4. Queue!CrowdedOut(j)
    <3>1. CASE TimeoutUser(j)
      BY <3>1, RefusedAtUserGate
    <3>2. CASE TimeoutGlobal(j)
      <4>1. globalPermits = 0 /\ Cardinality(Working) \in Nat
        BY <3>2, FiniteJobSets DEF TimeoutGlobal, Working
      <4>2. Cardinality(Working) >= GlobalLimit
        BY <4>1, SlotsAssumption DEF PermitsConserved
      <4> QED
        BY <4>2, StatusCounts, SameCardinality DEF Queue!CrowdedOut
    <3> QED
      BY <1>3, <3>1, <3>2
  <2> QED
    BY <2>2, <2>3, <2>4 DEF Queue!Refuse, Status
<1>4. ASSUME NEW j \in Jobs, AcquireGlobal(j) PROVE Queue!Start(j)
  <2>1. pc[j] = "globalWait" /\ pc' = [pc EXCEPT ![j] = "working"]
    BY <1>4 DEF AcquireGlobal
  <2>2. Status[j] = "waiting"
    BY <2>1, StatusCounts DEF StatusAt
  <2>3. Status' = [Status EXCEPT ![j] = "active"]
    BY <2>1, StatusMoves DEF PC, StatusAt
  <2>4. Queue!RoomFor(j)
    BY <1>4, RoomAtBothGates
  <2> QED
    BY <2>2, <2>3, <2>4 DEF Queue!Start, Status
<1>5. ASSUME NEW j \in Jobs, ReleaseGlobal(j) PROVE Queue!Finish(j)
  <2>1. pc[j] = "working" /\ pc' = [pc EXCEPT ![j] = "leaving"]
    BY <1>5 DEF ReleaseGlobal
  <2>2. Status[j] = "active"
    BY <2>1, StatusCounts DEF StatusAt
  <2>3. Status' = [Status EXCEPT ![j] = "leaving"]
    BY <2>1, StatusMoves DEF PC, StatusAt
  <2> QED
    BY <2>2, <2>3 DEF Queue!Finish, Status
<1>6. ASSUME NEW j \in Jobs, ReleaseUser(j) PROVE Queue!Leave(j)
  <2>1. pc[j] = "leaving" /\ pc' = [pc EXCEPT ![j] = "idle"]
    BY <1>6 DEF ReleaseUser
  <2>2. Status[j] = "leaving"
    BY <2>1, StatusCounts DEF StatusAt
  <2>3. Status' = [Status EXCEPT ![j] = "idle"]
    BY <2>1, StatusMoves DEF PC, StatusAt
  <2> QED
    BY <2>2, <2>3 DEF Queue!Leave, Status
<1>7. CASE UNCHANGED vars
  BY <1>7 DEF vars, Status
<1> QED
  BY <1>1, <1>2, <1>3, <1>4, <1>5, <1>6, <1>7
  DEF Next, Wait, Leave, Queue!Next

\* The gates keep the promise of BoundedWork, if the table has room for a gate
\* of every user: limits hold, and a job is refused only because active jobs
\* fill the global limit or its user has a full share of jobs in the queue,
\* those between the two releases of the finally clause included.
THEOREM ImplementsBoundedWorkTheorem ==
  ASSUME MaxGates >= Cardinality(Users)
  PROVE  Spec => ImplementsBoundedWork
<1>1. Init => GatesApart
  BY DEF Init, GatesApart
<1>2. SlotsInv => TypeOK
  BY DEF SlotsInv
<1>3. Init => Queue!Init
  BY DEF Init, Queue!Init
<1>4. SlotsInv /\ TableNames /\ GatesApart /\ [Next]_vars => [Queue!Next]_Status
  BY BoundedWorkStep
<1> QED
  BY <1>1, <1>2, <1>3, <1>4, GatesApartStep, TableNamesInvariant, PTL
  DEF Spec, ImplementsBoundedWork, Queue!Spec, Status
=============================================================================
