------------------------- MODULE ReconciliationProofs -------------------------
(***************************************************************************)
(* The links between invoices, expenses and projects, for any numbers of      *)
(* them, of members and of owners.  The invariant is inductive as it stands:  *)
(* each handler mends in one step every link that it breaks.                  *)
(***************************************************************************)
EXTENDS Reconciliation, TLAPS

LinksInv == TypeOK /\ SettledByInvoice /\ WithinTenant

-----------------------------------------------------------------------------
(***************************************************************************)
(* The two operators that move a link, on any table of expenses.            *)
(***************************************************************************)

\* An expense that is opened again is an expense without an invoice.
LEMMA FreedIsPending ==
  ASSUME NEW x \in Expense
  PROVE  /\ Freed(x) \in Expense /\ Freed(x) # Absent
         /\ Freed(x).status = "pending" /\ Freed(x).invoice = None
         /\ Freed(x).project = x.project
  BY DEF Freed, Expense, Absent

\* Opening the expenses of a set of invoices keeps each expense and its
\* project, and leaves no link to the set.
LEMMA FreeMends ==
  ASSUME TypeOK, NEW S
  PROVE  /\ Free(S) \in [Expenses -> Expense \cup {Absent}]
         /\ \A e \in Expenses : Free(S)[e] # Absent <=> e \in Entered
         /\ \A e \in Entered :
               /\ Free(S)[e].project = expense[e].project
               /\ expense[e].invoice \in S =>
                     Free(S)[e].status = "pending" /\ Free(S)[e].invoice = None
               /\ expense[e].invoice \notin S => Free(S)[e] = expense[e]
  BY DEF Free, Freed, TypeOK, Entered, Expense, Absent

\* Settling an expense keeps each expense and its project; the invoice is named
\* by that expense alone.
LEMMA BindMends ==
  ASSUME TypeOK, NEW e \in Entered, NEW i \in Invoices
  PROVE  /\ Bind(e, i) \in [Expenses -> Expense \cup {Absent}]
         /\ \A x \in Expenses : Bind(e, i)[x] # Absent <=> x \in Entered
         /\ \A x \in Entered : Bind(e, i)[x].project = expense[x].project
         /\ Bind(e, i)[e].status = "reconciled" /\ Bind(e, i)[e].invoice = i
         /\ \A x \in Entered \ {e} :
               /\ expense[x].invoice = i =>
                     Bind(e, i)[x].status = "pending" /\ Bind(e, i)[x].invoice = None
               /\ expense[x].invoice # i => Bind(e, i)[x] = expense[x]
<1>1. e \in Expenses /\ expense[e] \in Expense
  BY DEF Entered, TypeOK
<1> DEFINE settled == [expense[e] EXCEPT !.status = "reconciled", !.invoice = i]
           opened == Free({i})
<1>2. /\ settled \in Expense /\ settled # Absent
      /\ settled.status = "reconciled" /\ settled.invoice = i
      /\ settled.project = expense[e].project
  BY <1>1 DEF Expense, Absent
<1>3. \A x \in Expenses : Bind(e, i)[x] = IF x = e THEN settled ELSE opened[x]
  BY DEF Bind
<1>4. /\ opened \in [Expenses -> Expense \cup {Absent}]
      /\ \A x \in Expenses : opened[x] # Absent <=> x \in Entered
      /\ \A x \in Entered :
            /\ opened[x].project = expense[x].project
            /\ expense[x].invoice = i =>
                  opened[x].status = "pending" /\ opened[x].invoice = None
            /\ expense[x].invoice # i => opened[x] = expense[x]
  BY FreeMends
<1>5. Bind(e, i) \in [Expenses -> Expense \cup {Absent}]
  BY <1>2, <1>4 DEF Bind
<1>6. Entered \subseteq Expenses
  BY DEF Entered
<1> HIDE DEF settled, opened
<1> QED
  BY <1>2, <1>3, <1>4, <1>5, <1>6

-----------------------------------------------------------------------------

\* Empty tables have no links.
LEMMA InitLinksInv == Init => LinksInv
  BY ReconciliationAssumption
  DEF Init, LinksInv, TypeOK, SettledByInvoice, WithinTenant, Entered, Present

(***************************************************************************)
(* One lemma for each handler.                                             *)
(***************************************************************************)

\* project_create: a new project has no links.
LEMMA CreateProjectInv ==
  ASSUME LinksInv, NEW p \in Projects, CreateProject(p)
  PROVE  LinksInv'
<1> USE ReconciliationAssumption DEF LinksInv
<1>1. TypeOK'
  BY DEF CreateProject, By, TypeOK
<1>2. SettledByInvoice'
  BY DEF CreateProject, By, Present, Entered, SettledByInvoice
<1>3. WithinTenant'
  BY DEF CreateProject, By, Present, Entered, WithinTenant
<1> QED
  BY <1>1, <1>2, <1>3

\* project_delete: its invoices and expenses lose the link.
LEMMA DeleteProjectInv ==
  ASSUME LinksInv, NEW a \in Actors, NEW p \in Projects, DeleteProject(a, p)
  PROVE  LinksInv'
<1> USE ReconciliationAssumption DEF LinksInv
<1>1. TypeOK'
  BY DEF DeleteProject, By, TypeOK, Invoice, Expense, Absent
<1>2. SettledByInvoice'
  BY DEF DeleteProject, By, Present, Entered, Absent, SettledByInvoice
<1>3. WithinTenant'
  BY DEF DeleteProject, By, Present, Entered, WithinTenant, Linked
<1> QED
  BY <1>1, <1>2, <1>3

\* Invoices go to a project of the actor's choices, and of their owner's.
LEMMA AssignProjectInv ==
  ASSUME LinksInv, NEW a \in Actors, NEW S \in SUBSET Invoices, NEW p \in Projects \cup {None},
         AssignProject(a, S, p)
  PROVE  LinksInv'
<1> USE ReconciliationAssumption DEF LinksInv
<1>1. TypeOK'
  BY DEF AssignProject, By, TypeOK, Invoice, Absent
<1>2. SettledByInvoice'
  BY DEF AssignProject, By, Present, Entered, Absent, SettledByInvoice
<1>3. WithinTenant'
  BY DEF AssignProject, By, MayUse, Choices, Present, Entered, WithinTenant, Linked
<1> QED
  BY <1>1, <1>2, <1>3

\* expense_create: a new expense is pending.
LEMMA CreateExpenseInv ==
  ASSUME LinksInv, NEW e \in Expenses, NEW p \in Projects \cup {None}, CreateExpense(e, p)
  PROVE  LinksInv'
<1> USE ReconciliationAssumption DEF LinksInv
<1>1. TypeOK'
  BY DEF CreateExpense, By, TypeOK, Expense
<1>2. SettledByInvoice'
  BY DEF CreateExpense, By, Present, Entered, SettledByInvoice
<1>3. WithinTenant'
  BY DEF CreateExpense, By, MayUse, Choices, Present, Entered, WithinTenant, Linked
<1> QED
  BY <1>1, <1>2, <1>3

\* expense_edit: only the project may change.
LEMMA EditExpenseInv ==
  ASSUME LinksInv, NEW a \in Actors, NEW e \in Expenses, NEW p \in Projects \cup {None},
         EditExpense(a, e, p)
  PROVE  LinksInv'
<1> USE ReconciliationAssumption DEF LinksInv
<1>1. TypeOK'
  BY DEF EditExpense, By, TypeOK, Entered, Expense
<1>2. SettledByInvoice'
  BY DEF EditExpense, By, Present, Entered, SettledByInvoice
<1>3. WithinTenant'
  BY DEF EditExpense, By, MayUse, Choices, Present, Entered, WithinTenant, Linked
<1> QED
  BY <1>1, <1>2, <1>3

\* The expense that held the invoice is opened in the step that binds another.
LEMMA ReconcileExpenseInv ==
  ASSUME LinksInv, NEW a \in Actors, NEW e \in Expenses, NEW i \in Invoices,
         ReconcileExpense(a, e, i)
  PROVE  LinksInv'
<1> USE ReconciliationAssumption DEF LinksInv
<1>1. e \in Entered /\ MayUse(a, e) /\ i \in Present /\ MayUse(a, i) /\ By(a)
  BY DEF ReconcileExpense
<1>2. project' = project /\ expense' = Bind(e, i)
  BY DEF ReconcileExpense
<1>3. LET p == Adopt(invoice[i].project, e) IN
         /\ invoice' = [invoice EXCEPT ![i] = [project |-> p]]
         /\ p \in Projects \cup {None} /\ p \in {invoice[i].project, expense[e].project}
  <2>1. invoice[i] \in Invoice /\ expense[e] \in Expense
    BY <1>1 DEF TypeOK, Present, Entered
  <2>2. \A p \in Projects \cup {None} : [invoice[i] EXCEPT !.project = p] = [project |-> p]
    BY <2>1 DEF Invoice
  <2>3. Adopt(invoice[i].project, e) \in {invoice[i].project, expense[e].project}
    BY DEF Adopt
  <2>4. Adopt(invoice[i].project, e) \in Projects \cup {None}
    BY <2>1, <2>3 DEF Invoice, Expense
  <2> QED
    BY <2>2, <2>3, <2>4 DEF ReconcileExpense
<1>4. expense' = Bind(e, i) /\ Present' = Present /\ Entered' = Entered
  BY <1>1, <1>2, <1>3, BindMends DEF TypeOK, Present, Entered, Absent
<1>5. TypeOK'
  BY <1>1, <1>2, <1>3, BindMends DEF TypeOK, Invoice, By
<1>6. SettledByInvoice'
  BY <1>1, <1>4, BindMends DEF SettledByInvoice, By
<1>7. WithinTenant'
  <2>1. "admin" \notin happened' => Owner[e] = Owner[i] /\ "admin" \notin happened
    BY <1>1 DEF By, MayUse
  <2>2. \A x \in Entered : \/ expense'[x].invoice \in {None, expense[x].invoice}
                           \/ x = e /\ expense'[x].invoice = i
    BY <1>1, <1>4, BindMends
  <2>3. \A x \in Entered : expense'[x].project = expense[x].project
    BY <1>1, <1>4, BindMends
  <2>4. \A j \in Present : \/ invoice'[j].project = invoice[j].project
                           \/ j = i /\ invoice'[j].project = expense[e].project
    <3>1. PICK q : /\ invoice' = [invoice EXCEPT ![i] = [project |-> q]]
                   /\ q \in {invoice[i].project, expense[e].project}
      BY <1>3
    <3>2. [project |-> q].project = q
      OBVIOUS
    <3> QED
      BY <3>1, <3>2 DEF TypeOK, Present
  <2> QED
    BY <1>1, <1>2, <1>4, <2>1, <2>2, <2>3, <2>4 DEF WithinTenant, Linked
<1> QED
  BY <1>5, <1>6, <1>7

\* expense_unreconcile: the status goes with the link.
LEMMA UnreconcileExpenseInv ==
  ASSUME LinksInv, NEW a \in Actors, NEW e \in Expenses, UnreconcileExpense(a, e)
  PROVE  LinksInv'
<1> USE ReconciliationAssumption DEF LinksInv
<1>1. e \in Entered /\ By(a) /\ UNCHANGED <<invoice, project>>
      /\ expense' = [expense EXCEPT ![e] = Freed(expense[e])]
  BY DEF UnreconcileExpense
<1>2. /\ Freed(expense[e]) \in Expense /\ Freed(expense[e]) # Absent
      /\ Freed(expense[e]).status = "pending" /\ Freed(expense[e]).invoice = None
      /\ Freed(expense[e]).project = expense[e].project
  BY <1>1, FreedIsPending DEF TypeOK, Entered
<1>3. TypeOK'
  BY <1>1, <1>2 DEF TypeOK, By
<1>4. Entered' = Entered /\ Present' = Present
  BY <1>1, <1>2 DEF TypeOK, Entered, Present
<1>5. SettledByInvoice'
  BY <1>1, <1>2, <1>4 DEF SettledByInvoice, TypeOK, By
<1>6. WithinTenant'
  BY <1>1, <1>2, <1>4 DEF WithinTenant, Linked, TypeOK, By
<1> QED
  BY <1>3, <1>5, <1>6

\* expense_delete: the link goes with the row.
LEMMA DeleteExpenseInv ==
  ASSUME LinksInv, NEW a \in Actors, NEW e \in Expenses, DeleteExpense(a, e)
  PROVE  LinksInv'
<1> USE ReconciliationAssumption DEF LinksInv
<1>1. TypeOK'
  BY DEF DeleteExpense, By, TypeOK
<1>2. SettledByInvoice'
  BY DEF DeleteExpense, By, Present, Entered, SettledByInvoice
<1>3. WithinTenant'
  BY DEF DeleteExpense, By, Present, Entered, WithinTenant
<1> QED
  BY <1>1, <1>2, <1>3

\* A new invoice is nobody's link.
LEMMA ArriveInv ==
  ASSUME LinksInv, NEW i \in Invoices, Arrive(i)
  PROVE  LinksInv'
<1> USE ReconciliationAssumption DEF LinksInv
<1>1. TypeOK'
  BY DEF Arrive, TypeOK, Invoice
<1>2. SettledByInvoice'
  BY DEF Arrive, Present, Entered, SettledByInvoice
<1>3. WithinTenant'
  BY DEF Arrive, Present, Entered, WithinTenant, Linked
<1> QED
  BY <1>1, <1>2, <1>3

\* The mail filters delete an invoice: the foreign key clears the link, the
\* status stays, and only WithinTenant still speaks of it.
LEMMA EmailRemovesInv ==
  ASSUME LinksInv, NEW i \in Invoices, EmailRemoves(i)
  PROVE  LinksInv'
<1> USE ReconciliationAssumption DEF LinksInv
<1>1. TypeOK'
  BY DEF EmailRemoves, TypeOK, Expense, Absent
<1>2. SettledByInvoice'
  BY DEF EmailRemoves, Entered, SettledByInvoice
<1>3. WithinTenant'
  BY DEF EmailRemoves, Present, Entered, WithinTenant, Linked
<1> QED
  BY <1>1, <1>2, <1>3

\* invoice_save: the invoice may take a project and an expense, take the
\* expense's project, and open its expense again, all in one commit.
LEMMA SaveInvoiceInv ==
  ASSUME LinksInv, NEW a \in Actors, NEW i \in Invoices, NEW p \in Projects \cup {None},
         NEW e \in Expenses \cup {None}, NEW reopen \in BOOLEAN,
         SaveInvoice(a, i, p, e, reopen)
  PROVE  LinksInv'
<1> USE ReconciliationAssumption DEF LinksInv
<1>1. /\ i \in Present /\ MayUse(a, i) /\ By(a) /\ project' = project
      /\ p \in Choices(a)
      /\ e # None => e \in Entered /\ MayUse(a, e)
  BY DEF SaveInvoice
<1>2. PICK q \in Projects \cup {None} :
         /\ invoice' = [invoice EXCEPT ![i] = [project |-> q]]
         /\ q = p \/ (e # None /\ q = expense[e].project)
  <2>1. invoice[i] \in Invoice /\ (e # None => expense[e] \in Expense)
    BY <1>1 DEF TypeOK, Present, Entered
  <2>2. \A q \in Projects \cup {None} : [invoice[i] EXCEPT !.project = q] = [project |-> q]
    BY <2>1 DEF Invoice
  <2> DEFINE chosen == IF e = None THEN p ELSE Adopt(p, e)
  <2>3. chosen = p \/ (e # None /\ chosen = expense[e].project)
    <3>1. Adopt(p, e) \in {p, expense[e].project}
      BY DEF Adopt
    <3> QED
      BY <3>1
  <2>4. chosen \in Projects \cup {None}
    BY <2>1, <2>3 DEF Expense
  <2>5. invoice' = [invoice EXCEPT ![i] = [invoice[i] EXCEPT !.project = chosen]]
    BY DEF SaveInvoice
  <2>6. [invoice[i] EXCEPT !.project = chosen] = [project |-> chosen]
    BY <2>2, <2>4
  <2>7. invoice' = [invoice EXCEPT ![i] = [project |-> chosen]]
    BY <2>5, <2>6, Zenon
  <2> HIDE DEF chosen
  <2> QED
    BY <2>3, <2>4, <2>7
<1>3. Present' = Present
  BY <1>1, <1>2 DEF TypeOK, Present, Absent
<1>4. /\ expense' \in [Expenses -> Expense \cup {Absent}] /\ Entered' = Entered
      /\ \A x \in Entered :
            /\ expense'[x].project = expense[x].project
            /\ \/ expense'[x] = expense[x] /\ expense[x].invoice # i
               \/ e = None /\ expense'[x] = expense[x]
               \/ expense'[x].status = "pending" /\ expense'[x].invoice = None
               \/ /\ x = e /\ e # None
                  /\ expense'[x].status = "reconciled" /\ expense'[x].invoice = i
  <2> DEFINE bound == IF e = None THEN expense ELSE Bind(e, i)
  <2>1. expense' = IF ~reopen THEN bound
                   ELSE [x \in Expenses |-> IF x = e THEN Freed(bound[x]) ELSE Free({i})[x]]
    BY DEF SaveInvoice
  <2>2. CASE ~reopen /\ e = None
    BY <2>1, <2>2 DEF TypeOK, Entered
  <2>3. CASE ~reopen /\ e # None
    BY <1>1, <2>1, <2>3, BindMends DEF Entered
  <2>4. CASE reopen /\ e = None
    <3>1. expense' = [x \in Expenses |-> Free({i})[x]]
      BY <2>1, <2>4
    <3> QED
      BY <3>1, FreeMends DEF Entered
  <2>5. CASE reopen /\ e # None
    <3>1. Bind(e, i)[e] \in Expense /\ Bind(e, i)[e].project = expense[e].project
      BY <1>1, <2>5, BindMends DEF Entered
    <3>2. \A x \in Expenses : expense'[x] = IF x = e THEN Freed(Bind(e, i)[e]) ELSE Free({i})[x]
      BY <2>1, <2>5
    <3>3. expense' \in [Expenses -> Expense \cup {Absent}]
      BY <2>1, <2>5, <3>1, FreeMends, FreedIsPending
    <3> QED
      BY <1>1, <2>5, <3>1, <3>2, <3>3, FreeMends, FreedIsPending DEF Entered
  <2> QED
    BY <2>2, <2>3, <2>4, <2>5
<1>5. TypeOK'
  BY <1>1, <1>2, <1>4 DEF TypeOK, Invoice, By
<1>6. SettledByInvoice'
  <2>1. "email" \in happened' <=> "email" \in happened
    BY <1>1 DEF By
  <2>2. \A x \in Entered : expense'[x].invoice # None =>
           expense'[x].invoice = expense[x].invoice \/ x = e
    BY <1>4
  <2>3. \A x \in Entered : "email" \notin happened =>
           /\ expense'[x].status = "reconciled" <=> expense'[x].invoice # None
           /\ expense'[x].invoice \in Present \cup {None}
    BY <1>1, <1>4 DEF SettledByInvoice
  <2>4. \A d, x \in Entered :
           expense'[d].invoice = expense'[x].invoice /\ expense'[d].invoice # None => d = x
    BY <1>4 DEF SettledByInvoice
  <2> QED
    BY <1>3, <1>4, <2>1, <2>3, <2>4 DEF SettledByInvoice
<1>7. WithinTenant'
  <2>1. "admin" \notin happened' => /\ "admin" \notin happened /\ Owner[i] = a
                                    /\ p # None => Owner[p] = a
                                    /\ e # None => Owner[e] = a
    BY <1>1 DEF By, MayUse, Choices
  <2>2. p \in project \cup {None}
    BY <1>1 DEF Choices
  <2>3. \A j \in Present : invoice'[j].project = IF j = i THEN q ELSE invoice[j].project
    BY <1>2 DEF TypeOK, Present
  <2>4. q \in project \cup {None} /\ ("admin" \notin happened' /\ q # None => Owner[q] = Owner[i])
    BY <1>1, <1>2, <2>1, <2>2 DEF WithinTenant, Linked
  <2>5. \A x \in Entered : /\ expense'[x].project = expense[x].project
                           /\ \/ expense'[x].invoice \in {None, expense[x].invoice}
                              \/ e # None /\ x = e /\ expense'[x].invoice = i
    BY <1>4
  <2> QED
    BY <1>1, <1>3, <1>4, <2>1, <2>3, <2>4, <2>5 DEF WithinTenant, Linked
<1> QED
  BY <1>5, <1>6, <1>7

\* Expenses of whatever was deleted are opened first, also when the deletion
\* fails half-way.
LEMMA DeleteInvoicesInv ==
  ASSUME LinksInv, NEW a \in Actors, NEW S \in SUBSET Invoices, DeleteInvoices(a, S)
  PROVE  LinksInv'
<1> USE ReconciliationAssumption DEF LinksInv
<1>1. TypeOK'
  BY FreeMends DEF DeleteInvoices, By, TypeOK
<1>2. SettledByInvoice'
  BY FreeMends DEF DeleteInvoices, By, Present, Entered, SettledByInvoice
<1>3. WithinTenant'
  BY FreeMends DEF DeleteInvoices, By, Present, Entered, WithinTenant, Linked
<1> QED
  BY <1>1, <1>2, <1>3

\* The invariant is inductive: one step per action of Next.
LEMMA LinksInvStep == LinksInv /\ [Next]_vars => LinksInv'
<1> SUFFICES ASSUME LinksInv, [Next]_vars PROVE LinksInv'
  OBVIOUS
<1>1. CASE UNCHANGED vars
  BY <1>1 DEF vars, LinksInv, TypeOK, SettledByInvoice, WithinTenant, Entered, Present,
              Linked
<1>2. CASE Next
  BY <1>2, CreateProjectInv, DeleteProjectInv, AssignProjectInv, CreateExpenseInv,
     EditExpenseInv, ReconcileExpenseInv, UnreconcileExpenseInv, DeleteExpenseInv,
     ArriveInv, EmailRemovesInv, SaveInvoiceInv, DeleteInvoicesInv DEF Next
<1> QED
  BY <1>1, <1>2

\* So it holds in every state.
LEMMA LinksInvariant == Spec => []LinksInv
  BY InitLinksInv, LinksInvStep, PTL DEF Spec

\* The three tables keep their types under every handler.
THEOREM ReconciliationTypes == Spec => []TypeOK
<1>1. LinksInv => TypeOK
  BY DEF LinksInv
<1> QED
  BY <1>1, LinksInvariant, PTL

\* An expense counts as reconciled exactly while it names a stored invoice, up
\* to the first removal by the mail filters, and no two name the same one,
\* whatever happens (main.py:1654 and :2908).
THEOREM SettledTheorem == Spec => []SettledByInvoice
<1>1. LinksInv => SettledByInvoice
  BY DEF LinksInv
<1> QED
  BY <1>1, LinksInvariant, PTL

\* Links stay inside one owner until an admin makes one, and inside the table of
\* projects always (main.py:2918 and :2692).
THEOREM TenantTheorem == Spec => []WithinTenant
<1>1. LinksInv => WithinTenant
  BY DEF LinksInv
<1> QED
  BY <1>1, LinksInvariant, PTL
=============================================================================
