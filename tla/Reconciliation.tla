--------------------------- MODULE Reconciliation ---------------------------
(***************************************************************************)
(* Projects, pre-entered expenses and the invoices that settle them: the     *)
(* page handlers of app/main.py that link the three tables, and what the     *)
(* deletion of an invoice by the user or by the mail filters does to them.   *)
(*                                                                         *)
(* A handler reads its rows and commits after its last await, so it is one   *)
(* action; the mail filters run on a thread of their own and are another.    *)
(* owned_invoice, owned_project and owned_expense let a member touch what is *)
(* his and an admin touch everything.                                       *)
(***************************************************************************)
EXTENDS Naturals

CONSTANTS
    Members, Admin,               \* the actors, by the role they came with
    Invoices, Expenses, Projects, \* ids
    Owner,                        \* Owner[x]: owner_id of any of the three
    None                          \* NULL

Actors == Members \cup {Admin}

ASSUME ReconciliationAssumption ==
    /\ Admin \notin Members
    /\ Owner \in [Invoices \cup Expenses \cup Projects -> Actors]
    /\ None \notin Invoices \cup Expenses \cup Projects
    /\ "absent" \notin Projects \cup {None}

VARIABLES
    invoice,    \* invoice[i]: its project_id, in a record, or Absent
    expense,    \* the expense_items table
    project,    \* ids in the projects table
    happened    \* history: "admin" acted, "email" removed an invoice

vars == <<invoice, expense, project, happened>>

Absent == [project |-> "absent"]
Invoice == [project : Projects \cup {None}]
Expense == [project : Projects \cup {None}, status : {"pending", "reconciled"},
            invoice : Invoices \cup {None}]

TypeOK ==
    /\ invoice \in [Invoices -> Invoice \cup {Absent}]
    /\ expense \in [Expenses -> Expense \cup {Absent}]
    /\ project \subseteq Projects
    /\ happened \subseteq {"admin", "email"}

Init ==
    /\ invoice = [i \in Invoices |-> Absent]
    /\ expense = [e \in Expenses |-> Absent]
    /\ project = {}
    /\ happened = {}

-----------------------------------------------------------------------------

Present == {i \in Invoices : invoice[i] # Absent}
Entered == {e \in Expenses : expense[e] # Absent}

\* owned_invoice, owned_project, owned_expense; an admin's step is remembered.
MayUse(a, x) == a = Admin \/ Owner[x] = a
By(a) == happened' = happened \cup (IF a = Admin THEN {"admin"} ELSE {})

\* A project a form may name: none, or one that exists and may be used.
Choices(a) == {None} \cup {p \in project : MayUse(a, p)}

Freed(x) == [x EXCEPT !.status = "pending", !.invoice = None]

\* Mutant: the flag is reset, the link stays.
FreeKeepsLink(S) ==
    [e \in Expenses |-> IF e \in Entered /\ expense[e].invoice \in S
                        THEN [expense[e] EXCEPT !.status = "pending"] ELSE expense[e]]

\* The expenses once those settled by an invoice of S are open again.
Free(S) ==
    [e \in Expenses |-> IF e \in Entered /\ expense[e].invoice \in S
                        THEN Freed(expense[e]) ELSE expense[e]]

\* Mutant: the expense the invoice settled before is left alone.
BindAlso(e, i) ==
    [expense EXCEPT ![e] = [@ EXCEPT !.status = "reconciled", !.invoice = i]]

\* The expenses once i settles e and nothing else.
Bind(e, i) ==
    [x \in Expenses |->
        IF x = e THEN [expense[e] EXCEPT !.status = "reconciled", !.invoice = i]
        ELSE Free({i})[x]]

\* Mutant: the expense itself is taken for its project.
AdoptExpense(p, e) == IF p = None THEN e ELSE p

\* An invoice without a project takes the one of the expense it settles.
Adopt(p, e) == IF p = None THEN expense[e].project ELSE p

(***************************************************************************)
(* Projects                                                                *)
(***************************************************************************)

CreateProject(p) ==
    /\ p \notin project
    /\ project' = project \cup {p}
    /\ By(Owner[p])
    /\ UNCHANGED <<invoice, expense>>

DeleteProject(a, p) ==
    /\ p \in project /\ MayUse(a, p)
    /\ project' = project \ {p}
    /\ invoice' = [i \in Invoices |->
          IF i \in Present /\ invoice[i].project = p
          THEN [invoice[i] EXCEPT !.project = None] ELSE invoice[i]]
    /\ expense' = [e \in Expenses |->
          IF e \in Entered /\ expense[e].project = p
          THEN [expense[e] EXCEPT !.project = None] ELSE expense[e]]
    /\ By(a)

\* invoices_batch_assign_project keeps to the actor's invoices.
AssignProject(a, S, p) ==
    /\ p \in Choices(a)
    /\ LET mine == {i \in S \cap Present : MayUse(a, i)} IN
          /\ mine # {}
          /\ invoice' = [i \in Invoices |->
                IF i \in mine THEN [invoice[i] EXCEPT !.project = p] ELSE invoice[i]]
    /\ By(a)
    /\ UNCHANGED <<expense, project>>

(***************************************************************************)
(* Expenses                                                                *)
(***************************************************************************)

CreateExpense(e, p) ==
    /\ e \notin Entered
    /\ p \in Choices(Owner[e])
    /\ expense' = [expense EXCEPT ![e] =
          [project |-> p, status |-> "pending", invoice |-> None]]
    /\ By(Owner[e])
    /\ UNCHANGED <<invoice, project>>

EditExpense(a, e, p) ==
    /\ e \in Entered /\ MayUse(a, e)
    /\ p \in Choices(a)
    /\ expense' = [expense EXCEPT ![e].project = p]
    /\ By(a)
    /\ UNCHANGED <<invoice, project>>

\* Mutant: the invoice is looked up, its owner is not.
ReconcileAnyInvoice(a, e, i) ==
    /\ e \in Entered /\ MayUse(a, e)
    /\ i \in Present
    /\ expense' = Bind(e, i)
    /\ invoice' = [invoice EXCEPT ![i].project = Adopt(@, e)]
    /\ By(a)
    /\ UNCHANGED project

ReconcileExpense(a, e, i) ==
    /\ e \in Entered /\ MayUse(a, e)
    /\ i \in Present /\ MayUse(a, i)
    /\ expense' = Bind(e, i)
    /\ invoice' = [invoice EXCEPT ![i].project = Adopt(@, e)]
    /\ By(a)
    /\ UNCHANGED project

UnreconcileExpense(a, e) ==
    /\ e \in Entered /\ MayUse(a, e)
    /\ expense' = [expense EXCEPT ![e] = Freed(@)]
    /\ By(a)
    /\ UNCHANGED <<invoice, project>>

DeleteExpense(a, e) ==
    /\ e \in Entered /\ MayUse(a, e)
    /\ expense' = [expense EXCEPT ![e] = Absent]
    /\ By(a)
    /\ UNCHANGED <<invoice, project>>

(***************************************************************************)
(* Invoices                                                                *)
(***************************************************************************)

\* An upload or a mail scan; the id is a new one as far as the links go.
Arrive(i) ==
    /\ i \notin Present
    /\ invoice' = [invoice EXCEPT ![i] = [project |-> None]]
    /\ UNCHANGED <<expense, project, happened>>

\* The form replaces the project.  It may name an expense to settle, or ask for
\* the invoice's expenses to be opened again; that comes last.  An expense or
\* a project the actor may not use is ignored, as if the form named none.
SaveInvoice(a, i, p, e, reopen) ==
    /\ i \in Present /\ MayUse(a, i)
    /\ p \in Choices(a)
    /\ e \in {x \in Entered : MayUse(a, x)} \cup {None}
    /\ invoice' = [invoice EXCEPT ![i].project = IF e = None THEN p ELSE Adopt(p, e)]
    /\ LET bound == IF e = None THEN expense ELSE Bind(e, i) IN
          expense' = IF ~reopen THEN bound
                     ELSE [x \in Expenses |->
                             IF x = e THEN Freed(bound[x]) ELSE Free({i})[x]]
    /\ By(a)
    /\ UNCHANGED project

\* delete_invoice, and invoices_batch_delete, which opens the expenses of all
\* selected invoices but may fail before it has deleted them all.
DeleteInvoices(a, S) ==
    /\ S # {} /\ S \subseteq Present /\ \A i \in S : MayUse(a, i)
    /\ \E gone \in SUBSET S :
          invoice' = [i \in Invoices |-> IF i \in gone THEN Absent ELSE invoice[i]]
    /\ expense' = Free(S)
    /\ By(a)
    /\ UNCHANGED project

\* _remove_email_invoice knows no expenses: the foreign key sets the link of
\* one that the invoice settles to NULL, its status stays.
EmailRemoves(i) ==
    /\ i \in Present
    /\ invoice' = [invoice EXCEPT ![i] = Absent]
    /\ expense' = [e \in Expenses |->
          IF e \in Entered /\ expense[e].invoice = i
          THEN [expense[e] EXCEPT !.invoice = None] ELSE expense[e]]
    /\ happened' = happened \cup {"email"}
    /\ UNCHANGED project

-----------------------------------------------------------------------------

Next ==
    \/ \E p \in Projects : CreateProject(p)
    \/ \E a \in Actors, p \in Projects : DeleteProject(a, p)
    \/ \E a \in Actors, S \in SUBSET Invoices, p \in Projects \cup {None} :
          AssignProject(a, S, p)
    \/ \E e \in Expenses, p \in Projects \cup {None} : CreateExpense(e, p)
    \/ \E a \in Actors, e \in Expenses, p \in Projects \cup {None} : EditExpense(a, e, p)
    \/ \E a \in Actors, e \in Expenses, i \in Invoices : ReconcileExpense(a, e, i)
    \/ \E a \in Actors, e \in Expenses : UnreconcileExpense(a, e) \/ DeleteExpense(a, e)
    \/ \E i \in Invoices : Arrive(i) \/ EmailRemoves(i)
    \/ \E a \in Actors, i \in Invoices, p \in Projects \cup {None},
          e \in Expenses \cup {None}, reopen \in BOOLEAN : SaveInvoice(a, i, p, e, reopen)
    \/ \E a \in Actors, S \in SUBSET Invoices : DeleteInvoices(a, S)

Spec == Init /\ [][Next]_vars

-----------------------------------------------------------------------------

\* An expense counts as reconciled exactly while it names an invoice in the
\* table, whichever handler links, moves or deletes; only the removal of a
\* duplicate by the mail filters is left out, which is a known limit
\* (mail_service.py:174).  One invoice settles one expense at most: what it
\* settled before is opened again (main.py:1654 and :2908).
SettledByInvoice ==
    /\ "email" \notin happened => \A e \in Entered :
          /\ expense[e].status = "reconciled" <=> expense[e].invoice # None
          /\ expense[e].invoice \in Present \cup {None}
    /\ \A d, e \in Entered :
          expense[d].invoice = expense[e].invoice /\ expense[d].invoice # None => d = e

\* Until the first change an admin makes, an expense, the invoice that settles it
\* and the projects of both are one owner's, also where a project comes to an
\* invoice through an expense (main.py:2918); and whoever acts, no expense and
\* no invoice stays in a project that was deleted (main.py:2692).
Linked(x, y) == y # None => Owner[y] = Owner[x]
WithinTenant ==
    /\ "admin" \notin happened =>
          /\ \A e \in Entered : Linked(e, expense[e].invoice) /\ Linked(e, expense[e].project)
          /\ \A i \in Present : Linked(i, invoice[i].project)
    /\ \A e \in Entered : expense[e].project \in project \cup {None}
    /\ \A i \in Present : invoice[i].project \in project \cup {None}
=============================================================================
