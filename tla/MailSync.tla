------------------------------ MODULE MailSync ------------------------------
(***************************************************************************)
(* sync_mailbox of app/services/mail_service.py on one mailbox of an owner   *)
(* whose tax provider is configured: the UID cursor, the processed_emails    *)
(* table and the filters an imported document has to pass; the scan that      *)
(* goes on to another mailbox in the same database session; and the pages     *)
(* that pause, delete and collect a mailbox meanwhile.                       *)
(*                                                                         *)
(* The scheduler's scan and the page's "collect now" are threads of their    *)
(* own; max_instances=1 keeps scans apart from each other but nothing keeps  *)
(* a scan and a manual sync apart.  ingest_bytes is one step here (module    *)
(* Ingestion), process_invoice is one (module InvoiceLedger).                *)
(***************************************************************************)
EXTENDS Naturals, FiniteSets, FiniteSetsExt

CONSTANTS
    Syncs,      \* threads inside sync_mailbox
    Scheduler,  \* the one of them that APScheduler starts
    N,          \* messages that arrive at most, with UIDs 1..N (a bound)
    Limit,      \* mail_fetch_limit
    Documents,  \* attachments, told apart by sha256
    NoDocument, \* a message without a usable attachment, duplicate_of NULL
    Attached,   \* Attached[u]: the document of message u
    Number,     \* Number[d]: the business key printed on d
    Pdf,        \* the documents that are PDF files
    Budget      \* messages that arrive, and the members of Troubles, each once, in
                \* one behaviour together (a bound)

Uid == 1..N

ASSUME MailAssumption ==
    /\ Scheduler \in Syncs /\ NoDocument \notin Documents
    /\ N \in Nat /\ Limit \in Nat \ {0}
    /\ Attached \in [Uid -> Documents \cup {NoDocument}]
    /\ DOMAIN Number = Documents /\ Pdf \subseteq Documents

\* id counts the rows ever created, so it is the order of created_at too;
\* result is what processing made of the document: nothing yet, no invoice
\* identity, fields for a manual review, or the provider's answer; dup is
\* duplicate_of; kept says that the mail filters have let it pass.
Row == [id : Nat, result : {"raw", "blank", "review", "verified"},
        dup : Documents \cup {NoDocument}, kept : BOOLEAN]

NoRow == [result |-> "absent"]

VARIABLES
    arrived,  \* messages in the mailbox
    lastUid,  \* mailboxes.last_uid
    records,  \* the UIDs in processed_emails
    row,      \* the invoices table, by document
    created,  \* rows ever created
    sync,     \* the local state of each thread
    box,      \* the mailbox: "on", "off" (not enabled) or "gone" (deleted)
    later,    \* the mailbox the scan takes next has new mail
    proved,   \* history: numbers the provider has confirmed
    faults    \* history: what got in the way so far

vars == <<arrived, lastUid, records, row, created, sync, box, later, proved, faults>>

\* The local variables of a sync: mine is the row it created for the document
\* in hand, old the original that document replaces.
Idle == [pc |-> "idle", from |-> 0, max |-> 0, queue |-> {}, uid |-> 0,
         mine |-> 0, old |-> 0]

\* What may come between; "later" is mail for the other mailbox.
Troubles == {"crash", "connect", "fetch", "import", "delete", "pause", "drop", "later"}

PC == {"idle", "search", "next", "ingest", "process", "filter", "replace", "record", "later"}

TypeOK ==
    /\ arrived \in 0..N /\ lastUid \in 0..N
    /\ records \subseteq Uid
    /\ row \in [Documents -> Row \cup {NoRow}]
    /\ created \in Nat
    /\ sync \in [Syncs -> [pc : PC, from : 0..N, max : 0..N, queue : SUBSET Uid,
                           uid : 0..N, mine : 0..created, old : 0..created]]
    /\ proved \subseteq {Number[d] : d \in Documents}
    /\ box \in {"on", "off", "gone"} /\ later \in BOOLEAN
    /\ faults \subseteq Troubles \cup {"overflow", "overlap"}

Init ==
    /\ arrived = 0 /\ lastUid = 0 /\ records = {}
    /\ row = [d \in Documents |-> NoRow]
    /\ created = 0
    /\ sync = [s \in Syncs |-> Idle]
    /\ box = "on" /\ later = FALSE
    /\ proved = {} /\ faults = {}

-----------------------------------------------------------------------------

Present == {d \in Documents : row[d] # NoRow}
Doc(s) == Attached[sync[s].uid]

At(s, label) == sync[s].pc = label
Goto(s, label) == sync' = [sync EXCEPT ![s].pc = label]
\* Done with the document: what is left of it in the locals is not read again.
ToRecord(s) == sync' = [sync EXCEPT ![s] = [@ EXCEPT !.pc = "record", !.mine = 0,
                                                     !.old = 0]]
Stop(s) == sync' = [sync EXCEPT ![s] = Idle]
\* The end of a sync whose session lives: the scan takes the next mailbox.
GoOn(s) ==
    IF s = Scheduler /\ later THEN sync' = [sync EXCEPT ![s] = [Idle EXCEPT !.pc = "later"]]
    ELSE Stop(s)
Mark(fault) == faults' = faults \cup {fault}
Spent == arrived + Cardinality(faults \cap Troubles)
CanHappen(trouble) ==
    trouble \notin faults /\ Spent < Budget

Ledger == <<row, created>>
Mail == <<arrived, lastUid, records, box, later>>
History == <<proved, faults>>

\* The table after deleting d and releasing its duplicates.
Without(d) ==
    [e \in Documents |-> IF e = d THEN NoRow
                         ELSE IF e \in Present /\ row[e].dup = d
                              THEN [row[e] EXCEPT !.dup = NoDocument]
                         ELSE row[e]]
\* The document in hand and its row, unless that has been deleted.
InTable(s) == Doc(s) \in Present /\ row[Doc(s)].id = sync[s].mine

(***************************************************************************)
(* sync_mailbox                                                            *)
(***************************************************************************)

\* The thread has loaded the mailbox and connects.
Start(s) ==
    /\ At(s, "idle")
    /\ sync' = [sync EXCEPT ![s] = [Idle EXCEPT !.pc = "search", !.from = lastUid,
                                                !.max = lastUid]]
    /\ IF \E t \in Syncs : ~At(t, "idle") THEN Mark("overlap") ELSE UNCHANGED faults
    /\ UNCHANGED <<Mail, Ledger, proved>>

\* "UID n:*" always matches the last message; the newest Limit are taken, in the
\* order of their UIDs.
Newest(S) == {u \in S : Cardinality({v \in S : v > u}) < Limit}

Found(s) == {u \in 1..arrived : u > sync[s].from \/ u = arrived}

Search(s) ==
    /\ At(s, "search")
    /\ sync' = [sync EXCEPT ![s].pc = "next", ![s].queue = Newest(Found(s))]
    /\ IF Cardinality(Found(s)) > Limit THEN Mark("overflow") ELSE UNCHANGED faults
    /\ UNCHANGED <<Mail, Ledger, proved>>

Upcoming(s) == Min(sync[s].queue)

Advance(s, label) ==
    LET u == Upcoming(s) IN
    sync' = [sync EXCEPT ![s].pc = label, ![s].queue = sync[s].queue \ {u},
                         ![s].uid = IF label = "next" THEN 0 ELSE u,
                         ![s].max = IF u > sync[s].max THEN u ELSE sync[s].max]

Skip(s) ==
    /\ At(s, "next") /\ sync[s].queue # {}
    /\ Upcoming(s) \in records
    /\ Advance(s, "next")
    /\ UNCHANGED <<Mail, Ledger, History>>

\* The message to be fetched.
NextIsNew(s) ==
    At(s, "next") /\ sync[s].queue # {} /\ Upcoming(s) \notin records

\* No connection, no answer, or the connection breaks at a fetch: the sync ends,
\* its session does not.
ConnectFails(s) ==
    /\ CanHappen("connect")
    /\ At(s, "search") \/ (NextIsNew(s) /\ box # "gone")
    /\ GoOn(s)
    /\ Mark("connect")
    /\ UNCHANGED <<Mail, Ledger, proved>>

Fetch(s) ==
    /\ NextIsNew(s)
    /\ Advance(s, "ingest")
    /\ UNCHANGED <<Mail, Ledger, History>>

\* The message is counted as failed; the cursor passes it all the same.
FetchFails(s) ==
    /\ CanHappen("fetch")
    /\ NextIsNew(s)
    /\ Advance(s, "next")
    /\ Mark("fetch")
    /\ UNCHANGED <<Mail, Ledger, proved>>

\* A new document is processed; one already stored, and a message without
\* any, are not.
Ingest(s) ==
    /\ At(s, "ingest")
    /\ IF Doc(s) \in Documents \ Present
       THEN /\ row' = [row EXCEPT ![Doc(s)] =
                          [id |-> created + 1, result |-> "raw",
                           dup |-> NoDocument, kept |-> FALSE]]
            /\ created' = created + 1
            /\ sync' = [sync EXCEPT ![s].pc = "process", ![s].mine = created + 1]
       ELSE /\ ToRecord(s)
            /\ UNCHANGED <<row, created>>
    /\ UNCHANGED <<Mail, History>>

\* A limit or an invalid file: the message is recorded as failed.
IngestRefused(s) ==
    /\ At(s, "ingest") /\ Doc(s) \in Documents \ Present
    /\ ToRecord(s)
    /\ UNCHANGED <<Mail, Ledger, History>>

\* Rows that show the number of d: of those process_invoice takes the oldest.
Twins(d) == {e \in Present \ {d} : /\ Number[e] = Number[d]
                                   /\ row[e].result \in {"review", "verified"}}

Original(d) ==
    IF Twins(d) = {} THEN NoDocument
    ELSE CHOOSE e \in Twins(d) : \A f \in Twins(d) : row[e].id <= row[f].id

Process(s) ==
    /\ At(s, "process")
    /\ IF InTable(s)
       THEN \E r \in {"blank", "review", "verified"} :
              /\ row' = [row EXCEPT ![Doc(s)] =
                           [@ EXCEPT !.result = r,
                                     !.dup = IF r = "blank" THEN NoDocument
                                             ELSE Original(Doc(s))]]
              /\ proved' = IF r = "verified" THEN proved \cup {Number[Doc(s)]}
                           ELSE proved
       ELSE UNCHANGED <<row, proved>>
    /\ Goto(s, "filter")
    /\ UNCHANGED <<Mail, created, faults>>

(***************************************************************************)
(* The filters of an imported document.                                    *)
(***************************************************************************)

\* Mutant: a duplicate is let pass like an original.
KeepDuplicate(s) ==
    LET d == Doc(s) IN
    /\ At(s, "filter") /\ InTable(s)
    /\ row[d].result = "verified"
    /\ row' = [row EXCEPT ![d].kept = TRUE]
    /\ ToRecord(s)
    /\ UNCHANGED <<Mail, created, History>>

Keep(s) ==
    LET d == Doc(s) IN
    /\ At(s, "filter") /\ InTable(s)
    /\ row[d].result = "verified" /\ row[d].dup = NoDocument
    /\ row' = [row EXCEPT ![d].kept = TRUE]
    /\ ToRecord(s)
    /\ UNCHANGED <<Mail, created, History>>

\* _discard_non_invoice, _discard_not_cloud_verified, and the two cases of
\* _dedupe_keep_pdf that drop the newcomer.
Filtered(d) ==
    \/ row[d].result \in {"raw", "blank"}
    \/ row[d].result = "review" /\ row[d].dup = NoDocument
    \/ row[d].dup # NoDocument /\ (d \notin Pdf \/ row[d].dup \in Pdf)

\* Mutant: what fails the filter is left alone.
LeaveFiltered(s) ==
    /\ At(s, "filter") /\ InTable(s)
    /\ Filtered(Doc(s))
    /\ ToRecord(s)
    /\ UNCHANGED <<Mail, Ledger, History>>

DiscardFiltered(s) ==
    /\ At(s, "filter") /\ InTable(s)
    /\ Filtered(Doc(s))
    /\ row' = Without(Doc(s))
    /\ ToRecord(s)
    /\ UNCHANGED <<Mail, created, History>>

\* A PDF replaces the original it duplicates: it is released first, because
\* the foreign key is enforced at once, then the original is removed.
Release(s) ==
    LET d == Doc(s) IN
    /\ At(s, "filter") /\ InTable(s) /\ d \in Pdf
    /\ row[d].result \in {"review", "verified"}
    /\ row[d].dup \in Documents \ Pdf
    /\ row' = [row EXCEPT ![d] = [@ EXCEPT !.dup = NoDocument, !.kept = TRUE]]
    /\ sync' = [sync EXCEPT ![s].pc = "replace", ![s].old = row[row[d].dup].id]
    /\ UNCHANGED <<Mail, created, History>>

\* Mutant: the search for the original forgets to leave the newcomer out.
ReplaceAllTwins(s) ==
    /\ At(s, "replace")
    /\ row' = [d \in Documents |-> IF Number[d] = Number[Doc(s)] THEN NoRow ELSE row[d]]
    /\ ToRecord(s)
    /\ UNCHANGED <<Mail, created, History>>

\* Deleting a row that is gone already only warns.
Replace(s) ==
    /\ At(s, "replace")
    /\ row' = IF \E d \in Present : row[d].id = sync[s].old
              THEN Without(CHOOSE d \in Present : row[d].id = sync[s].old)
              ELSE row
    /\ ToRecord(s)
    /\ UNCHANGED <<Mail, created, History>>

\* The user deleted the document meanwhile: it counts as imported.
FilterGone(s) ==
    /\ At(s, "filter") /\ ~InTable(s)
    /\ ToRecord(s)
    /\ UNCHANGED <<Mail, Ledger, History>>

\* Mutant: the sync that dies saves its cursor.
FilterStaleSaves(s) ==
    /\ At(s, "filter") /\ ~InTable(s)
    /\ Stop(s)
    /\ lastUid' = sync[s].max
    /\ UNCHANGED <<arrived, records, box, later, Ledger, History>>

\* The document went between the read and the update of the filter: the
\* session is dead and the sync ends with an exception.
FilterStale(s) ==
    /\ At(s, "filter") /\ ~InTable(s)
    /\ Stop(s)
    /\ UNCHANGED <<Mail, Ledger, History>>

\* process_invoice, a filter or the removal of the original raises: the message
\* is recorded as failed, and the document stays as it was last committed.
ImportFails(s) ==
    /\ CanHappen("import")
    /\ sync[s].pc \in {"process", "filter", "replace"}
    /\ ToRecord(s)
    /\ Mark("import")
    /\ UNCHANGED <<Mail, Ledger, proved>>

(***************************************************************************)
(* The record and the cursor.                                              *)
(***************************************************************************)

Record(s) ==
    /\ At(s, "record") /\ box # "gone"
    /\ sync[s].uid \notin records
    /\ records' = records \cup {sync[s].uid}
    /\ sync' = [sync EXCEPT ![s].pc = "next", ![s].uid = 0]
    /\ UNCHANGED <<arrived, lastUid, box, later, Ledger, History>>

\* Mutant: the collision is not noticed and the sync hangs.
RecordHangs(s) ==
    /\ At(s, "record")
    /\ sync[s].uid \in records
    /\ UNCHANGED vars

\* uq_mailbox_uid: another sync recorded the message first; or the mailbox is
\* gone.  The flush fails, the error handler too, and with them the session and
\* the scan; the cursor stays.
RecordCollides(s) ==
    /\ At(s, "record")
    /\ sync[s].uid \in records \/ box = "gone"
    /\ Stop(s)
    /\ UNCHANGED <<Mail, Ledger, History>>

\* Mutant: the next UID is saved for the last one.
FinishPast(s) ==
    /\ At(s, "next") /\ sync[s].queue = {}
    /\ lastUid' = sync[s].max + 1
    /\ Stop(s)
    /\ UNCHANGED <<arrived, records, box, later, Ledger, History>>

\* The cursor is written when it differs from the one that was read; another
\* sync may have written it since.
Finish(s) ==
    /\ At(s, "next") /\ sync[s].queue = {} /\ box # "gone"
    /\ lastUid' = IF sync[s].max = sync[s].from THEN lastUid ELSE sync[s].max
    /\ GoOn(s)
    /\ UNCHANGED <<arrived, records, box, later, Ledger, History>>

\* The mailbox is reloaded or updated and has no row: the session is dead.
MailboxGone(s) ==
    /\ At(s, "next") /\ box = "gone"
    /\ Stop(s)
    /\ UNCHANGED <<Mail, Ledger, History>>

(***************************************************************************)
(* The world around it.                                                    *)
(***************************************************************************)

Deliver ==
    /\ arrived < N /\ Spent < Budget
    /\ arrived' = arrived + 1
    /\ UNCHANGED <<lastUid, records, box, later, Ledger, sync, History>>

DeliverLater ==
    /\ CanHappen("later") /\ Mark("later")
    /\ later' = TRUE
    /\ UNCHANGED <<arrived, lastUid, records, box, Ledger, sync, proved>>

UserDelete(d) ==
    /\ CanHappen("delete")
    /\ d \in Present
    /\ row' = Without(d)
    /\ Mark("delete")
    /\ UNCHANGED <<Mail, created, sync, proved>>

\* mailbox_toggle
Toggle ==
    \/ /\ box = "on" /\ CanHappen("pause") /\ Mark("pause")
       /\ box' = "off"
       /\ UNCHANGED <<arrived, lastUid, records, later, Ledger, sync, proved>>
    \/ /\ box = "off"
       /\ box' = "on"
       /\ UNCHANGED <<arrived, lastUid, records, later, Ledger, sync, History>>

\* mailbox_delete: its records go with it.
Drop ==
    /\ box # "gone" /\ CanHappen("drop") /\ Mark("drop")
    /\ box' = "gone" /\ records' = {} /\ lastUid' = 0
    /\ UNCHANGED <<arrived, later, Ledger, sync, proved>>

Crash ==
    /\ CanHappen("crash")
    /\ Mark("crash")
    /\ sync' = [s \in Syncs |-> Idle]
    /\ UNCHANGED <<Mail, Ledger, proved>>

-----------------------------------------------------------------------------

\* The rest of scan_all_mailboxes: one mailbox, in one step.
CollectLater(s) ==
    /\ At(s, "later")
    /\ later' = FALSE
    /\ Stop(s)
    /\ UNCHANGED <<arrived, lastUid, records, box, Ledger, History>>

\* scan_all_mailboxes takes the enabled mailboxes.
Scan ==
    \/ box = "on" /\ Start(Scheduler)
    \/ /\ box # "on" /\ At(Scheduler, "idle") /\ later
       /\ GoOn(Scheduler)
       /\ UNCHANGED <<Mail, Ledger, History>>

\* "Collect now" of the page works on a paused mailbox too.
CollectNow(s) == box # "gone" /\ Start(s)

Step(s) ==
    \/ ConnectFails(s) \/ Search(s) \/ Skip(s) \/ Fetch(s) \/ FetchFails(s)
    \/ Ingest(s) \/ IngestRefused(s) \/ Process(s)
    \/ Keep(s) \/ DiscardFiltered(s) \/ Release(s) \/ Replace(s)
    \/ FilterGone(s) \/ FilterStale(s) \/ ImportFails(s)
    \/ Record(s) \/ RecordCollides(s) \/ Finish(s) \/ MailboxGone(s) \/ CollectLater(s)

Next ==
    \/ Scan
    \/ \E s \in Syncs \ {Scheduler} : CollectNow(s)
    \/ \E s \in Syncs : Step(s)
    \/ Deliver \/ DeliverLater
    \/ \E d \in Documents : UserDelete(d)
    \/ Toggle \/ Drop \/ Crash

Spec == Init /\ [][Next]_vars

\* APScheduler starts a scan again and again, and every network call of a
\* sync has a timeout.
Fairness ==
    /\ WF_vars(Scan)
    /\ \A s \in Syncs : WF_vars(Step(s))

FairSpec == Spec /\ Fairness

-----------------------------------------------------------------------------

\* The cursor does not pass a message that was never recorded, whatever the
\* overlap of syncs, crashes and deletions: only a failed fetch and a search
\* that found more than Limit messages lose mail (mail_service.py:366).
CursorCovered ==
    faults \cap {"fetch", "overflow"} = {} => 1..lastUid \subseteq records

\* Who is still at work on a document it has stored.
InHand(d) == \E s \in Syncs : /\ sync[s].pc \in {"process", "filter"}
                              /\ Doc(s) = d /\ InTable(s)

\* Unless the process crashed or an import ended with an exception
\* (mail_service.py:360), every stored document has passed the filters or is on
\* its way to them (README.md:78).
NothingUnfiltered ==
    faults \cap {"crash", "import"} = {} => \A d \in Present : row[d].kept \/ InHand(d)

\* "The same invoice keeps one PDF only" (README.md:80): of the documents
\* that passed the filters, no two show one number, unless one of them is
\* about to be replaced.  A crash, an import that ends with an exception, and
\* two syncs at work on three copies can leave two (README.md of this project,
\* known limits).
OneCopy ==
    faults \cap {"crash", "import", "overlap"} = {} => \A d, e \in Present :
        /\ row[d].kept /\ row[e].kept /\ Number[d] = Number[e] /\ d # e
        => \E s \in Syncs : At(s, "replace") /\ Doc(s) \in {d, e}

\* The filters of one sync at a time never drop the last copy of an invoice
\* the provider has confirmed, whatever the order in which its copies arrive
\* (mail_service.py:203).
ConfirmedSurvives ==
    faults \cap {"overlap", "delete"} = {} =>
        \A n \in proved : \E d \in Present : Number[d] = n

\* Every message of an enabled mailbox is recorded in the end, or a fetch failed
\* or a search overflowed, and the scan gets to the mailbox behind it.  Syncs
\* that overlap, a crash, a lost connection, a pause, and a mailbox deleted under
\* its own sync (each may kill the session both share) only delay it.  As
\* messages end at N, this is to be true again and again.
Collected ==
    []<>/\ 1..arrived \subseteq records \/ faults \cap {"fetch", "overflow"} # {} \/ box # "on"
        /\ ~later
=============================================================================
