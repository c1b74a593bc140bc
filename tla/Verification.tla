---------------------------- MODULE Verification ----------------------------
(***************************************************************************)
(* One run of _process_invoice (app/services/verifier.py) seen as a sequence *)
(* of evidence: the day's cache of tax answers, the two tax providers, OCR   *)
(* and the LLM, each behind a daily counter of quota_service.py.  Every      *)
(* reservation commits by itself and every outside call takes its time, so   *)
(* runs of other invoices, midnight and a crash come in between.             *)
(*                                                                         *)
(* Two runs of one invoice and the duplicate search at the end of a run are  *)
(* InvoiceLedger's subject: here each invoice has one run at a time, and a   *)
(* status is what the evidence alone makes it.                               *)
(***************************************************************************)
EXTENDS Naturals, FiniteSets, FiniteSetsExt

CONSTANTS
    Tasks,      \* threads inside _process_invoice
    Docs,       \* invoices
    Owners, NoOwner,
    Owner,      \* Owner[d]: owner_id, NoOwner for a legacy row
    Key,        \* Key[d]: code, number, date and amount printed on d
    NoKey,      \* a row or an OCR result without a complete fingerprint
    Days,       \* 1..n, the calendar days of a behaviour (a bound)
    Limit,      \* Limit[r]: the daily limit of resource r
    Configs,    \* what get_integrations may return
    MaxRuns,    \* runs of a behaviour (a bound)
    MaxEvents   \* midnight, crash and save: each once, and so many (a bound)

Resources == {"tax", "ocr", "llm"}
Providers == <<"piaozone", "kingdee">>
Keys == {Key[d] : d \in Docs}

\* provider: the sets of providers whose configuration is complete while
\* verify_provider is on; llm: verify_llm is on, ready: an LLM is configured.
Config == [providers : SUBSET {"piaozone", "kingdee"}, ocr : BOOLEAN,
           llm : BOOLEAN, ready : BOOLEAN]

None == "none"

ASSUME VerificationAssumption ==
    /\ None \notin Docs
    /\ NoOwner \notin Owners /\ Owner \in [Docs -> Owners \cup {NoOwner}]
    /\ DOMAIN Key = Docs /\ NoKey \notin Keys
    /\ Limit \in [Resources -> Nat \ {0}]
    /\ Configs \subseteq Config
    /\ 1 \in Days /\ Days \subseteq Nat
    /\ IsFiniteSet(Tasks)

\* answer is the document whose answer kingdee_data holds.
Row == [status : {"pending", "processing", "verified", "consistent", "review",
                  "reviewed", "failed"},
        method : {"", "piaozone", "kingdee", "dual", "ocr", "llm"},
        key : Keys \cup {NoKey}, answer : Docs \cup {None}]

NewRow == [status |-> "pending", method |-> "", key |-> NoKey, answer |-> None]

VARIABLES
    row,     \* the invoices table
    cache,   \* verification_caches: [owner, key, day, method, answer]
    count,   \* tax_verification_usage and resource_usage
    run,     \* run[t]: the locals of _process_invoice
    today,
    runs,    \* history: runs started, by owner (NoOwner for legacy rows)
    calls,   \* history: provider calls, by owner and day of reservation
    events   \* history: which of midnight, crash, save have happened

vars == <<row, cache, count, run, today, runs, calls, events>>

\* x is the session's row, cand the fingerprint the cache is asked for; config
\* is read once, and the next run may find other settings (module Settings).
Idle == [pc |-> "idle"]
PC == {"identify", "lookup", "piaozone", "kingdee", "extract", "llm",
       "callPiaozone", "callKingdee", "callLlm"}
Run == [pc : PC, doc : Docs, x : Row, cand : Keys \cup {NoKey}, extracted : BOOLEAN,
        day : Days, config : Configs]

\* What the final commit still reads; store: a provider answered in this run.
Closing == [pc : {"finish"}, doc : Docs, x : Row, store : BOOLEAN]
Close(t, x, store) ==
    run' = [run EXCEPT ![t] = [pc |-> "finish", doc |-> @.doc, x |-> x, store |-> store]]

TypeOK ==
    /\ row \in [Docs -> Row]
    /\ cache \subseteq [owner : Owners, key : Keys, day : Days,
                        method : {"piaozone", "kingdee"}, answer : Docs]
    /\ count \in [Owners \X Resources \X Days -> Nat]
    /\ \A o \in Owners, r \in Resources, d \in Days : count[<<o, r, d>>] <= Limit[r]
    /\ run \in [Tasks -> Run \cup Closing \cup {Idle}]
    /\ today \in Days
    /\ runs \in [Owners \cup {NoOwner} -> Nat] /\ calls \in [Owners \X Days -> Nat]
    /\ events \subseteq {"midnight", "crash", "save"}

Init ==
    /\ row = [d \in Docs |-> NewRow]
    /\ cache = {}
    /\ count = [c \in Owners \X Resources \X Days |-> 0]
    /\ run = [t \in Tasks |-> Idle]
    /\ today = 1
    /\ runs = [o \in Owners \cup {NoOwner} |-> 0]
    /\ calls = [od \in Owners \X Days |-> 0]
    /\ events = {}

-----------------------------------------------------------------------------

Doc(t) == run[t].doc
User(t) == Owner[Doc(t)]
At(t, label) == run[t].pc = label
Goto(t, label) == run' = [run EXCEPT ![t].pc = label]

\* reserve_tax_verification and reserve_resource_usage; rows without an owner
\* are not counted.

\* Mutant: the limit itself still passes.
AllowedAtLimit(t, r) == User(t) # NoOwner => count[<<User(t), r, today>>] <= Limit[r]

Allowed(t, r) == User(t) # NoOwner => count[<<User(t), r, today>>] < Limit[r]
Charge(t, r) ==
    count' = IF User(t) = NoOwner THEN count
             ELSE [count EXCEPT ![<<User(t), r, today>>] = @ + 1]

\* Where the run goes when the cache and the first n providers gave nothing.
AfterProviders(t, n) ==
    LET left == {m \in 1..2 : m > n /\ Providers[m] \in run[t].config.providers} IN
    IF left = {} THEN "extract"
    ELSE Providers[CHOOSE m \in left : \A k \in left : m <= k]

Running(d) == \E t \in Tasks : ~At(t, "idle") /\ Doc(t) = d

Begin(t, d) ==
    /\ At(t, "idle")
    /\ ~Running(d)
    /\ MapThenSumSet(LAMBDA o : runs[o], DOMAIN runs) < MaxRuns
    /\ \E config \in Configs : LET x == [row[d] EXCEPT !.status = "processing"] IN
          /\ row' = [row EXCEPT ![d] = x]
          /\ run' = [run EXCEPT ![t] =
                [pc |-> IF config.providers = {} THEN "extract" ELSE "identify",
                 doc |-> d, x |-> x, cand |-> x.key, extracted |-> FALSE,
                 day |-> today, config |-> config]]
    /\ runs' = [runs EXCEPT ![Owner[d]] = @ + 1]
    /\ UNCHANGED <<cache, count, today, calls, events>>

\* The row's own fields make a fingerprint, or OCR is off, or its quota is used
\* up: the cache is asked for what the row has.
IdentifyByRow(t) ==
    /\ At(t, "identify")
    /\ \/ run[t].cand # NoKey /\ User(t) # NoOwner
       \/ ~run[t].config.ocr
       \/ ~Allowed(t, "ocr")
    /\ Goto(t, "lookup")
    /\ UNCHANGED <<row, cache, count, today, runs, calls, events>>

\* Otherwise the document is read first; what the row has goes before what is
\* read, and a failed reading leaves the row's.  OCR is taken to read the
\* fingerprint rightly or not at all.
IdentifyByOcr(t) ==
    /\ At(t, "identify")
    /\ run[t].cand = NoKey \/ User(t) = NoOwner
    /\ run[t].config.ocr /\ Allowed(t, "ocr")
    /\ Charge(t, "ocr")
    /\ \E read \in {Key[Doc(t)], NoKey} :
          run' = [run EXCEPT ![t].pc = "lookup", ![t].extracted = TRUE,
                             ![t].cand = IF @ = NoKey THEN read ELSE @]
    /\ UNCHANGED <<row, cache, today, runs, calls, events>>

\* Mutant: the owner is left out of the query.
MatchesAnyOwner(e, t) == e.key = run[t].cand /\ e.day = today

Matches(e, t) == e.owner = User(t) /\ e.key = run[t].cand /\ e.day = today

CacheHit(t) ==
    /\ At(t, "lookup")
    /\ \E e \in cache :
          /\ Matches(e, t)
          /\ Close(t, [run[t].x EXCEPT !.status = "verified", !.method = e.method,
                                       !.key = e.key, !.answer = e.answer], FALSE)
    /\ UNCHANGED <<row, cache, count, today, runs, calls, events>>

CacheMiss(t) ==
    /\ At(t, "lookup")
    /\ ~\E e \in cache : Matches(e, t)
    /\ run' = [run EXCEPT ![t].pc = AfterProviders(t, 0), ![t].cand = NoKey]
    /\ UNCHANGED <<row, cache, count, today, runs, calls, events>>

(***************************************************************************)
(* The tax providers, n = 1 before n = 2.                                  *)
(***************************************************************************)

Calling == <<"callPiaozone", "callKingdee">>

ReserveCall(t, n) ==
    /\ At(t, Providers[n])
    /\ Allowed(t, "tax")
    /\ Charge(t, "tax")
    /\ run' = [run EXCEPT ![t].pc = Calling[n], ![t].day = today]
    /\ UNCHANGED <<row, cache, today, runs, calls, events>>

\* An exhausted quota skips the other provider too.
RefuseCall(t, n) ==
    /\ At(t, Providers[n])
    /\ ~Allowed(t, "tax")
    /\ Goto(t, "extract")
    /\ UNCHANGED <<row, cache, count, today, runs, calls, events>>

Called(t) ==
    calls' = IF User(t) = NoOwner THEN calls
             ELSE [calls EXCEPT ![<<User(t), run[t].day>>] = @ + 1]

\* The fingerprint an answer leaves in the row: the printed one, or none, for an
\* answer without a date blanks the row's.
AnswerKeys(t) == {Key[Doc(t)], NoKey}

CallSucceeds(t, n) ==
    /\ At(t, Calling[n])
    /\ \E k \in AnswerKeys(t) :
          Close(t, [run[t].x EXCEPT !.status = "verified", !.key = k,
                                    !.method = Providers[n], !.answer = Doc(t)], TRUE)
    /\ Called(t)
    /\ UNCHANGED <<row, cache, count, today, runs, events>>

\* Mutant: the failed call is given back.
CallFailsFree(t, n) ==
    /\ At(t, Calling[n])
    /\ Called(t)
    /\ count' = IF User(t) = NoOwner THEN count
                ELSE [count EXCEPT ![<<User(t), "tax", run[t].day>>] = @ - 1]
    /\ Goto(t, AfterProviders(t, n))
    /\ UNCHANGED <<row, cache, today, runs, events>>

CallFails(t, n) ==
    /\ At(t, Calling[n])
    /\ Called(t)
    /\ Goto(t, AfterProviders(t, n))
    /\ UNCHANGED <<row, cache, count, today, runs, events>>

(***************************************************************************)
(* The local fallback.                                                     *)
(***************************************************************************)

Conclude(t, status, method, key) ==
    Close(t, [run[t].x EXCEPT !.status = status, !.method = method, !.key = key], FALSE)

\* The fingerprint the fields found in the text leave in the row: a number that
\* is not found is applied as an empty one.
FoundKeys(t) == {Key[Doc(t)], NoKey}

\* What compare_sources may conclude from OCR and LLM.
Compared == {"consistent", "review"}

\* Neither OCR nor LLM is allowed, or the extraction quota is used up.
NoFallback(t) ==
    /\ At(t, "extract")
    /\ \/ ~run[t].config.ocr /\ ~run[t].config.llm
       \/ ~run[t].extracted /\ ~Allowed(t, "ocr")
    /\ Conclude(t, "review", "", run[t].x.key)
    /\ UNCHANGED <<row, cache, count, today, runs, calls, events>>

\* Mutant: an extraction done for the cache is charged again.
ChargeExtractionAgain(t) == Allowed(t, "ocr") /\ Charge(t, "ocr")

ChargeExtraction(t) ==
    IF run[t].extracted THEN UNCHANGED count ELSE Allowed(t, "ocr") /\ Charge(t, "ocr")

Extract(t) ==
    /\ At(t, "extract")
    /\ run[t].config.ocr \/ run[t].config.llm
    /\ ChargeExtraction(t)
    /\ IF run[t].config.llm /\ run[t].config.ready
       THEN run' = [run EXCEPT ![t].pc = "llm", ![t].extracted = TRUE]
       ELSE IF run[t].config.ocr
       THEN \E k \in FoundKeys(t) : Conclude(t, "review", "ocr", k)
       ELSE Conclude(t, "review", "", run[t].x.key)
    /\ UNCHANGED <<row, cache, today, runs, calls, events>>

\* Without OCR the method stays what it was.
RefuseLlm(t) ==
    /\ At(t, "llm")
    /\ ~Allowed(t, "llm")
    /\ IF run[t].config.ocr THEN \E k \in FoundKeys(t) : Conclude(t, "review", "ocr", k)
       ELSE Conclude(t, "review", run[t].x.method, run[t].x.key)
    /\ UNCHANGED <<row, cache, count, today, runs, calls, events>>

ReserveLlm(t) ==
    /\ At(t, "llm")
    /\ Allowed(t, "llm")
    /\ Charge(t, "llm")
    /\ Goto(t, "callLlm")
    /\ UNCHANGED <<row, cache, today, runs, calls, events>>

LlmAnswers(t) ==
    /\ At(t, "callLlm")
    /\ \E k \in FoundKeys(t) :
          IF run[t].config.ocr
          THEN \E status \in Compared : Conclude(t, status, "dual", k)
          ELSE Conclude(t, "review", "llm", k)
    /\ UNCHANGED <<row, cache, count, today, runs, calls, events>>

LlmFails(t) ==
    /\ At(t, "callLlm")
    /\ IF run[t].config.ocr THEN \E k \in FoundKeys(t) : Conclude(t, "review", "ocr", k)
       ELSE Conclude(t, "review", "", run[t].x.key)
    /\ UNCHANGED <<row, cache, count, today, runs, calls, events>>

(***************************************************************************)
(* The final commit: the row, and the day's cache when a provider answered.  *)
(***************************************************************************)

\* Mutant: the key is taken from before the answer.
EntryUnderOldKey(t) ==
    [owner |-> User(t), key |-> row[Doc(t)].key, day |-> today,
     method |-> run[t].x.method, answer |-> run[t].x.answer]

Entry(t) == [owner |-> User(t), key |-> run[t].x.key, day |-> today,
             method |-> run[t].x.method, answer |-> run[t].x.answer]

SameEntry(e, f) == e.owner = f.owner /\ e.key = f.key /\ e.day = f.day

\* _save_verification_cache: the cache once the commit has written it.
Stored(t) ==
    IF run[t].store /\ User(t) # NoOwner /\ Entry(t).key # NoKey
    THEN {e \in cache : ~SameEntry(e, Entry(t))} \cup {Entry(t)}
    ELSE cache

Finish(t) ==
    /\ At(t, "finish")
    /\ row' = [row EXCEPT ![Doc(t)] = run[t].x]
    /\ cache' = Stored(t)
    /\ run' = [run EXCEPT ![t] = Idle]
    /\ UNCHANGED <<count, today, runs, calls, events>>

\* The handler of everything outside the guarded calls: its commit writes the
\* cache entry of a provider's answer too.
Fail(t) ==
    /\ row' = [row EXCEPT ![Doc(t)] = [run[t].x EXCEPT !.status = "failed"]]
    /\ run' = [run EXCEPT ![t] = Idle]

\* The document cannot be read: the extraction is charged all the same.
ExtractFails(t) ==
    /\ At(t, "extract")
    /\ run[t].config.ocr \/ run[t].config.llm
    /\ ChargeExtraction(t)
    /\ Fail(t)
    /\ UNCHANGED <<cache, today, runs, calls, events>>

FinishFails(t) ==
    /\ At(t, "finish")
    /\ Fail(t)
    /\ cache' = Stored(t)
    /\ UNCHANGED <<count, today, runs, calls, events>>

\* An error that reaches the handler when the handler cannot commit either, the
\* database being locked or full: the row keeps what was committed last.  The
\* outside calls catch what goes wrong in them.
Abandon(t) ==
    /\ run[t].pc \notin {"idle", "callPiaozone", "callKingdee", "callLlm"}
    /\ run' = [run EXCEPT ![t] = Idle]
    /\ UNCHANGED <<row, cache, count, today, runs, calls, events>>

(***************************************************************************)
(* The world around it.                                                    *)
(***************************************************************************)

Once(event) ==
    /\ event \notin events /\ Cardinality(events) < MaxEvents
    /\ events' = events \cup {event}

\* save_invoice: the fields of a provider's answer are read-only, the status
\* is not.
Save(d, k) ==
    /\ ~Running(d)
    /\ row' = [row EXCEPT ![d] = [@ EXCEPT !.status = "reviewed",
                  !.key = IF row[d].method \in {"piaozone", "kingdee"} THEN row[d].key ELSE k]]
    /\ Once("save")
    /\ UNCHANGED <<cache, count, run, today, runs, calls>>

Midnight ==
    /\ today + 1 \in Days
    /\ today' = today + 1
    /\ Once("midnight")
    /\ UNCHANGED <<row, cache, count, run, runs, calls>>

Crash ==
    /\ Once("crash")
    /\ run' = [t \in Tasks |-> Idle]
    /\ UNCHANGED <<row, cache, count, today, runs, calls>>

-----------------------------------------------------------------------------

Step(t) ==
    \/ IdentifyByRow(t) \/ IdentifyByOcr(t) \/ CacheHit(t) \/ CacheMiss(t)
    \/ \E n \in 1..2 : \/ ReserveCall(t, n) \/ RefuseCall(t, n)
                       \/ CallSucceeds(t, n) \/ CallFails(t, n)
    \/ NoFallback(t) \/ Extract(t)
    \/ RefuseLlm(t) \/ ReserveLlm(t) \/ LlmAnswers(t) \/ LlmFails(t)
    \/ Finish(t) \/ ExtractFails(t) \/ FinishFails(t) \/ Abandon(t)

Next ==
    \/ \E t \in Tasks, d \in Docs : Begin(t, d)
    \/ \E t \in Tasks : Step(t)
    \/ \E d \in Docs, k \in Keys \cup {NoKey} : Save(d, k)
    \/ Midnight \/ Crash

Spec == Init /\ [][Next]_vars

-----------------------------------------------------------------------------

\* The runs that have reserved a provider call of o on day d and wait for it.
Reserved(o, d) ==
    {t \in Tasks : /\ At(t, "callPiaozone") \/ At(t, "callKingdee")
                   /\ User(t) = o /\ run[t].day = d}

\* Every provider call, answered or not, is charged to the owner's day once and
\* nothing else is (README.md:116), so the daily limit bounds the calls.
CallsCharged ==
    \A o \in Owners, d \in Days :
        LET known == calls[<<o, d>>] + Cardinality(Reserved(o, d)) IN
        IF "crash" \in events THEN known <= count[<<o, "tax", d>>]
        ELSE known = count[<<o, "tax", d>>]

\* What has been charged to o for extractions, on all days.
Extractions(o) == UNION {{d} \X (1..count[<<o, "ocr", d>>]) : d \in Days}

\* A run extracts, and is charged for it, at most once: for the cache lookup or
\* for the fallback (extraction_reserved, verifier.py:660 and :766).
ExtractionsCharged == \A o \in Owners : Cardinality(Extractions(o)) <= runs[o]

\* What is reserved is what is used.
ChargedExactly == CallsCharged /\ ExtractionsCharged

\* A cache entry holds the answer about an invoice of that owner with exactly
\* that fingerprint (the docstring of VerificationCache, models.py:262).
CacheHoldsItsInvoice ==
    \A e \in cache : Owner[e.answer] = e.owner /\ Key[e.answer] = e.key

\* A verified row carries the tax answer about its own owner's invoice, the
\* one printed on its document: "never another user's or another invoice's
\* data" (models.py:265).
AnswersItsDocument ==
    \A d \in Docs : row[d].status = "verified" =>
        /\ row[d].answer # None
        /\ Owner[row[d].answer] = Owner[d]
        /\ Key[row[d].answer] = Key[d]

AnswersUnsavedDocument == "save" \notin events => AnswersItsDocument
=============================================================================
