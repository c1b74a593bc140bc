------------------------- MODULE VerificationProofs -------------------------
(***************************************************************************)
(* The evidence of a verification for any number of tasks, invoices, owners,  *)
(* days and limits, with midnight, crashes and manual saves at any point.      *)
(***************************************************************************)
EXTENDS Verification, FiniteSetTheorems, TLAPS

-----------------------------------------------------------------------------
(***************************************************************************)
(* What a step does to the run that takes it.                                *)
(***************************************************************************)

CallPC == {"callPiaozone", "callKingdee"}

\* Task t moves, the others stay.
Becomes(t, new) ==
    /\ run' \in [Tasks -> Run \cup Closing \cup {Idle}]
    /\ run'[t] = new
    /\ \A u \in Tasks \ {t} : run'[u] = run[u]

\* An assignment to one run is such a move.
LEMMA Assigned ==
  ASSUME TypeOK, NEW t \in Tasks, NEW new \in Run \cup Closing \cup {Idle},
         run' = [run EXCEPT ![t] = new]
  PROVE  Becomes(t, new)
BY DEF TypeOK, Becomes

\* The label tells which locals a task has.
LEMMA AtWork ==
  ASSUME TypeOK, NEW t \in Tasks
  PROVE  /\ run[t].pc \in PC => run[t] \in Run /\ run[t].doc \in Docs /\ run[t].x \in Row
         /\ run[t].pc = "finish" =>
              /\ run[t] \in Closing /\ run[t].doc \in Docs /\ run[t].x \in Row
              /\ run[t].store \in BOOLEAN
         /\ run[t].pc \in PC \cup {"finish", "idle"}
<1>1. run[t] \in Run \cup Closing \cup {Idle}
  BY DEF TypeOK
<1>2. CASE run[t] \in Run
  BY <1>2 DEF Run, PC
<1>3. CASE run[t] \in Closing
  BY <1>3 DEF Closing, PC
<1>4. CASE run[t] = Idle
  BY <1>4 DEF Idle, PC
<1> QED
  BY <1>1, <1>2, <1>3, <1>4

\* The owner of the invoice a task works on.
LEMMA UserTyped ==
  ASSUME TypeOK, NEW t \in Tasks, run[t].doc \in Docs
  PROVE  User(t) \in Owners \cup {NoOwner} /\ NoOwner \notin Owners
BY VerificationAssumption DEF User, Doc

\* What a task at work keeps when it goes on.
GoesOn(t, new) ==
    /\ new \in Run /\ Becomes(t, new)
    /\ new.doc = run[t].doc /\ new.x = run[t].x
    /\ new.cand \in {run[t].cand, NoKey, Key[run[t].doc]}
    /\ new.pc # "identify" /\ (run[t].extracted => new.extracted)

\* A task at work goes on.
LEMMA GotoMove ==
  ASSUME TypeOK, NEW t \in Tasks, run[t].pc \in PC, NEW label \in PC \ {"identify"},
         Goto(t, label)
  PROVE  \E new : GoesOn(t, new) /\ new.pc = label /\ new.day = run[t].day
<1> DEFINE y == [run[t] EXCEPT !.pc = label]
<1>1. run[t] \in Run
  BY AtWork
<1>2. /\ y \in Run /\ y.pc = label /\ y.doc = run[t].doc /\ y.x = run[t].x
      /\ y.cand = run[t].cand /\ y.day = run[t].day /\ y.extracted = run[t].extracted
  BY <1>1 DEF Run
<1>3. run' = [run EXCEPT ![t] = y]
  BY DEF Goto, TypeOK
<1> HIDE DEF y
<1> QED
  BY <1>2, <1>3, Assigned DEF GoesOn

\* A task at work comes to its final commit.
LEMMA CloseMove ==
  ASSUME TypeOK, NEW t \in Tasks, run[t].pc \in PC, NEW x \in Row, NEW store \in BOOLEAN,
         Close(t, x, store)
  PROVE  \E new \in Closing : /\ Becomes(t, new) /\ new.pc = "finish"
                              /\ new.doc = run[t].doc /\ new.x = x /\ new.store = store
<1> DEFINE y == [pc |-> "finish", doc |-> run[t].doc, x |-> x, store |-> store]
<1>1. run[t].doc \in Docs
  BY AtWork
<1>2. y \in Closing /\ y.pc = "finish" /\ y.doc = run[t].doc /\ y.x = x /\ y.store = store
  BY <1>1 DEF Closing
<1>3. run' = [run EXCEPT ![t] = y]
  BY DEF Close
<1> HIDE DEF y
<1> QED
  BY <1>2, <1>3, Assigned

\* The next provider is one of the two, or there is none.
LEMMA AfterProvidersTyped ==
  ASSUME NEW t, NEW n \in 0..2
  PROVE  AfterProviders(t, n) \in {"extract", "piaozone", "kingdee"}
<1> DEFINE left == {m \in 1..2 : m > n /\ Providers[m] \in run[t].config.providers}
           m == CHOOSE i \in left : \A k \in left : i <= k
<1>1. CASE left = {}
  BY <1>1 DEF AfterProviders
<1>2. CASE left # {}
  <2>1. \E i \in left : \A k \in left : i <= k
    <3>1. CASE 1 \in left
      BY <3>1
    <3>2. CASE 1 \notin left
      <4>1. left = {2}
        BY <1>2, <3>2
      <4> QED
        BY <4>1
    <3> QED
      BY <3>1, <3>2
  <2>2. m \in left /\ left \subseteq 1..2
    BY <2>1
  <2>3. AfterProviders(t, n) = Providers[m]
    BY <1>2 DEF AfterProviders
  <2>4. m \in {1, 2}
    BY <2>2
  <2> HIDE DEF m, left
  <2> QED
    BY <2>3, <2>4 DEF Providers
<1> QED
  BY <1>1, <1>2

\* A new row: what a run begins with.
LEMMA Begins ==
  ASSUME TypeOK, NEW t \in Tasks, NEW d \in Docs, Begin(t, d)
  PROVE  /\ \E new \in Run : /\ Becomes(t, new) /\ new.pc \in {"extract", "identify"}
                             /\ new.doc = d /\ new.x.key = row[d].key /\ new.cand = row[d].key
                             /\ new.x.status = "processing" /\ ~new.extracted
         /\ row' \in [Docs -> Row] /\ \A e \in Docs \ {d} : row'[e] = row[e]
         /\ row'[d].key = row[d].key /\ row'[d].status = "processing"
<1>1. PICK config \in Configs : LET x == [row[d] EXCEPT !.status = "processing"] IN
        /\ row' = [row EXCEPT ![d] = x]
        /\ run' = [run EXCEPT ![t] =
              [pc |-> IF config.providers = {} THEN "extract" ELSE "identify",
               doc |-> d, x |-> x, cand |-> x.key, extracted |-> FALSE,
               day |-> today, config |-> config]]
  BY DEF Begin
<1> DEFINE x == [row[d] EXCEPT !.status = "processing"]
           l == IF config.providers = {} THEN "extract" ELSE "identify"
           y == [pc |-> l, doc |-> d, x |-> x, cand |-> x.key, extracted |-> FALSE,
                 day |-> today, config |-> config]
<1>2. row[d] \in Row /\ today \in Days /\ config \in Config
  BY VerificationAssumption DEF TypeOK
<1>3. x \in Row /\ x.key = row[d].key /\ x.status = "processing" /\ x.key \in Keys \cup {NoKey}
  BY <1>2 DEF Row
<1>4. row' = [row EXCEPT ![d] = x] /\ run' = [run EXCEPT ![t] = y]
  BY <1>1
<1>5. l \in PC /\ l \in {"extract", "identify"}
  BY DEF PC
<1> HIDE DEF x, l
<1>6. y \in Run /\ y.pc = l /\ y.doc = d /\ y.x = x /\ y.cand = x.key
      /\ ~y.extracted
  BY <1>2, <1>3, <1>5 DEF Run
<1> HIDE DEF y
<1>7. /\ row' \in [Docs -> Row] /\ row'[d] = x /\ \A e \in Docs \ {d} : row'[e] = row[e]
  BY <1>3, <1>4 DEF TypeOK
<1>8. Becomes(t, y)
  BY <1>4, <1>6, Assigned
<1> QED
  BY <1>3, <1>5, <1>6, <1>7, <1>8

\* The steps on which a run goes on without a provider's answer, except the
\* reservation of a call.
Onward(t) ==
    \/ IdentifyByRow(t) \/ IdentifyByOcr(t) \/ CacheMiss(t)
    \/ \E n \in 1..2 : RefuseCall(t, n) \/ CallFails(t, n)
    \/ Extract(t) /\ run[t].config.llm /\ run[t].config.ready
    \/ ReserveLlm(t)

\* They keep document, session row and, except for the document's own, the
\* fingerprint asked for; none of them waits for a provider then.
LEMMA OnwardMove ==
  ASSUME TypeOK, NEW t \in Tasks, Onward(t)
  PROVE  \E new : GoesOn(t, new) /\ new.pc \notin CallPC
<1>1. ASSUME NEW label \in PC \ (CallPC \cup {"identify"}), run[t].pc \in PC, Goto(t, label)
      PROVE  \E new : GoesOn(t, new) /\ new.pc \notin CallPC
  BY <1>1, GotoMove
<1>2. CASE IdentifyByRow(t)
  BY <1>1, <1>2 DEF IdentifyByRow, At, PC, CallPC
<1>3. CASE IdentifyByOcr(t)
  <2>1. PICK read \in {Key[Doc(t)], NoKey} :
          run' = [run EXCEPT ![t].pc = "lookup", ![t].extracted = TRUE,
                             ![t].cand = IF @ = NoKey THEN read ELSE @]
    BY <1>3 DEF IdentifyByOcr
  <2>2. run[t] \in Run /\ run[t].doc \in Docs /\ run[t].pc = "identify"
    BY <1>3, AtWork DEF IdentifyByOcr, At, PC
  <2> DEFINE c == IF run[t].cand = NoKey THEN read ELSE run[t].cand
             y == [run[t] EXCEPT !.pc = "lookup", !.extracted = TRUE, !.cand = c]
  <2>3. c \in {run[t].cand, NoKey, Key[run[t].doc]} /\ c \in Keys \cup {NoKey}
    BY <2>2 DEF Doc, Keys, Run
  <2> HIDE DEF c
  <2>4. /\ y \in Run /\ y.pc = "lookup" /\ y.doc = run[t].doc /\ y.x = run[t].x
        /\ y.cand = c /\ y.extracted
    BY <2>2, <2>3 DEF Run, PC
  <2>5. run' = [run EXCEPT ![t] = y]
    BY <2>1 DEF TypeOK, c
  <2> HIDE DEF y
  <2> QED
    BY <2>3, <2>4, <2>5, Assigned DEF GoesOn, CallPC
<1>4. CASE CacheMiss(t)
  <2> DEFINE l == AfterProviders(t, 0)
             y == [run[t] EXCEPT !.pc = l, !.cand = NoKey]
  <2>1. l \in PC /\ l \notin CallPC \cup {"identify"}
    BY AfterProvidersTyped DEF PC, CallPC
  <2>2. run' = [run EXCEPT ![t].pc = l, ![t].cand = NoKey]
    BY <1>4 DEF CacheMiss
  <2>3. run[t] \in Run
    BY <1>4, AtWork DEF CacheMiss, At, PC
  <2> HIDE DEF l
  <2>4. /\ y \in Run /\ y.pc = l /\ y.doc = run[t].doc /\ y.x = run[t].x /\ y.cand = NoKey
        /\ y.extracted = run[t].extracted
    BY <2>1, <2>3 DEF Run
  <2>5. run' = [run EXCEPT ![t] = y]
    BY <2>2 DEF TypeOK
  <2> HIDE DEF y
  <2> QED
    BY <2>1, <2>4, <2>5, Assigned DEF GoesOn
<1>5. ASSUME NEW n \in 1..2, RefuseCall(t, n)
      PROVE  \E new : GoesOn(t, new) /\ new.pc \notin CallPC
  <2>1. run[t].pc \in PC
    BY <1>5 DEF RefuseCall, At, Providers, PC
  <2> QED
    BY <1>1, <1>5, <2>1 DEF RefuseCall, PC, CallPC
<1>6. ASSUME NEW n \in 1..2, CallFails(t, n)
      PROVE  \E new : GoesOn(t, new) /\ new.pc \notin CallPC
  <2>1. run[t].pc \in PC
    BY <1>6 DEF CallFails, At, Calling, PC
  <2>2. AfterProviders(t, n) \in PC \ (CallPC \cup {"identify"})
    BY AfterProvidersTyped DEF PC, CallPC
  <2> QED
    BY <1>1, <1>6, <2>1, <2>2 DEF CallFails
<1>7. CASE Extract(t) /\ run[t].config.llm /\ run[t].config.ready
  <2> DEFINE y == [run[t] EXCEPT !.pc = "llm", !.extracted = TRUE]
  <2>1. run' = [run EXCEPT ![t].pc = "llm", ![t].extracted = TRUE]
    BY <1>7 DEF Extract
  <2>2. run[t] \in Run
    BY <1>7, AtWork DEF Extract, At, PC
  <2>3. /\ y \in Run /\ y.pc = "llm" /\ y.doc = run[t].doc /\ y.x = run[t].x
        /\ y.cand = run[t].cand /\ y.extracted
    BY <2>2 DEF Run, PC
  <2>4. run' = [run EXCEPT ![t] = y]
    BY <2>1 DEF TypeOK
  <2> HIDE DEF y
  <2> QED
    BY <2>3, <2>4, Assigned DEF GoesOn, CallPC
<1>8. CASE ReserveLlm(t)
  BY <1>1, <1>8 DEF ReserveLlm, At, PC, CallPC
<1> QED
  BY <1>2, <1>3, <1>4, <1>5, <1>6, <1>7, <1>8 DEF Onward

\* A reservation sends the run to its call, under the day it was made on.
LEMMA ReserveMove ==
  ASSUME TypeOK, NEW t \in Tasks, NEW n \in 1..2, ReserveCall(t, n)
  PROVE  /\ run[t].pc \in {"piaozone", "kingdee"}
         /\ \E new : GoesOn(t, new) /\ new.pc \in CallPC /\ new.day = today
<1> DEFINE y == [run[t] EXCEPT !.pc = Calling[n], !.day = today]
<1>1. run' = [run EXCEPT ![t].pc = Calling[n], ![t].day = today]
  BY DEF ReserveCall
<1>2. run[t].pc \in {"piaozone", "kingdee"} /\ Calling[n] \in CallPC /\ Calling[n] \in PC
  BY DEF ReserveCall, At, Providers, Calling, CallPC, PC
<1>3. run[t] \in Run /\ today \in Days
  BY <1>2, AtWork DEF TypeOK, PC
<1>4. /\ y \in Run /\ y.pc = Calling[n] /\ y.doc = run[t].doc /\ y.x = run[t].x
      /\ y.cand = run[t].cand /\ y.day = today /\ y.extracted = run[t].extracted
  BY <1>2, <1>3 DEF Run
<1>5. run' = [run EXCEPT ![t] = y]
  BY <1>1 DEF TypeOK
<1> HIDE DEF y
<1> QED
  BY <1>2, <1>4, <1>5, Assigned DEF GoesOn, CallPC

\* The steps that bring a run to its final commit.
Inward(t) ==
    \/ CacheHit(t) \/ (\E n \in 1..2 : CallSucceeds(t, n))
    \/ NoFallback(t) \/ (Extract(t) /\ ~(run[t].config.llm /\ run[t].config.ready))
    \/ RefuseLlm(t) \/ LlmAnswers(t) \/ LlmFails(t)

\* Before its final commit a run is at work.
LEMMA StillAtWork ==
  ASSUME NEW t \in Tasks, Onward(t) \/ Inward(t) \/ \E n \in 1..2 : ReserveCall(t, n)
  PROVE  run[t].pc \in PC
<1>1. ASSUME NEW n \in 1..2,
             \/ ReserveCall(t, n) \/ RefuseCall(t, n) \/ CallSucceeds(t, n) \/ CallFails(t, n)
      PROVE  run[t].pc \in PC
  <2>1. Calling[n] \in PC /\ Providers[n] \in PC
    BY DEF Calling, Providers, PC
  <2> QED
    BY <1>1, <2>1 DEF ReserveCall, RefuseCall, CallSucceeds, CallFails, At
<1>2. CASE Inward(t)
  BY <1>1, <1>2 DEF Inward, CacheHit, NoFallback, Extract, RefuseLlm, LlmAnswers, LlmFails, At, PC
<1>3. CASE Onward(t)
  BY <1>1, <1>3 DEF Onward, IdentifyByRow, IdentifyByOcr, CacheMiss, Extract, ReserveLlm, At, PC
<1> QED
  BY <1>1, <1>2, <1>3

\* What the run is going to write: a conclusion without the provider.
Local(t, x) ==
    /\ x.status \in {"review", "consistent"}
    /\ x.key \in {run[t].x.key, Key[run[t].doc], NoKey}

\* The cached answer about an invoice with the fingerprint asked for.
Cached(t, x) ==
    \E e \in cache : /\ Matches(e, t)
                     /\ x.key = e.key /\ x.answer = e.answer /\ x.status = "verified"

\* The provider's answer about the document itself.
Answered(t, x) ==
    /\ x.answer = run[t].doc /\ x.key \in {Key[run[t].doc], NoKey} /\ x.status = "verified"
    /\ x.method \in {"piaozone", "kingdee"}

\* A run comes to its final commit with one of these.
Closes(t) ==
    \E new \in Closing :
        /\ Becomes(t, new) /\ new.pc = "finish" /\ new.doc = run[t].doc
        /\ \/ ~new.store /\ (Cached(t, new.x) \/ Local(t, new.x))
           \/ new.store /\ Answered(t, new.x)

\* They conclude with a cached answer, a local conclusion or the provider's own.
LEMMA InwardMove ==
  ASSUME TypeOK, NEW t \in Tasks, Inward(t)
  PROVE  Closes(t)
<1>1. run[t].pc \in PC /\ run[t] \in Run /\ run[t].x \in Row /\ run[t].doc \in Docs
  <2>1. run[t].pc \in PC
    BY StillAtWork
  <2> QED
    BY <2>1, AtWork
<1>2. ASSUME NEW x \in Row, Close(t, x, FALSE), Cached(t, x) \/ Local(t, x) PROVE Closes(t)
  <2>1. PICK new \in Closing : /\ Becomes(t, new) /\ new.pc = "finish"
                               /\ new.doc = run[t].doc /\ new.x = x /\ new.store = FALSE
    BY <1>1, <1>2, CloseMove, Zenon
  <2> QED
    BY <1>2, <2>1, Zenon DEF Closes
<1>3. ASSUME NEW x \in Row, Close(t, x, TRUE), Answered(t, x) PROVE Closes(t)
  <2>1. PICK new \in Closing : /\ Becomes(t, new) /\ new.pc = "finish"
                               /\ new.doc = run[t].doc /\ new.x = x /\ new.store = TRUE
    BY <1>1, <1>3, CloseMove, Zenon
  <2> QED
    BY <1>3, <2>1, Zenon DEF Closes
<1>4. ASSUME NEW status \in {"review", "consistent"},
             NEW method \in {"", "ocr", "dual", "llm", run[t].x.method},
             NEW key \in {run[t].x.key, Key[run[t].doc], NoKey},
             Conclude(t, status, method, key)
      PROVE  Closes(t)
  <2> DEFINE x == [run[t].x EXCEPT !.status = status, !.method = method, !.key = key]
  <2>1. key \in Keys \cup {NoKey}
    BY <1>1 DEF Row, Keys
  <2>2. x \in Row /\ x.status = status /\ x.key = key
    BY <1>1, <2>1 DEF Row
  <2>3. Close(t, x, FALSE)
    BY <1>4 DEF Conclude
  <2> HIDE DEF x
  <2>4. Local(t, x)
    BY <2>2 DEF Local
  <2> QED
    BY <1>2, <2>2, <2>3, <2>4
<1>5. FoundKeys(t) \subseteq {run[t].x.key, Key[run[t].doc], NoKey}
  BY DEF FoundKeys, Doc
<1>6. CASE CacheHit(t)
  <2>1. PICK e \in cache :
          /\ Matches(e, t)
          /\ Close(t, [run[t].x EXCEPT !.status = "verified", !.method = e.method,
                                       !.key = e.key, !.answer = e.answer], FALSE)
    BY <1>6 DEF CacheHit
  <2> DEFINE x == [run[t].x EXCEPT !.status = "verified", !.method = e.method,
                                   !.key = e.key, !.answer = e.answer]
  <2>2. e.method \in {"piaozone", "kingdee"} /\ e.key \in Keys /\ e.answer \in Docs
    BY DEF TypeOK
  <2>3. x \in Row /\ x.key = e.key /\ x.answer = e.answer /\ x.status = "verified"
    BY <1>1, <2>2 DEF Row
  <2>4. Close(t, x, FALSE)
    BY <2>1
  <2> HIDE DEF x
  <2>5. Cached(t, x)
    BY <2>1, <2>3 DEF Cached
  <2> QED
    BY <1>2, <2>3, <2>4, <2>5
<1>7. ASSUME NEW n \in 1..2, CallSucceeds(t, n) PROVE Closes(t)
  <2>1. PICK k \in {Key[run[t].doc], NoKey} :
          Close(t, [run[t].x EXCEPT !.status = "verified", !.key = k,
                                    !.method = Providers[n], !.answer = run[t].doc], TRUE)
    BY <1>7 DEF CallSucceeds, AnswerKeys, Doc
  <2> DEFINE x == [run[t].x EXCEPT !.status = "verified", !.key = k,
                                   !.method = Providers[n], !.answer = run[t].doc]
  <2>2. k \in Keys \cup {NoKey} /\ Providers[n] \in {"piaozone", "kingdee"}
    BY <1>1 DEF Keys, Providers
  <2>3. /\ x \in Row /\ x.key = k /\ x.answer = run[t].doc /\ x.status = "verified"
        /\ x.method = Providers[n]
    BY <1>1, <2>2 DEF Row
  <2>4. Close(t, x, TRUE)
    BY <2>1
  <2> HIDE DEF x
  <2>5. Answered(t, x)
    BY <2>1, <2>2, <2>3 DEF Answered
  <2> QED
    BY <1>3, <2>3, <2>4, <2>5
<1>8. CASE NoFallback(t)
  BY <1>4, <1>8 DEF NoFallback
<1>9. CASE Extract(t) /\ ~(run[t].config.llm /\ run[t].config.ready)
  BY <1>4, <1>5, <1>9 DEF Extract
<1>10. CASE RefuseLlm(t)
  BY <1>4, <1>5, <1>10 DEF RefuseLlm
<1>11. CASE LlmAnswers(t)
  BY <1>4, <1>5, <1>11 DEF LlmAnswers, Compared
<1>12. CASE LlmFails(t)
  BY <1>4, <1>5, <1>12 DEF LlmFails
<1> QED
  BY <1>6, <1>7, <1>8, <1>9, <1>10, <1>11, <1>12 DEF Inward

\* The steps that end a run.
Ends(t) == Finish(t) \/ ExtractFails(t) \/ FinishFails(t) \/ Abandon(t)

\* The row of its invoice is what the run has made of it, or that as a failure,
\* or what it was.
LEMMA EndMove ==
  ASSUME TypeOK, NEW t \in Tasks, Ends(t)
  PROVE  /\ Becomes(t, Idle) /\ run[t].doc \in Docs /\ run[t].x \in Row
         /\ run[t].pc \in (PC \ CallPC) \cup {"finish"}
         /\ row' \in [Docs -> Row]
         /\ \A d \in Docs \ {run[t].doc} : row'[d] = row[d]
         /\ \/ row' = row
            \/ row'[run[t].doc] = run[t].x
            \/ row'[run[t].doc].status = "failed" /\ row'[run[t].doc].key = run[t].x.key
         /\ cache' = cache \/ (run[t].pc = "finish" /\ cache' = Stored(t))
<1> DEFINE d == Doc(t)
           f == [run[t].x EXCEPT !.status = "failed"]
<1>1. run[t].pc \in (PC \ CallPC) \cup {"finish"}
  <2>1. CASE Abandon(t)
    BY <2>1, AtWork DEF Abandon, CallPC
  <2>2. CASE Finish(t) \/ ExtractFails(t) \/ FinishFails(t)
    BY <2>2 DEF Finish, ExtractFails, FinishFails, At, PC, CallPC
  <2> QED
    BY <2>1, <2>2 DEF Ends
<1>2. d \in Docs /\ run[t].x \in Row /\ d = run[t].doc
  BY <1>1, AtWork DEF Doc
<1>3. f \in Row /\ f.key = run[t].x.key /\ f.status = "failed"
  BY <1>2 DEF Row
<1>4. /\ run' = [run EXCEPT ![t] = Idle]
      /\ \/ row' = row
         \/ row' = [row EXCEPT ![d] = run[t].x] \/ row' = [row EXCEPT ![d] = f]
      /\ cache' = cache \/ (run[t].pc = "finish" /\ cache' = Stored(t))
  BY DEF Ends, Finish, ExtractFails, FinishFails, Abandon, Fail, At
<1> HIDE DEF d, f
<1>5. Becomes(t, Idle)
  BY <1>4, Assigned
<1>6. CASE row' = row
  BY <1>1, <1>2, <1>4, <1>5, <1>6 DEF TypeOK
<1>7. CASE row' # row
  <2>1. PICK x \in Row : row' = [row EXCEPT ![d] = x] /\ x \in {run[t].x, f}
    BY <1>2, <1>3, <1>4, <1>7
  <2>2. /\ row' \in [Docs -> Row] /\ row'[d] = x /\ \A e \in Docs \ {d} : row'[e] = row[e]
    BY <1>2, <2>1 DEF TypeOK
  <2> QED
    BY <1>1, <1>2, <1>3, <1>4, <1>5, <2>1, <2>2
<1> QED
  BY <1>6, <1>7

\* Every step is of one of these kinds.
LEMMA StepKinds ==
  ASSUME [Next]_vars
  PROVE  \/ \E t \in Tasks, d \in Docs : Begin(t, d)
         \/ \E t \in Tasks : \/ Onward(t) \/ Inward(t) \/ Ends(t)
                             \/ \E n \in 1..2 : ReserveCall(t, n)
         \/ \E d \in Docs, k \in Keys \cup {NoKey} : Save(d, k)
         \/ Midnight \/ Crash \/ UNCHANGED vars
BY DEF Next, Step, Onward, Inward, Ends

-----------------------------------------------------------------------------
(***************************************************************************)
(* Types.                                                                    *)
(***************************************************************************)

Counts == count \in [Owners \X Resources \X Days -> Nat]
Limits == \A o \in Owners, r \in Resources, d \in Days : count[<<o, r, d>>] <= Limit[r]

\* A charge that was allowed stays within the limit, and touches one counter.
LEMMA ChargeStep ==
  ASSUME TypeOK, NEW t \in Tasks, run[t].doc \in Docs, NEW r \in Resources,
         Allowed(t, r), Charge(t, r)
  PROVE  /\ Counts' /\ Limits'
         /\ \A o \in Owners, q \in Resources, d \in Days :
               count'[<<o, q, d>>] = IF User(t) = o /\ q = r /\ d = today
                                     THEN count[<<o, q, d>>] + 1 ELSE count[<<o, q, d>>]
<1>1. /\ count \in [Owners \X Resources \X Days -> Nat] /\ today \in Days
      /\ \A o \in Owners, q \in Resources, d \in Days :
            count[<<o, q, d>>] <= Limit[q] /\ count[<<o, q, d>>] \in Nat /\ Limit[q] \in Nat
  BY VerificationAssumption DEF TypeOK
<1>2. User(t) \in Owners \cup {NoOwner} /\ NoOwner \notin Owners
  BY UserTyped
<1>3. CASE User(t) = NoOwner
  BY <1>1, <1>2, <1>3 DEF Charge, Counts, Limits
<1>4. CASE User(t) \in Owners
  <2> DEFINE c == <<User(t), r, today>>
  <2>1. c \in Owners \X Resources \X Days /\ count[c] < Limit[r] /\ count[c] \in Nat
    BY <1>1, <1>2, <1>4 DEF Allowed
  <2>2. count' = [count EXCEPT ![c] = count[c] + 1]
    BY <1>2, <1>4 DEF Charge
  <2>3. \A o \in Owners, q \in Resources, d \in Days :
           /\ <<o, q, d>> \in Owners \X Resources \X Days
           /\ <<o, q, d>> = c <=> (User(t) = o /\ q = r /\ d = today)
    OBVIOUS
  <2>4. count' \in [Owners \X Resources \X Days -> Nat]
    BY <1>1, <2>1, <2>2
  <2>5. \A o \in Owners, q \in Resources, d \in Days :
           count'[<<o, q, d>>] = IF User(t) = o /\ q = r /\ d = today
                                 THEN count[<<o, q, d>>] + 1 ELSE count[<<o, q, d>>]
    BY <1>1, <2>1, <2>2, <2>3
  <2>6. count[<<User(t), r, today>>] < Limit[r]
    BY <2>1
  <2> HIDE DEF c
  <2>7. ASSUME NEW o \in Owners, NEW q \in Resources, NEW d \in Days
        PROVE  count'[<<o, q, d>>] <= Limit[q]
    <3>1. count[<<o, q, d>>] <= Limit[q] /\ count[<<o, q, d>>] \in Nat /\ Limit[q] \in Nat
      BY <1>1
    <3>2. CASE User(t) = o /\ q = r /\ d = today
      <4>1. count[<<o, q, d>>] < Limit[q] /\ count'[<<o, q, d>>] = count[<<o, q, d>>] + 1
        BY <2>5, <2>6, <3>2
      <4> QED
        BY <3>1, <4>1
    <3>3. CASE ~(User(t) = o /\ q = r /\ d = today)
      <4>1. count'[<<o, q, d>>] = count[<<o, q, d>>]
        BY <2>5, <3>3
      <4> QED
        BY <3>1, <4>1
    <3> QED
      BY <3>2, <3>3
  <2> QED
    BY <2>4, <2>5, <2>7 DEF Counts, Limits
<1> QED
  BY <1>2, <1>3, <1>4

\* The steps that extract the text for the first time.
Reads(t) == \/ IdentifyByOcr(t)
            \/ ~run[t].extracted /\ (Extract(t) \/ ExtractFails(t))

\* Which steps charge which counter.
LEMMA WhoCharges ==
  ASSUME TypeOK, [Next]_vars
  PROVE  \/ count' = count
         \/ \E t \in Tasks : /\ run[t].doc \in Docs
                             /\ \/ Reads(t) /\ Allowed(t, "ocr") /\ Charge(t, "ocr")
                                \/ Allowed(t, "llm") /\ Charge(t, "llm")
         \/ \E t \in Tasks, n \in 1..2 : /\ run[t].doc \in Docs /\ ReserveCall(t, n)
                                         /\ Allowed(t, "tax") /\ Charge(t, "tax")
<1>1. ASSUME NEW t \in Tasks, run[t].pc \in PC PROVE run[t].doc \in Docs
  BY <1>1, AtWork
<1>2. ASSUME NEW t \in Tasks,
             IdentifyByOcr(t) \/ Extract(t) \/ ExtractFails(t) \/ ReserveLlm(t)
      PROVE  \/ count' = count
             \/ /\ run[t].doc \in Docs
                /\ \/ Reads(t) /\ Allowed(t, "ocr") /\ Charge(t, "ocr")
                   \/ Allowed(t, "llm") /\ Charge(t, "llm")
  <2>1. run[t].doc \in Docs
    BY <1>1, <1>2 DEF IdentifyByOcr, Extract, ExtractFails, ReserveLlm, At, PC
  <2>2. CASE IdentifyByOcr(t)
    <3>1. Reads(t)
      BY <2>2 DEF Reads
    <3>2. Allowed(t, "ocr") /\ Charge(t, "ocr")
      BY <2>2 DEF IdentifyByOcr
    <3> QED
      BY <2>1, <3>1, <3>2
  <2>3. CASE Extract(t) \/ ExtractFails(t)
    BY <2>1, <2>3, Zenon DEF Reads, Extract, ExtractFails, ChargeExtraction
  <2>4. CASE ReserveLlm(t)
    BY <2>1, <2>4 DEF ReserveLlm
  <2> QED
    BY <1>2, <2>2, <2>3, <2>4
<1>3. ASSUME NEW t \in Tasks, NEW n \in 1..2, ReserveCall(t, n)
      PROVE  run[t].doc \in Docs /\ Allowed(t, "tax") /\ Charge(t, "tax")
  <2>1. run[t].pc \in PC
    BY <1>3 DEF ReserveCall, At, Providers, PC
  <2> QED
    BY <1>1, <1>3, <2>1 DEF ReserveCall
<1>4. ASSUME NEW t \in Tasks,
             \/ IdentifyByRow(t) \/ CacheHit(t) \/ CacheMiss(t) \/ NoFallback(t) \/ RefuseLlm(t)
             \/ LlmAnswers(t) \/ LlmFails(t) \/ Finish(t) \/ FinishFails(t)
             \/ Abandon(t)
             \/ \E n \in 1..2 : RefuseCall(t, n) \/ CallSucceeds(t, n) \/ CallFails(t, n)
      PROVE  count' = count
  BY <1>4 DEF IdentifyByRow, CacheHit, CacheMiss, NoFallback, RefuseLlm, LlmAnswers, LlmFails,
              Finish, FinishFails, Abandon, RefuseCall, CallSucceeds, CallFails
<1>5. ASSUME NEW t \in Tasks, Step(t)
      PROVE  \/ count' = count
             \/ /\ run[t].doc \in Docs
                /\ \/ Reads(t) /\ Allowed(t, "ocr") /\ Charge(t, "ocr")
                   \/ Allowed(t, "llm") /\ Charge(t, "llm")
             \/ \E n \in 1..2 : /\ run[t].doc \in Docs /\ ReserveCall(t, n)
                                /\ Allowed(t, "tax") /\ Charge(t, "tax")
  BY <1>2, <1>3, <1>4, <1>5 DEF Step
<1>6. ASSUME \/ \E t \in Tasks, d \in Docs : Begin(t, d)
             \/ \E d \in Docs, k \in Keys \cup {NoKey} : Save(d, k)
             \/ Midnight \/ Crash \/ UNCHANGED vars
      PROVE  count' = count
  BY <1>6 DEF Begin, Save, Midnight, Crash, vars
<1> QED
  BY <1>5, <1>6 DEF Next

\* The steps that leave the table of invoices alone.
LEMMA RowsStay ==
  ASSUME NEW t \in Tasks, Onward(t) \/ Inward(t) \/ \E n \in 1..2 : ReserveCall(t, n)
  PROVE  row' = row /\ cache' = cache /\ events' = events /\ today' = today /\ runs' = runs
<1>1. CASE Onward(t)
  BY <1>1 DEF Onward, IdentifyByRow, IdentifyByOcr, CacheMiss, RefuseCall, CallFails, Extract,
              ReserveLlm
<1>2. CASE Inward(t)
  BY <1>2 DEF Inward, CacheHit, CallSucceeds, NoFallback, Extract, RefuseLlm, LlmAnswers, LlmFails
<1>3. CASE \E n \in 1..2 : ReserveCall(t, n)
  BY <1>3 DEF ReserveCall
<1> QED
  BY <1>1, <1>2, <1>3

\* A manual save changes one row, whose fields from a provider stay.
LEMMA SaveStep ==
  ASSUME TypeOK, NEW d \in Docs, NEW k \in Keys \cup {NoKey}, Save(d, k)
  PROVE  row' \in [Docs -> Row] /\ "save" \in events' /\ run' = run /\ cache' = cache
<1> DEFINE key == IF row[d].method \in {"piaozone", "kingdee"} THEN row[d].key ELSE k
           x == [row[d] EXCEPT !.status = "reviewed", !.key = key]
<1>1. row[d] \in Row /\ key \in Keys \cup {NoKey}
  BY DEF TypeOK, Row
<1>2. row' = [row EXCEPT ![d] = x] /\ "save" \in events' /\ run' = run /\ cache' = cache
  BY DEF Save, Once, TypeOK
<1> HIDE DEF key
<1>3. x \in Row
  BY <1>1 DEF Row
<1> HIDE DEF x
<1> QED
  BY <1>2, <1>3 DEF TypeOK

\* Which steps add to the calls.
LEMMA WhoCalls ==
  ASSUME TypeOK, [Next]_vars
  PROVE  \/ calls' = calls
         \/ \E t \in Tasks, n \in 1..2 : /\ CallSucceeds(t, n) \/ CallFails(t, n)
                                         /\ Called(t) /\ run[t].pc \in CallPC
                                         /\ run[t] \in Run
<1>1. ASSUME NEW t \in Tasks,
             \/ IdentifyByRow(t) \/ IdentifyByOcr(t) \/ CacheHit(t) \/ CacheMiss(t)
             \/ NoFallback(t) \/ Extract(t) \/ RefuseLlm(t) \/ ReserveLlm(t)
             \/ LlmAnswers(t) \/ LlmFails(t) \/ Finish(t) \/ ExtractFails(t) \/ FinishFails(t)
             \/ Abandon(t) \/ \E n \in 1..2 : ReserveCall(t, n) \/ RefuseCall(t, n)
      PROVE  calls' = calls
  BY <1>1 DEF IdentifyByRow, IdentifyByOcr, CacheHit, CacheMiss, NoFallback, Extract, RefuseLlm,
              ReserveLlm, LlmAnswers, LlmFails, Finish, ExtractFails, FinishFails, Abandon,
              ReserveCall, RefuseCall
<1>2. ASSUME NEW t \in Tasks, NEW n \in 1..2, CallSucceeds(t, n) \/ CallFails(t, n)
      PROVE  Called(t) /\ run[t].pc \in CallPC /\ run[t] \in Run
  <2>1. Called(t) /\ run[t].pc = Calling[n] /\ Calling[n] \in CallPC
    <3>1. Calling[n] \in CallPC
      BY DEF Calling, CallPC
    <3> QED
      BY <1>2, <3>1 DEF CallSucceeds, CallFails, At
  <2> QED
    BY <2>1, AtWork DEF CallPC, PC
<1>3. ASSUME \/ \E t \in Tasks, d \in Docs : Begin(t, d)
             \/ \E d \in Docs, k \in Keys \cup {NoKey} : Save(d, k)
             \/ Midnight \/ Crash \/ UNCHANGED vars
      PROVE  calls' = calls
  BY <1>3 DEF Begin, Save, Midnight, Crash, vars
<1> QED
  BY <1>1, <1>2, <1>3 DEF Next, Step

\* What a call adds to the calls.
LEMMA CalledStep ==
  ASSUME TypeOK, NEW t \in Tasks, run[t] \in Run, Called(t)
  PROVE  /\ calls' \in [Owners \X Days -> Nat]
         /\ \A o \in Owners, d \in Days :
               calls'[<<o, d>>] = IF User(t) = o /\ run[t].day = d THEN calls[<<o, d>>] + 1
                                  ELSE calls[<<o, d>>]
<1>1. /\ run[t].doc \in Docs /\ run[t].day \in Days /\ calls \in [Owners \X Days -> Nat]
      /\ \A o \in Owners, d \in Days : calls[<<o, d>>] \in Nat
  BY DEF Run, TypeOK
<1>2. User(t) \in Owners \cup {NoOwner} /\ NoOwner \notin Owners
  BY <1>1, UserTyped
<1>3. CASE User(t) = NoOwner
  BY <1>1, <1>2, <1>3 DEF Called
<1>4. CASE User(t) \in Owners
  <2> DEFINE c == <<User(t), run[t].day>>
  <2>1. c \in Owners \X Days /\ calls[c] \in Nat
    BY <1>1, <1>4
  <2>2. calls' = [calls EXCEPT ![c] = calls[c] + 1]
    BY <1>2, <1>4 DEF Called
  <2>3. \A o \in Owners, d \in Days :
           <<o, d>> \in Owners \X Days /\ (<<o, d>> = c <=> (User(t) = o /\ run[t].day = d))
    OBVIOUS
  <2> QED
    BY <1>1, <2>1, <2>2, <2>3
<1> QED
  BY <1>2, <1>3, <1>4

\* An answer that is going to be cached is the provider's about the document
\* in hand.
AnswerInHand ==
    \A t \in Tasks : At(t, "finish") /\ run[t].store =>
        /\ run[t].x.answer = Doc(t) /\ run[t].x.key \in {Key[Doc(t)], NoKey}
        /\ run[t].x.method \in {"piaozone", "kingdee"}

\* The day moves within its bound and the histories keep their types.
LEMMA HistoryStep ==
  ASSUME TypeOK, [Next]_vars
  PROVE  /\ today' \in Days /\ runs' \in [Owners \cup {NoOwner} -> Nat]
         /\ events' \subseteq {"midnight", "crash", "save"}
<1>1. /\ today \in Days /\ runs \in [Owners \cup {NoOwner} -> Nat]
      /\ events \subseteq {"midnight", "crash", "save"}
  BY DEF TypeOK
<1>2. ASSUME NEW t \in Tasks, NEW d \in Docs, Begin(t, d)
      PROVE  /\ today' = today /\ events' = events
             /\ runs' \in [Owners \cup {NoOwner} -> Nat]
  <2>1. Owner[d] \in Owners \cup {NoOwner} /\ runs[Owner[d]] + 1 \in Nat
    BY <1>1, VerificationAssumption
  <2>2. /\ today' = today /\ events' = events
        /\ runs' = [runs EXCEPT ![Owner[d]] = runs[Owner[d]] + 1]
    BY <1>2 DEF Begin
  <2> QED
    BY <1>1, <2>1, <2>2
<1>3. ASSUME NEW t \in Tasks, Ends(t)
      PROVE  today' = today /\ events' = events /\ runs' = runs
  BY <1>3 DEF Ends, Finish, ExtractFails, FinishFails, Abandon
<1>4. ASSUME NEW d \in Docs, NEW k \in Keys \cup {NoKey}, Save(d, k)
      PROVE  today' = today /\ events' = events \cup {"save"} /\ runs' = runs
  BY <1>4 DEF Save, Once
<1>5. Midnight => today' \in Days /\ events' = events \cup {"midnight"} /\ runs' = runs
  BY DEF Midnight, Once
<1>6. Crash => today' = today /\ events' = events \cup {"crash"} /\ runs' = runs
  BY DEF Crash, Once
<1>7. UNCHANGED vars => today' = today /\ events' = events /\ runs' = runs
  BY DEF vars
<1> QED
  BY <1>1, <1>2, <1>3, <1>4, <1>5, <1>6, <1>7, StepKinds, RowsStay

\* Every variable keeps its type; no counter passes its limit.
LEMMA TypesStep ==
  ASSUME TypeOK, AnswerInHand, [Next]_vars
  PROVE  TypeOK'
<1>1. /\ row \in [Docs -> Row] /\ run \in [Tasks -> Run \cup Closing \cup {Idle}]
      /\ cache \subseteq [owner : Owners, key : Keys, day : Days,
                          method : {"piaozone", "kingdee"}, answer : Docs]
      /\ today \in Days /\ runs \in [Owners \cup {NoOwner} -> Nat]
      /\ events \subseteq {"midnight", "crash", "save"} /\ Counts /\ Limits
  BY DEF TypeOK, Counts, Limits
<1>2. Counts' /\ Limits'
  <2>1. CASE count' = count
    BY <1>1, <2>1 DEF Counts, Limits
  <2> QED
    BY <2>1, WhoCharges, ChargeStep DEF Resources
<1>3. calls' \in [Owners \X Days -> Nat]
  <2>1. CASE calls' = calls
    BY <2>1 DEF TypeOK
  <2> QED
    BY <2>1, WhoCalls, CalledStep
<1>4. run' \in [Tasks -> Run \cup Closing \cup {Idle}] /\ row' \in [Docs -> Row]
  <2>1. ASSUME NEW t \in Tasks, NEW d \in Docs, Begin(t, d)
        PROVE  run' \in [Tasks -> Run \cup Closing \cup {Idle}] /\ row' \in [Docs -> Row]
    BY <2>1, Begins DEF Becomes
  <2>2. ASSUME NEW t \in Tasks, Onward(t)
        PROVE  run' \in [Tasks -> Run \cup Closing \cup {Idle}] /\ row' \in [Docs -> Row]
    BY <1>1, <2>2, OnwardMove, RowsStay DEF Becomes, GoesOn
  <2>3. ASSUME NEW t \in Tasks, Inward(t)
        PROVE  run' \in [Tasks -> Run \cup Closing \cup {Idle}] /\ row' \in [Docs -> Row]
    BY <1>1, <2>3, InwardMove, RowsStay DEF Becomes, Closes
  <2>4. ASSUME NEW t \in Tasks, Ends(t)
        PROVE  run' \in [Tasks -> Run \cup Closing \cup {Idle}] /\ row' \in [Docs -> Row]
    BY <2>4, EndMove DEF Becomes
  <2>5. ASSUME NEW t \in Tasks, NEW n \in 1..2, ReserveCall(t, n)
        PROVE  run' \in [Tasks -> Run \cup Closing \cup {Idle}] /\ row' \in [Docs -> Row]
    BY <1>1, <2>5, ReserveMove, RowsStay DEF Becomes, GoesOn
  <2>6. ASSUME NEW d \in Docs, NEW k \in Keys \cup {NoKey}, Save(d, k)
        PROVE  run' \in [Tasks -> Run \cup Closing \cup {Idle}] /\ row' \in [Docs -> Row]
    BY <1>1, <2>6, SaveStep
  <2>7. ASSUME Midnight \/ Crash \/ UNCHANGED vars
        PROVE  run' \in [Tasks -> Run \cup Closing \cup {Idle}] /\ row' \in [Docs -> Row]
    BY <1>1, <2>7 DEF Midnight, Crash, vars
  <2> QED
    BY <2>1, <2>2, <2>3, <2>4, <2>5, <2>6, <2>7, StepKinds
<1>5. cache' \subseteq [owner : Owners, key : Keys, day : Days,
                        method : {"piaozone", "kingdee"}, answer : Docs]
  <2>1. CASE cache' = cache
    BY <1>1, <2>1
  <2>2. ASSUME NEW t \in Tasks, Ends(t), run[t].pc = "finish", cache' = Stored(t)
        PROVE  cache' \subseteq [owner : Owners, key : Keys, day : Days,
                                 method : {"piaozone", "kingdee"}, answer : Docs]
    <3>1. /\ Stored(t) \subseteq cache \cup {Entry(t)}
          /\ \/ run[t].store /\ User(t) # NoOwner /\ Entry(t).key # NoKey
             \/ Stored(t) = cache
      BY DEF Stored
    <3>2. /\ run[t].doc \in Docs /\ run[t].x \in Row /\ run[t].x.key \in Keys \cup {NoKey}
          /\ User(t) \in Owners \cup {NoOwner} /\ Entry(t).key = run[t].x.key
      BY <2>2, AtWork, UserTyped DEF Row, Entry
    <3>3. ASSUME run[t].store, User(t) # NoOwner, Entry(t).key # NoKey
          PROVE  Entry(t) \in [owner : Owners, key : Keys, day : Days,
                                method : {"piaozone", "kingdee"}, answer : Docs]
      <4>1. run[t].x.answer \in Docs /\ run[t].x.method \in {"piaozone", "kingdee"}
        BY <2>2, <3>2, <3>3 DEF AnswerInHand, At, Doc
      <4> QED
        BY <1>1, <3>2, <3>3, <4>1 DEF Entry
    <3> QED
      BY <1>1, <2>2, <3>1, <3>2, <3>3
  <2>3. ASSUME NEW t \in Tasks, Ends(t)
        PROVE  cache' = cache \/ (run[t].pc = "finish" /\ cache' = Stored(t))
    BY <2>3, EndMove
  <2>4. ASSUME \/ \E t \in Tasks, d \in Docs : Begin(t, d)
               \/ \E d \in Docs, k \in Keys \cup {NoKey} : Save(d, k)
               \/ Midnight \/ Crash \/ UNCHANGED vars
        PROVE  cache' = cache
    BY <2>4 DEF Begin, Save, Midnight, Crash, vars
  <2> QED
    BY <2>1, <2>2, <2>3, <2>4, StepKinds, RowsStay
<1> QED
  BY <1>2, <1>3, <1>4, <1>5, HistoryStep DEF TypeOK, Counts, Limits

\* What waits for its final commit stays as it was concluded.
LEMMA InHandStep ==
  ASSUME TypeOK, AnswerInHand, [Next]_vars
  PROVE  AnswerInHand'
<1> SUFFICES ASSUME NEW t \in Tasks, run'[t].pc = "finish", run'[t].store
             PROVE  /\ run'[t].x.answer = run'[t].doc
                    /\ run'[t].x.key \in {Key[run'[t].doc], NoKey}
                    /\ run'[t].x.method \in {"piaozone", "kingdee"}
  BY DEF AnswerInHand, At, Doc
<1>1. CASE run'[t] = run[t]
  BY <1>1 DEF AnswerInHand, At, Doc
<1>2. CASE Closes(t)
  BY <1>2 DEF Closes, Becomes, Answered
<1>3. ASSUME NEW u \in Tasks, NEW new, Becomes(u, new), new.pc # "finish"
      PROVE  run'[t] = run[t]
  BY <1>3 DEF Becomes
<1>4. ASSUME NEW u \in Tasks, Inward(u), u # t PROVE run'[t] = run[t]
  BY <1>4, InwardMove DEF Closes, Becomes
<1>5. ASSUME NEW u \in Tasks, NEW d \in Docs, Begin(u, d) PROVE run'[t] = run[t]
  BY <1>3, <1>5, Begins
<1>6. ASSUME NEW u \in Tasks, Onward(u) PROVE run'[t] = run[t]
  BY <1>3, <1>6, OnwardMove DEF GoesOn, Run, PC
<1>7. ASSUME NEW u \in Tasks, NEW n \in 1..2, ReserveCall(u, n) PROVE run'[t] = run[t]
  BY <1>3, <1>7, ReserveMove DEF GoesOn, CallPC
<1>8. ASSUME NEW u \in Tasks, Ends(u) PROVE run'[t] = run[t]
  BY <1>3, <1>8, EndMove DEF Idle
<1>9. ASSUME \/ \E d \in Docs, k \in Keys \cup {NoKey} : Save(d, k)
             \/ Midnight \/ Crash \/ UNCHANGED vars
      PROVE  run'[t] = run[t]
  <2>1. ~Crash
    BY DEF Crash, Idle
  <2>2. run' = run
    BY <1>9, <2>1 DEF Save, Midnight, vars
  <2> QED
    BY <2>2
<1> QED
  BY <1>1, <1>2, <1>4, <1>5, <1>6, <1>7, <1>8, <1>9, StepKinds, InwardMove

\* So both hold in every state.
LEMMA TypesInvariant == Spec => [](TypeOK /\ AnswerInHand)
<1>1. Init => TypeOK /\ AnswerInHand
  <2> SUFFICES ASSUME Init PROVE TypeOK /\ AnswerInHand
    OBVIOUS
  <2>1. NewRow \in Row
    BY DEF NewRow, Row, None
  <2>2. /\ row \in [Docs -> Row] /\ run \in [Tasks -> Run \cup Closing \cup {Idle}]
        /\ count \in [Owners \X Resources \X Days -> Nat] /\ calls \in [Owners \X Days -> Nat]
        /\ runs \in [Owners \cup {NoOwner} -> Nat] /\ today \in Days
    BY <2>1, VerificationAssumption DEF Init
  <2>3. ASSUME NEW o \in Owners, NEW r \in Resources, NEW d \in Days
        PROVE  count[<<o, r, d>>] <= Limit[r]
    <3>1. count[<<o, r, d>>] = 0 /\ Limit[r] \in Nat
      BY VerificationAssumption DEF Init
    <3> QED
      BY <3>1
  <2>4. cache = {} /\ events = {}
    BY DEF Init
  <2>5. TypeOK
    BY <2>2, <2>3, <2>4 DEF TypeOK
  <2>6. \A t \in Tasks : run[t].pc = "idle"
    BY DEF Init, Idle
  <2> QED
    BY <2>5, <2>6 DEF AnswerInHand, At
<1>2. TypeOK /\ AnswerInHand /\ [Next]_vars => (TypeOK /\ AnswerInHand)'
  BY TypesStep, InHandStep
<1> QED
  BY <1>1, <1>2, PTL DEF Spec

\* Every variable stays in its type, and no owner's daily counter passes its
\* limit, for any limits and whatever runs side by side.
THEOREM VerificationTypes == Spec => []TypeOK
BY TypesInvariant, PTL

-----------------------------------------------------------------------------
(***************************************************************************)
(* The cache.                                                                *)
(***************************************************************************)

\* A cached answer is about an invoice of that owner with that fingerprint,
\* whatever was edited, read or asked for in between.
THEOREM CacheTheorem == Spec => []CacheHoldsItsInvoice
<1>1. Init => CacheHoldsItsInvoice
  BY DEF Init, CacheHoldsItsInvoice
<1>2. TypeOK /\ AnswerInHand /\ CacheHoldsItsInvoice /\ [Next]_vars => CacheHoldsItsInvoice'
  <2> SUFFICES ASSUME TypeOK, AnswerInHand, CacheHoldsItsInvoice, [Next]_vars
               PROVE  \A e \in cache' : Owner[e.answer] = e.owner /\ Key[e.answer] = e.key
    BY DEF CacheHoldsItsInvoice
  <2>1. CASE cache' = cache
    BY <2>1 DEF CacheHoldsItsInvoice
  <2>2. ASSUME NEW t \in Tasks, run[t].pc = "finish", cache' = Stored(t)
        PROVE  \A e \in cache' : Owner[e.answer] = e.owner /\ Key[e.answer] = e.key
    <3>1. ASSUME run[t].store, Entry(t).key # NoKey
          PROVE  Owner[Entry(t).answer] = Entry(t).owner /\ Key[Entry(t).answer] = Entry(t).key
      <4>1. run[t].x.answer = Doc(t) /\ run[t].x.key = Key[Doc(t)]
        BY <2>2, <3>1 DEF AnswerInHand, At, Entry
      <4> QED
        BY <4>1 DEF Entry, User
    <3>2. \/ run[t].store /\ Entry(t).key # NoKey /\ Stored(t) \subseteq cache \cup {Entry(t)}
          \/ Stored(t) = cache
      BY DEF Stored
    <3> QED
      BY <2>2, <3>1, <3>2 DEF CacheHoldsItsInvoice
  <2>3. \A t \in Tasks : Ends(t) => \/ cache' = cache
                                    \/ run[t].pc = "finish" /\ cache' = Stored(t)
    BY EndMove
  <2>4. ASSUME \/ \E t \in Tasks, d \in Docs : Begin(t, d)
               \/ \E d \in Docs, k \in Keys \cup {NoKey} : Save(d, k)
               \/ Midnight \/ Crash \/ UNCHANGED vars
        PROVE  cache' = cache
    BY <2>4 DEF Begin, Save, Midnight, Crash, vars
  <2> QED
    BY <2>1, <2>2, <2>3, <2>4, StepKinds, RowsStay
<1> QED
  BY <1>1, <1>2, TypesInvariant, PTL DEF Spec

-----------------------------------------------------------------------------
(***************************************************************************)
(* The answers in the rows.                                                  *)
(***************************************************************************)

\* What a row may say of document d: the fingerprint printed on it or none, and
\* an answer about the owner's invoice that is printed on it.
Honest(d, x) ==
    /\ x.key \in {Key[d], NoKey}
    /\ x.status = "verified" =>
          x.answer # None /\ Owner[x.answer] = Owner[d] /\ Key[x.answer] = Key[d]

\* Until somebody edits a row by hand, rows, sessions and the fingerprints the
\* cache is asked for are of that kind.
HonestInv ==
    "save" \notin events =>
        /\ \A d \in Docs : Honest(d, row[d])
        /\ \A t \in Tasks : run[t].pc \in PC \cup {"finish"} => Honest(run[t].doc, run[t].x)
        /\ \A t \in Tasks : run[t].pc \in PC => run[t].cand \in {Key[run[t].doc], NoKey}

\* A step writes nothing about a document but what it says.
LEMMA HonestStep ==
  ASSUME TypeOK, CacheHoldsItsInvoice, HonestInv, [Next]_vars
  PROVE  HonestInv'
<1> DEFINE Rows == \A d \in Docs : Honest(d, row'[d])
           Good(t) == /\ run'[t].pc \in PC \cup {"finish"} => Honest(run'[t].doc, run'[t].x)
                      /\ run'[t].pc \in PC => run'[t].cand \in {Key[run'[t].doc], NoKey}
<1> SUFFICES ASSUME "save" \notin events'
             PROVE  Rows /\ \A t \in Tasks : Good(t)
  BY DEF HonestInv, Honest
<1>1. /\ "save" \notin events
      /\ \A d \in Docs : Honest(d, row[d])
      /\ \A t \in Tasks : run[t].pc \in PC \cup {"finish"} => Honest(run[t].doc, run[t].x)
      /\ \A t \in Tasks : run[t].pc \in PC => run[t].cand \in {Key[run[t].doc], NoKey}
  <2>1. events \subseteq events'
    <3>1. ASSUME NEW t \in Tasks, Ends(t) PROVE events' = events
      BY <3>1 DEF Ends, Finish, ExtractFails, FinishFails, Abandon
    <3>2. ASSUME \/ \E t \in Tasks, d \in Docs : Begin(t, d)
                 \/ \E d \in Docs, k \in Keys \cup {NoKey} : Save(d, k)
                 \/ Midnight \/ Crash \/ UNCHANGED vars
          PROVE  events \subseteq events'
      BY <3>2 DEF Begin, Save, Midnight, Crash, Once, vars
    <3> QED
      BY <3>1, <3>2, StepKinds, RowsStay
  <2> QED
    BY <2>1 DEF HonestInv
<1>2. ASSUME NEW t \in Tasks, run'[t] = run[t] PROVE Good(t)
  BY <1>1, <1>2
<1>3. ASSUME row' = row PROVE Rows
  BY <1>1, <1>3
<1>4. ASSUME NEW t \in Tasks, NEW d \in Docs, Begin(t, d)
      PROVE  Rows /\ \A u \in Tasks : Good(u)
  <2>1. /\ \A e \in Docs \ {d} : row'[e] = row[e]
        /\ row'[d].key = row[d].key /\ row'[d].status = "processing"
    BY <1>4, Begins
  <2>2. PICK new \in Run : /\ Becomes(t, new) /\ new.doc = d /\ new.x.key = row[d].key
                           /\ new.cand = row[d].key /\ new.x.status = "processing"
    BY <1>4, Begins
  <2>3. Rows
    BY <1>1, <2>1 DEF Honest
  <2>4. Good(t)
    BY <1>1, <2>2 DEF Honest, Becomes
  <2> QED
    BY <1>2, <2>2, <2>3, <2>4 DEF Becomes
<1>5. ASSUME NEW t \in Tasks, NEW new, GoesOn(t, new), run[t].pc \in PC, row' = row
      PROVE  Rows /\ \A u \in Tasks : Good(u)
  <2>1. Good(t)
    BY <1>1, <1>5 DEF GoesOn, Becomes
  <2> QED
    BY <1>2, <1>3, <1>5, <2>1 DEF GoesOn, Becomes
<1>6. ASSUME NEW t \in Tasks, Closes(t), run[t].pc \in PC, row' = row
      PROVE  Rows /\ \A u \in Tasks : Good(u)
  <2>1. PICK new \in Closing :
           /\ Becomes(t, new) /\ new.pc = "finish" /\ new.doc = run[t].doc
           /\ Cached(t, new.x) \/ Local(t, new.x) \/ Answered(t, new.x)
    BY <1>6 DEF Closes
  <2>2. /\ run[t].cand \in {Key[run[t].doc], NoKey} /\ run[t].doc \in Docs
        /\ run[t].x.key \in {Key[run[t].doc], NoKey}
    BY <1>1, <1>6, AtWork DEF Honest
  <2>3. Honest(run[t].doc, new.x)
    <3>1. CASE Cached(t, new.x)
      <4>1. PICK e \in cache : /\ Matches(e, t)
                               /\ new.x.key = e.key /\ new.x.answer = e.answer
        BY <3>1 DEF Cached
      <4>2. e.key = Key[run[t].doc] /\ e.owner = Owner[run[t].doc] /\ e.answer \in Docs
        BY <2>2, <4>1, VerificationAssumption DEF Matches, TypeOK, User, Doc
      <4>3. Owner[e.answer] = e.owner /\ Key[e.answer] = e.key
        BY DEF CacheHoldsItsInvoice
      <4>4. e.answer # None
        BY <4>2, VerificationAssumption
      <4> QED
        BY <4>1, <4>2, <4>3, <4>4 DEF Honest
    <3>2. CASE Local(t, new.x)
      BY <2>2, <3>2 DEF Local, Honest
    <3>3. CASE Answered(t, new.x)
      BY <2>2, <3>3, VerificationAssumption DEF Answered, Honest
    <3> QED
      BY <2>1, <3>1, <3>2, <3>3
  <2>4. Good(t)
    BY <2>1, <2>3 DEF Becomes, PC
  <2> QED
    BY <1>2, <1>3, <1>6, <2>1, <2>4 DEF Becomes
<1>7. ASSUME NEW t \in Tasks, Ends(t)
      PROVE  Rows /\ \A u \in Tasks : Good(u)
  <2>1. /\ Becomes(t, Idle) /\ run[t].pc \in PC \cup {"finish"}
        /\ \A d \in Docs \ {run[t].doc} : row'[d] = row[d]
        /\ \/ row' = row
           \/ row'[run[t].doc] = run[t].x
           \/ row'[run[t].doc].status = "failed" /\ row'[run[t].doc].key = run[t].x.key
    BY <1>7, EndMove
  <2>2. Honest(run[t].doc, run[t].x)
    BY <1>1, <2>1
  <2>3. Rows
    BY <1>1, <2>1, <2>2 DEF Honest
  <2>4. Good(t)
    BY <2>1 DEF Becomes, Idle, PC
  <2> QED
    BY <1>2, <2>1, <2>3, <2>4 DEF Becomes
<1>8. ASSUME Midnight \/ UNCHANGED vars PROVE Rows /\ \A u \in Tasks : Good(u)
  BY <1>1, <1>8 DEF Midnight, vars
<1>9. ASSUME Crash PROVE Rows /\ \A u \in Tasks : Good(u)
  BY <1>1, <1>9 DEF Crash, Idle, PC
<1>10. ~\E d \in Docs, k \in Keys \cup {NoKey} : Save(d, k)
  BY DEF Save, Once
<1> HIDE DEF Rows, Good
<1>11. ASSUME NEW t \in Tasks, Onward(t) \/ Inward(t) \/ \E n \in 1..2 : ReserveCall(t, n)
       PROVE  Rows /\ \A u \in Tasks : Good(u)
  <2>1. run[t].pc \in PC /\ row' = row
    BY <1>11, StillAtWork, RowsStay
  <2>2. CASE Inward(t)
    BY <1>6, <2>1, <2>2, InwardMove
  <2>3. CASE Onward(t)
    BY <1>5, <2>1, <2>3, OnwardMove
  <2>4. CASE \E n \in 1..2 : ReserveCall(t, n)
    BY <1>5, <2>1, <2>4, ReserveMove
  <2> QED
    BY <1>11, <2>2, <2>3, <2>4
<1> QED
  BY <1>4, <1>7, <1>8, <1>9, <1>10, <1>11, StepKinds

\* Until somebody edits a row by hand, a verified row carries the tax answer
\* about its own owner's invoice, the one printed on its document.
THEOREM AnswersTheorem == Spec => []AnswersUnsavedDocument
<1>1. Init => HonestInv
  <2> SUFFICES ASSUME Init PROVE HonestInv
    OBVIOUS
  <2>1. \A t \in Tasks : run[t].pc = "idle"
    BY DEF Init, Idle
  <2>2. \A d \in Docs : row[d].key = NoKey /\ row[d].status = "pending"
    BY DEF Init, NewRow
  <2> QED
    BY <2>1, <2>2 DEF HonestInv, Honest, PC
<1>2. TypeOK /\ CacheHoldsItsInvoice /\ HonestInv /\ [Next]_vars => HonestInv'
  BY HonestStep
<1>3. HonestInv => AnswersUnsavedDocument
  BY DEF HonestInv, Honest, AnswersUnsavedDocument, AnswersItsDocument
<1> QED
  BY <1>1, <1>2, <1>3, VerificationTypes, CacheTheorem, PTL DEF Spec

-----------------------------------------------------------------------------
(***************************************************************************)
(* The charged calls.                                                        *)
(***************************************************************************)

\* The calls of o that are under way on day d change with the task that moves.
LEMMA ReservedMove ==
  ASSUME TypeOK, NEW t \in Tasks, NEW new, Becomes(t, new), NEW o \in Owners, NEW d \in Days
  PROVE  Reserved(o, d)' = IF new.pc \in CallPC /\ Owner[new.doc] = o /\ new.day = d
                           THEN Reserved(o, d) \cup {t} ELSE Reserved(o, d) \ {t}
<1>1. \A u \in Tasks : u # t => run'[u] = run[u]
  BY DEF Becomes
<1>2. run'[t] = new
  BY DEF Becomes
<1> QED
  BY <1>1, <1>2 DEF Reserved, At, User, Doc, CallPC

\* There are finitely many, so one more and one less count as such.
LEMMA ReservedCounts ==
  ASSUME NEW o \in Owners, NEW d \in Days
  PROVE  /\ IsFiniteSet(Reserved(o, d)) /\ Cardinality(Reserved(o, d)) \in Nat
         /\ \A t : t \notin Reserved(o, d) =>
               Cardinality(Reserved(o, d) \cup {t}) = Cardinality(Reserved(o, d)) + 1
         /\ \A t \in Reserved(o, d) :
               Cardinality(Reserved(o, d) \ {t}) = Cardinality(Reserved(o, d)) - 1
<1>1. IsFiniteSet(Reserved(o, d))
  BY VerificationAssumption, FS_Subset DEF Reserved
<1> HIDE DEF Reserved
<1> QED
  BY <1>1, FS_CardinalityType, FS_AddElement, FS_RemoveElement

\* The steps of a run that neither reserve a provider call nor end one.
Quiet(t) ==
    \/ IdentifyByRow(t) \/ IdentifyByOcr(t) \/ CacheHit(t) \/ CacheMiss(t)
    \/ \E n \in 1..2 : RefuseCall(t, n)
    \/ NoFallback(t) \/ Extract(t) \/ RefuseLlm(t) \/ ReserveLlm(t)
    \/ LlmAnswers(t) \/ LlmFails(t) \/ Ends(t)

\* They touch no call under way.
LEMMA QuietMove ==
  ASSUME TypeOK, NEW t \in Tasks, Quiet(t)
  PROVE  /\ run[t].pc \notin CallPC
         /\ \E new : Becomes(t, new) /\ new.pc \notin CallPC
         /\ calls' = calls /\ events' = events
<1>1. run[t].pc \notin CallPC
  <2>1. \A n \in 1..2 : Providers[n] \notin CallPC
    BY DEF Providers, CallPC
  <2> QED
    BY <2>1 DEF Quiet, Ends, IdentifyByRow, IdentifyByOcr, CacheHit, CacheMiss, RefuseCall,
                NoFallback, Extract, RefuseLlm, ReserveLlm, LlmAnswers, LlmFails, Finish,
                ExtractFails, FinishFails, Abandon, At, CallPC
<1>2. calls' = calls /\ events' = events
  BY DEF Quiet, Ends, IdentifyByRow, IdentifyByOcr, CacheHit, CacheMiss, RefuseCall,
         NoFallback, Extract, RefuseLlm, ReserveLlm, LlmAnswers, LlmFails, Finish,
         ExtractFails, FinishFails, Abandon
<1>3. Onward(t) \/ Inward(t) \/ Ends(t)
  BY DEF Quiet, Onward, Inward
<1>4. ASSUME Onward(t) PROVE \E new : Becomes(t, new) /\ new.pc \notin CallPC
  BY <1>4, OnwardMove DEF GoesOn
<1>5. ASSUME Inward(t) PROVE \E new : Becomes(t, new) /\ new.pc \notin CallPC
  BY <1>5, InwardMove DEF Closes, CallPC
<1>6. ASSUME Ends(t) PROVE \E new : Becomes(t, new) /\ new.pc \notin CallPC
  BY <1>6, EndMove DEF Idle, CallPC
<1> QED
  BY <1>1, <1>2, <1>3, <1>4, <1>5, <1>6

\* Only a reservation touches the tax counters.
LEMMA TaxCount ==
  ASSUME TypeOK, [Next]_vars, ~\E t \in Tasks, n \in 1..2 : ReserveCall(t, n),
         NEW o \in Owners, NEW d \in Days
  PROVE  count'[<<o, "tax", d>>] = count[<<o, "tax", d>>]
<1>1. CASE count' = count
  BY <1>1
<1>2. ASSUME NEW t \in Tasks, run[t].doc \in Docs, NEW r \in {"ocr", "llm"},
             Allowed(t, r), Charge(t, r)
      PROVE  count'[<<o, "tax", d>>] = count[<<o, "tax", d>>]
  BY <1>2, ChargeStep DEF Resources
<1> QED
  BY <1>1, <1>2, WhoCharges

\* A reservation is charged, and an answer or a failure turns it into a call.
LEMMA CallsStep ==
  ASSUME TypeOK, CallsCharged, [Next]_vars
  PROVE  CallsCharged'
<1> SUFFICES ASSUME NEW o \in Owners, NEW d \in Days
             PROVE  LET known == calls'[<<o, d>>] + Cardinality(Reserved(o, d)') IN
                    IF "crash" \in events' THEN known <= count'[<<o, "tax", d>>]
                    ELSE known = count'[<<o, "tax", d>>]
  BY DEF CallsCharged
<1> DEFINE before == Cardinality(Reserved(o, d))
           after == Cardinality(Reserved(o, d)')
           charged == count[<<o, "tax", d>>]
<1>1. calls[<<o, d>>] \in Nat /\ charged \in Nat /\ before \in Nat
  BY ReservedCounts DEF TypeOK, Resources
<1>2. IF "crash" \in events THEN calls[<<o, d>>] + before <= charged
                            ELSE calls[<<o, d>>] + before = charged
  BY DEF CallsCharged
<1> HIDE DEF before, after, charged
<1> DEFINE Goal == LET known == calls'[<<o, d>>] + after IN
                   IF "crash" \in events' THEN known <= count'[<<o, "tax", d>>]
                   ELSE known = count'[<<o, "tax", d>>]
<1>3. ASSUME calls'[<<o, d>>] = calls[<<o, d>>], after = before,
             count'[<<o, "tax", d>>] = charged, "crash" \in events' <=> "crash" \in events
      PROVE  Goal
  BY <1>1, <1>2, <1>3
<1>4. ASSUME NEW t \in Tasks, NEW n \in 1..2, ReserveCall(t, n)
      PROVE  Goal
  <2>1. PICK new : GoesOn(t, new) /\ new.pc \in CallPC /\ new.day = today
    BY <1>4, ReserveMove
  <2>2. run[t].pc \notin CallPC /\ run[t].doc \in Docs
    <3>1. run[t].pc \in {"piaozone", "kingdee"}
      BY <1>4, ReserveMove
    <3> QED
      BY <3>1, AtWork DEF CallPC, PC
  <2>3. Reserved(o, d)' = IF User(t) = o /\ d = today
                          THEN Reserved(o, d) \cup {t} ELSE Reserved(o, d) \ {t}
    BY <2>1, ReservedMove DEF GoesOn, User, Doc
  <2>4. t \notin Reserved(o, d)
    BY <2>2 DEF Reserved, At, CallPC
  <2>5. after = IF User(t) = o /\ d = today THEN before + 1 ELSE before
    <3>1. CASE User(t) = o /\ d = today
      BY <2>3, <2>4, <3>1, ReservedCounts DEF after, before
    <3>2. CASE ~(User(t) = o /\ d = today)
      <4>1. Reserved(o, d)' = Reserved(o, d)
        BY <2>3, <2>4, <3>2
      <4> QED
        BY <3>2, <4>1 DEF after, before
    <3> QED
      BY <3>1, <3>2
  <2>6. Allowed(t, "tax") /\ Charge(t, "tax") /\ calls' = calls /\ events' = events
    BY <1>4 DEF ReserveCall
  <2>7. count'[<<o, "tax", d>>] = IF User(t) = o /\ d = today THEN charged + 1 ELSE charged
    BY <2>2, <2>6, ChargeStep DEF Resources, charged
  <2> QED
    BY <1>1, <1>2, <2>5, <2>6, <2>7
<1>5. ASSUME NEW t \in Tasks, NEW n \in 1..2, CallSucceeds(t, n) \/ CallFails(t, n)
      PROVE  Goal
  <2>1. Called(t) /\ run[t].pc \in CallPC /\ run[t] \in Run
    <3>1. Called(t) /\ run[t].pc = Calling[n] /\ Calling[n] \in CallPC
      <4>1. Calling[n] \in CallPC
        BY DEF Calling, CallPC
      <4> QED
        BY <1>5, <4>1 DEF CallSucceeds, CallFails, At
    <3> QED
      BY <3>1, AtWork DEF CallPC, PC
  <2>2. PICK new : Becomes(t, new) /\ new.pc \notin CallPC
    <3>1. CASE CallSucceeds(t, n)
      BY <3>1, InwardMove DEF Inward, Closes, CallPC
    <3>2. CASE CallFails(t, n)
      BY <3>2, OnwardMove DEF Onward, GoesOn
    <3> QED
      BY <1>5, <3>1, <3>2
  <2>3. Reserved(o, d)' = Reserved(o, d) \ {t}
    BY <2>2, ReservedMove
  <2>4. t \in Reserved(o, d) <=> User(t) = o /\ run[t].day = d
    BY <2>1 DEF Reserved, At, CallPC
  <2>5. after = IF User(t) = o /\ run[t].day = d THEN before - 1 ELSE before
    <3>1. CASE User(t) = o /\ run[t].day = d
      BY <2>3, <2>4, <3>1, ReservedCounts DEF after, before
    <3>2. CASE ~(User(t) = o /\ run[t].day = d)
      <4>1. Reserved(o, d)' = Reserved(o, d)
        BY <2>3, <2>4, <3>2
      <4> QED
        BY <3>2, <4>1 DEF after, before
    <3> QED
      BY <3>1, <3>2
  <2>6. calls'[<<o, d>>] = IF User(t) = o /\ run[t].day = d THEN calls[<<o, d>>] + 1
                           ELSE calls[<<o, d>>]
    BY <2>1, CalledStep
  <2>7. count' = count /\ events' = events
    BY <1>5 DEF CallSucceeds, CallFails
  <2>8. count'[<<o, "tax", d>>] = charged
    BY <2>7 DEF charged
  <2> QED
    BY <1>1, <1>2, <2>5, <2>6, <2>7, <2>8
<1>6. ASSUME NEW t \in Tasks, run[t].pc \notin CallPC, calls' = calls, events' = events,
             NEW new, Becomes(t, new), new.pc \notin CallPC,
             count'[<<o, "tax", d>>] = charged
      PROVE  Goal
  <2>1. Reserved(o, d)' = Reserved(o, d)
    <3>1. t \notin Reserved(o, d)
      BY <1>6 DEF Reserved, At, CallPC
    <3> QED
      BY <1>6, <3>1, ReservedMove
  <2> QED
    BY <1>3, <1>6, <2>1 DEF after, before
<1>7. ASSUME NEW t \in Tasks, Quiet(t), ~\E u \in Tasks, n \in 1..2 : ReserveCall(u, n)
      PROVE  Goal
  <2>1. count'[<<o, "tax", d>>] = charged
    BY <1>7, TaxCount DEF charged
  <2> HIDE DEF Goal
  <2> QED
    BY <1>6, <1>7, <2>1, QuietMove
<1>8. ASSUME NEW t \in Tasks, NEW e \in Docs, Begin(t, e)
      PROVE  Goal
  <2>1. /\ run[t].pc \notin CallPC /\ calls' = calls /\ events' = events
        /\ count'[<<o, "tax", d>>] = charged
    BY <1>8 DEF Begin, At, CallPC, charged
  <2>2. \E new : Becomes(t, new) /\ new.pc \notin CallPC
    BY <1>8, Begins DEF CallPC
  <2> HIDE DEF Goal
  <2> QED
    BY <1>6, <2>1, <2>2
<1>9. ASSUME (\E e \in Docs, k \in Keys \cup {NoKey} : Save(e, k)) \/ Midnight \/ UNCHANGED vars
      PROVE  Goal
  <2>1. /\ calls' = calls /\ run' = run /\ count' = count
        /\ "crash" \in events' <=> "crash" \in events
    BY <1>9 DEF Save, Midnight, Once, vars
  <2>2. Reserved(o, d)' = Reserved(o, d)
    BY <2>1 DEF Reserved, At, User, Doc
  <2>3. after = before /\ count'[<<o, "tax", d>>] = charged
    BY <2>1, <2>2 DEF after, before, charged
  <2> HIDE DEF Goal
  <2> QED
    BY <1>3, <2>1, <2>3
<1>10. ASSUME Crash
       PROVE  Goal
  <2>1. calls' = calls /\ count' = count /\ "crash" \in events'
    BY <1>10 DEF Crash, Once
  <2>2. Reserved(o, d)' = {}
    BY <1>10 DEF Crash, Reserved, At, Idle
  <2>3. after = 0 /\ count'[<<o, "tax", d>>] = charged
    BY <2>1, <2>2, FS_EmptySet DEF after, charged
  <2> QED
    BY <1>1, <1>2, <2>1, <2>3
<1> HIDE DEF Goal
<1>11. Goal
  <2>1. \/ \E t \in Tasks, e \in Docs : Begin(t, e)
        \/ \E t \in Tasks, n \in 1..2 : ReserveCall(t, n)
        \/ \E t \in Tasks, n \in 1..2 : CallSucceeds(t, n) \/ CallFails(t, n)
        \/ \E t \in Tasks : Quiet(t)
        \/ \E e \in Docs, k \in Keys \cup {NoKey} : Save(e, k)
        \/ Midnight \/ Crash \/ UNCHANGED vars
    BY DEF Next, Step, Quiet, Ends
  <2> QED
    BY <1>4, <1>5, <1>7, <1>8, <1>9, <1>10, <2>1
<1> QED
  BY <1>11 DEF Goal, after

\* Every call of a provider, answered, failed or still under way, is charged to
\* the owner's day on which it was reserved, once, and nothing else is: across
\* midnight exactly, and after a crash a call may have been charged in vain.
THEOREM CallsTheorem == Spec => []CallsCharged
<1>1. Init => CallsCharged
  <2> SUFFICES ASSUME Init PROVE CallsCharged
    OBVIOUS
  <2>1. ASSUME NEW o \in Owners, NEW d \in Days
        PROVE  /\ calls[<<o, d>>] = 0 /\ Cardinality(Reserved(o, d)) = 0
               /\ count[<<o, "tax", d>>] = 0
    <3>1. \A t \in Tasks : run[t].pc = "idle"
      BY DEF Init, Idle
    <3>2. Reserved(o, d) = {}
      BY <3>1 DEF Reserved, At
    <3>3. calls[<<o, d>>] = 0 /\ count[<<o, "tax", d>>] = 0
      BY DEF Init, Resources
    <3> QED
      BY <3>2, <3>3, FS_EmptySet
  <2>2. events = {}
    BY DEF Init
  <2>3. ASSUME NEW o \in Owners, NEW d \in Days
        PROVE  calls[<<o, d>>] + Cardinality(Reserved(o, d)) = count[<<o, "tax", d>>]
    <3>1. calls[<<o, d>>] = 0 /\ Cardinality(Reserved(o, d)) = 0 /\ count[<<o, "tax", d>>] = 0
      BY <2>1
    <3> QED
      BY <3>1
  <2> QED
    BY <2>2, <2>3 DEF CallsCharged
<1>2. TypeOK /\ CallsCharged /\ [Next]_vars => CallsCharged'
  BY CallsStep
<1> QED
  BY <1>1, <1>2, VerificationTypes, PTL DEF Spec

-----------------------------------------------------------------------------
(***************************************************************************)
(* The charged extractions.                                                  *)
(***************************************************************************)

\* The runs of o that may still extract, and be charged for it.
Unread(o) == {t \in Tasks : run[t].pc \in PC /\ ~run[t].extracted /\ User(t) = o}

\* Each run is good for one charge; it is spent, or the run is still unread.
ExtractsInv ==
    /\ \A t \in Tasks : At(t, "identify") => ~run[t].extracted
    /\ \A o \in Owners : /\ IsFiniteSet(Extractions(o))
                         /\ Cardinality(Extractions(o)) + Cardinality(Unread(o)) <= runs[o]

\* How the unread runs change with the task that moves.
LEMMA UnreadMove ==
  ASSUME TypeOK, NEW t \in Tasks, NEW new, Becomes(t, new), NEW o \in Owners
  PROVE  Unread(o)' = IF new.pc \in PC /\ ~new.extracted /\ Owner[new.doc] = o
                      THEN Unread(o) \cup {t} ELSE Unread(o) \ {t}
<1>1. \A u \in Tasks : u # t => run'[u] = run[u]
  BY DEF Becomes
<1>2. run'[t] = new
  BY DEF Becomes
<1> QED
  BY <1>1, <1>2 DEF Unread, User, Doc

\* There are finitely many of them.
LEMMA UnreadCounts ==
  ASSUME NEW o
  PROVE  /\ IsFiniteSet(Unread(o)) /\ Cardinality(Unread(o)) \in Nat
         /\ \A S : S \subseteq Unread(o) =>
               Cardinality(S) \in Nat /\ Cardinality(S) <= Cardinality(Unread(o))
         /\ \A t : /\ Cardinality(Unread(o) \cup {t}) \in Nat
                   /\ Cardinality(Unread(o) \cup {t}) <= Cardinality(Unread(o)) + 1
         /\ \A t \in Unread(o) : Cardinality(Unread(o) \ {t}) = Cardinality(Unread(o)) - 1
<1>1. IsFiniteSet(Unread(o))
  BY VerificationAssumption, FS_Subset DEF Unread
<1> HIDE DEF Unread
<1>2. Cardinality(Unread(o)) \in Nat
  BY <1>1, FS_CardinalityType
<1>3. ASSUME NEW S, S \subseteq Unread(o)
      PROVE  Cardinality(S) \in Nat /\ Cardinality(S) <= Cardinality(Unread(o))
  BY <1>1, <1>3, FS_Subset, FS_CardinalityType
<1>4. ASSUME NEW t
      PROVE  /\ Cardinality(Unread(o) \cup {t}) \in Nat
             /\ Cardinality(Unread(o) \cup {t}) <= Cardinality(Unread(o)) + 1
  <2>1. CASE t \in Unread(o)
    <3>1. Unread(o) \cup {t} = Unread(o)
      BY <2>1
    <3>2. Cardinality(Unread(o) \cup {t}) = Cardinality(Unread(o))
      BY <3>1, Zenon
    <3> QED
      BY <1>2, <3>2
  <2>2. CASE t \notin Unread(o)
    BY <1>1, <1>2, <2>2, FS_AddElement
  <2> QED
    BY <2>1, <2>2
<1> QED
  BY <1>1, <1>2, <1>3, <1>4, FS_RemoveElement

\* A charge for an extraction adds one to what has been charged.
LEMMA ExtractionsGrow ==
  ASSUME TypeOK, NEW t \in Tasks, run[t].doc \in Docs, Allowed(t, "ocr"), Charge(t, "ocr"),
         NEW o \in Owners, IsFiniteSet(Extractions(o))
  PROVE  /\ User(t) # o => Extractions(o)' = Extractions(o)
         /\ IsFiniteSet(Extractions(o)') /\ Cardinality(Extractions(o)') \in Nat
         /\ Cardinality(Extractions(o)') <= Cardinality(Extractions(o)) + 1
<1> DEFINE n == count[<<o, "ocr", today>>] + 1
           new == <<today, n>>
<1>1. /\ today \in Days
      /\ \A d \in Days : count[<<o, "ocr", d>>] \in Nat
  BY DEF TypeOK, Resources
<1>2. \A d \in Days : count'[<<o, "ocr", d>>] =
         IF User(t) = o /\ d = today THEN count[<<o, "ocr", d>>] + 1
                                     ELSE count[<<o, "ocr", d>>]
  BY ChargeStep DEF Resources
<1>3. ASSUME User(t) # o PROVE Extractions(o)' = Extractions(o)
  BY <1>2, <1>3 DEF Extractions
<1>4. ASSUME User(t) = o PROVE Extractions(o)' = Extractions(o) \cup {new}
  <2>1. ASSUME NEW d \in Days
        PROVE  1..count'[<<o, "ocr", d>>] = IF d = today THEN (1..count[<<o, "ocr", d>>]) \cup {n}
                                            ELSE 1..count[<<o, "ocr", d>>]
    <3>1. CASE d = today
      <4>1. count[<<o, "ocr", d>>] \in Nat /\ n = count[<<o, "ocr", d>>] + 1
        BY <1>1, <3>1
      <4>2. count'[<<o, "ocr", d>>] = n
        BY <1>2, <1>4, <3>1
      <4> HIDE DEF n
      <4>3. 1..n = (1..count[<<o, "ocr", d>>]) \cup {n}
        BY <4>1
      <4> QED
        BY <3>1, <4>2, <4>3
    <3>2. CASE d # today
      BY <1>2, <3>2
    <3> QED
      BY <3>1, <3>2
  <2> DEFINE Old(d) == 1..count[<<o, "ocr", d>>]
             New(d) == 1..count'[<<o, "ocr", d>>]
  <2>2. New(today) = Old(today) \cup {n} /\ \A d \in Days \ {today} : New(d) = Old(d)
    BY <1>1, <2>1
  <2>3. /\ Extractions(o) = UNION {{d} \X Old(d) : d \in Days}
        /\ Extractions(o)' = UNION {{d} \X New(d) : d \in Days}
    BY DEF Extractions
  <2> HIDE DEF n, Old, New
  <2>4. ASSUME NEW x
        PROVE  /\ x \in UNION {{d} \X Old(d) : d \in Days} <=>
                     \E d \in Days : \E i \in Old(d) : x = <<d, i>>
               /\ x \in UNION {{d} \X New(d) : d \in Days} <=>
                     \E d \in Days : \E i \in New(d) : x = <<d, i>>
    OBVIOUS
  <2>5. ASSUME NEW x, \E d \in Days : \E i \in New(d) : x = <<d, i>>
        PROVE  (\E d \in Days : \E i \in Old(d) : x = <<d, i>>) \/ x = <<today, n>>
    <3>1. PICK d \in Days : \E i \in New(d) : x = <<d, i>>
      BY <2>5
    <3>2. PICK i \in New(d) : x = <<d, i>>
      BY <3>1
    <3>3. CASE d = today
      BY <2>2, <3>2, <3>3
    <3>4. CASE d # today
      BY <2>2, <3>2, <3>4
    <3> QED
      BY <3>3, <3>4
  <2>6. ASSUME NEW x, (\E d \in Days : \E i \in Old(d) : x = <<d, i>>) \/ x = <<today, n>>
        PROVE  \E d \in Days : \E i \in New(d) : x = <<d, i>>
    <3>1. CASE x = <<today, n>>
      <4>1. n \in New(today)
        BY <2>2
      <4> QED
        BY <1>1, <3>1, <4>1
    <3>2. CASE \E d \in Days : \E i \in Old(d) : x = <<d, i>>
      <4>1. PICK d \in Days : \E i \in Old(d) : x = <<d, i>>
        BY <3>2
      <4>2. Old(d) \subseteq New(d)
        BY <2>2
      <4> QED
        BY <4>1, <4>2
    <3> QED
      BY <2>6, <3>1, <3>2
  <2> DEFINE OldPairs == UNION {{d} \X Old(d) : d \in Days}
             NewPairs == UNION {{d} \X New(d) : d \in Days}
  <2>7. \A x : x \in NewPairs <=> x \in OldPairs \/ x = <<today, n>>
    BY <2>4, <2>5, <2>6
  <2> HIDE DEF OldPairs, NewPairs
  <2>8. NewPairs = OldPairs \cup {<<today, n>>}
    BY <2>7
  <2> QED
    BY <2>3, <2>8 DEF OldPairs, NewPairs
<1> HIDE DEF new
<1>5. Cardinality(Extractions(o)) \in Nat
  BY FS_CardinalityType
<1>6. CASE User(t) = o
  <2>1. CASE new \in Extractions(o)
    <3>1. Extractions(o)' = Extractions(o)
      BY <1>4, <1>6, <2>1
    <3> QED
      BY <1>5, <1>6, <3>1
  <2>2. CASE new \notin Extractions(o)
    BY <1>4, <1>5, <1>6, <2>2, FS_AddElement
  <2> QED
    BY <2>1, <2>2
<1>7. CASE User(t) # o
  BY <1>3, <1>5, <1>7
<1> QED
  BY <1>3, <1>6, <1>7

\* A run never forgets that it has extracted, and is begun as one that has not.
LEMMA UnreadStep ==
  ASSUME TypeOK, ExtractsInv, [Next]_vars
  PROVE  /\ \A t \in Tasks : At(t, "identify")' => ~run'[t].extracted
         /\ \A o \in Owners : /\ Cardinality(Unread(o)') \in Nat /\ runs'[o] \in Nat
                              /\ Cardinality(Unread(o)') + runs[o]
                                    <= Cardinality(Unread(o)) + runs'[o]
<1>1. /\ \A o \in Owners : runs[o] \in Nat
      /\ \A t \in Tasks : At(t, "identify") => ~run[t].extracted
  BY DEF TypeOK, ExtractsInv
<1> DEFINE Early == \A t \in Tasks : At(t, "identify")' => ~run'[t].extracted
           Fewer == \A o \in Owners :
                       /\ Cardinality(Unread(o)') \in Nat /\ runs'[o] \in Nat
                       /\ Cardinality(Unread(o)') + runs[o]
                             <= Cardinality(Unread(o)) + runs'[o]
<1>2. ASSUME NEW t \in Tasks, NEW new, Becomes(t, new), new.pc # "identify", runs' = runs,
             new.pc \in PC => /\ run[t].pc \in PC /\ new.doc = run[t].doc
                              /\ run[t].extracted => new.extracted
      PROVE  Early /\ Fewer
  <2>1. Early
    BY <1>1, <1>2 DEF Becomes, At
  <2>2. ASSUME NEW o \in Owners PROVE Unread(o)' \subseteq Unread(o)
    <3>1. Unread(o)' = IF new.pc \in PC /\ ~new.extracted /\ Owner[new.doc] = o
                       THEN Unread(o) \cup {t} ELSE Unread(o) \ {t}
      BY <1>2, UnreadMove
    <3>2. new.pc \in PC /\ ~new.extracted /\ Owner[new.doc] = o => t \in Unread(o)
      BY <1>2 DEF Unread, User, Doc
    <3> QED
      BY <3>1, <3>2
  <2>3. Fewer
    <3>1. ASSUME NEW o \in Owners
          PROVE  /\ Cardinality(Unread(o)') \in Nat /\ Cardinality(Unread(o)) \in Nat
                 /\ Cardinality(Unread(o)') <= Cardinality(Unread(o))
      BY <2>2, UnreadCounts
    <3> QED
      BY <1>1, <1>2, <3>1
  <2> QED
    BY <2>1, <2>3
<1>3. ASSUME NEW t \in Tasks, NEW d \in Docs, Begin(t, d)
      PROVE  Early /\ Fewer
  <2>1. PICK new : Becomes(t, new) /\ ~new.extracted /\ new.doc = d
    BY <1>3, Begins
  <2>2. Early
    BY <1>1, <2>1 DEF Becomes, At
  <2>3. /\ Owner[d] \in Owners \cup {NoOwner} /\ runs \in [Owners \cup {NoOwner} -> Nat]
        /\ runs' = [runs EXCEPT ![Owner[d]] = runs[Owner[d]] + 1]
    BY <1>3, VerificationAssumption DEF Begin, TypeOK
  <2>4. ASSUME NEW o \in Owners
        PROVE  /\ Cardinality(Unread(o)') \in Nat /\ runs'[o] \in Nat
               /\ Cardinality(Unread(o)') + runs[o] <= Cardinality(Unread(o)) + runs'[o]
    <3>1. \/ Unread(o)' = Unread(o) \cup {t} /\ Owner[d] = o
          \/ Unread(o)' \subseteq Unread(o)
      BY <2>1, UnreadMove
    <3>2. /\ runs'[o] \in Nat /\ runs[o] \in Nat
          /\ runs'[o] = IF Owner[d] = o THEN runs[o] + 1 ELSE runs[o]
      BY <2>3
    <3>3. CASE Unread(o)' = Unread(o) \cup {t} /\ Owner[d] = o
      <4>1. /\ Cardinality(Unread(o)') \in Nat /\ Cardinality(Unread(o)) \in Nat
            /\ Cardinality(Unread(o)') <= Cardinality(Unread(o)) + 1
        BY <3>3, UnreadCounts
      <4> QED
        BY <3>2, <3>3, <4>1
    <3>4. CASE Unread(o)' \subseteq Unread(o)
      BY <3>2, <3>4, UnreadCounts
    <3> QED
      BY <3>1, <3>3, <3>4
  <2> QED
    BY <2>2, <2>4
<1>4. ASSUME runs' = runs, run' = run \/ \A t \in Tasks : run'[t] = Idle
      PROVE  Early /\ Fewer
  <2>1. Early
    BY <1>1, <1>4 DEF At, Idle
  <2>2. ASSUME NEW o \in Owners PROVE Unread(o)' \subseteq Unread(o)
    BY <1>4 DEF Unread, User, Doc, Idle, PC
  <2>3. Fewer
    <3>1. ASSUME NEW o \in Owners
          PROVE  /\ Cardinality(Unread(o)') \in Nat /\ Cardinality(Unread(o)) \in Nat
                 /\ Cardinality(Unread(o)') <= Cardinality(Unread(o))
      BY <2>2, UnreadCounts
    <3> QED
      BY <1>1, <1>4, <3>1
  <2> QED
    BY <2>1, <2>3
<1> HIDE DEF Early, Fewer
<1>5. ASSUME NEW t \in Tasks, NEW new, GoesOn(t, new), run[t].pc \in PC, runs' = runs
      PROVE  Early /\ Fewer
  BY <1>2, <1>5 DEF GoesOn
<1>6. ASSUME NEW t \in Tasks, Onward(t) \/ \E n \in 1..2 : ReserveCall(t, n)
      PROVE  Early /\ Fewer
  <2>1. run[t].pc \in PC /\ runs' = runs
    BY <1>6, StillAtWork, RowsStay
  <2>2. \E new : GoesOn(t, new)
    BY <1>6, OnwardMove, ReserveMove
  <2> QED
    BY <1>5, <2>1, <2>2
<1>7. ASSUME NEW t \in Tasks, Inward(t)
      PROVE  Early /\ Fewer
  <2>1. PICK new : Becomes(t, new) /\ new.pc = "finish"
    BY <1>7, InwardMove DEF Closes
  <2>2. runs' = runs
    BY <1>7, RowsStay
  <2> QED
    BY <1>2, <2>1, <2>2 DEF PC
<1>8. ASSUME NEW t \in Tasks, Ends(t)
      PROVE  Early /\ Fewer
  <2>1. Becomes(t, Idle) /\ runs' = runs
    BY <1>8, EndMove DEF Ends, Finish, ExtractFails, FinishFails, Abandon
  <2> QED
    BY <1>2, <2>1 DEF Idle, PC
<1>9. ASSUME (\E d \in Docs, k \in Keys \cup {NoKey} : Save(d, k)) \/ Midnight \/ UNCHANGED vars
      PROVE  Early /\ Fewer
  BY <1>4, <1>9 DEF Save, Midnight, vars
<1>10. ASSUME Crash PROVE Early /\ Fewer
  BY <1>4, <1>10 DEF Crash
<1>11. Early /\ Fewer
  BY <1>3, <1>6, <1>7, <1>8, <1>9, <1>10, StepKinds
<1> QED
  BY <1>11 DEF Early, Fewer

\* The step that charges for an extraction makes its run one that has extracted.
LEMMA ReadsMove ==
  ASSUME TypeOK, ExtractsInv, NEW t \in Tasks, Reads(t), run[t].doc \in Docs
  PROVE  /\ run[t].pc \in PC /\ ~run[t].extracted /\ runs' = runs
         /\ \E new : Becomes(t, new) /\ ~(new.pc \in PC /\ ~new.extracted)
<1>1. run[t].pc \in PC /\ ~run[t].extracted /\ runs' = runs
  BY DEF Reads, IdentifyByOcr, Extract, ExtractFails, ExtractsInv, At, PC
<1>2. run[t] \in Run
  BY <1>1, AtWork
<1>3. ASSUME NEW new \in Run, run' = [run EXCEPT ![t] = new], new.extracted
      PROVE  \E x : Becomes(t, x) /\ ~(x.pc \in PC /\ ~x.extracted)
  BY <1>3, Assigned
<1>4. CASE IdentifyByOcr(t)
  <2>1. PICK read \in {Key[Doc(t)], NoKey} :
          run' = [run EXCEPT ![t].pc = "lookup", ![t].extracted = TRUE,
                             ![t].cand = IF @ = NoKey THEN read ELSE @]
    BY <1>4 DEF IdentifyByOcr
  <2> DEFINE c == IF run[t].cand = NoKey THEN read ELSE run[t].cand
             y == [run[t] EXCEPT !.pc = "lookup", !.extracted = TRUE, !.cand = c]
  <2>2. c \in Keys \cup {NoKey}
    BY <1>2 DEF Doc, Keys, Run
  <2> HIDE DEF c
  <2>3. y \in Run /\ y.extracted
    BY <1>2, <2>2 DEF Run, PC
  <2>4. run' = [run EXCEPT ![t] = y]
    BY <2>1 DEF TypeOK, c
  <2> HIDE DEF y
  <2> QED
    BY <1>1, <1>3, <2>3, <2>4
<1>5. CASE Extract(t) /\ run[t].config.llm /\ run[t].config.ready
  <2> DEFINE y == [run[t] EXCEPT !.pc = "llm", !.extracted = TRUE]
  <2>1. y \in Run /\ y.extracted
    BY <1>2 DEF Run, PC
  <2>2. run' = [run EXCEPT ![t] = y]
    BY <1>5 DEF Extract, TypeOK
  <2> HIDE DEF y
  <2> QED
    BY <1>1, <1>3, <2>1, <2>2
<1>6. CASE Extract(t) /\ ~(run[t].config.llm /\ run[t].config.ready)
  <2>1. PICK new : Becomes(t, new) /\ new.pc = "finish"
    BY <1>6, InwardMove DEF Inward, Closes
  <2> QED
    BY <1>1, <2>1 DEF PC
<1>7. CASE ExtractFails(t)
  <2>1. Becomes(t, Idle)
    BY <1>7, EndMove DEF Ends
  <2> QED
    BY <1>1, <2>1 DEF Idle, PC
<1> QED
  BY <1>1, <1>4, <1>5, <1>6, <1>7 DEF Reads

\* Every step keeps it: a charge spends what the run was good for.
LEMMA ExtractsStep ==
  ASSUME TypeOK, ExtractsInv, [Next]_vars
  PROVE  ExtractsInv'
<1>1. \A t \in Tasks : At(t, "identify")' => ~run'[t].extracted
  BY UnreadStep
<1>2. ASSUME NEW o \in Owners
      PROVE  /\ IsFiniteSet(Extractions(o)')
             /\ Cardinality(Extractions(o)') + Cardinality(Unread(o)') <= runs'[o]
  <2>1. /\ IsFiniteSet(Extractions(o)) /\ Cardinality(Extractions(o)) \in Nat
        /\ Cardinality(Unread(o)) \in Nat /\ runs[o] \in Nat
        /\ Cardinality(Extractions(o)) + Cardinality(Unread(o)) <= runs[o]
    BY FS_CardinalityType, UnreadCounts DEF ExtractsInv, TypeOK
  <2>2. CASE Extractions(o)' = Extractions(o)
    <3>1. /\ Cardinality(Unread(o)') \in Nat /\ runs'[o] \in Nat
          /\ Cardinality(Unread(o)') + runs[o] <= Cardinality(Unread(o)) + runs'[o]
      BY UnreadStep
    <3>2. IsFiniteSet(Extractions(o)') /\ Cardinality(Extractions(o)') = Cardinality(Extractions(o))
      BY <2>1, <2>2
    <3> HIDE DEF Extractions, Unread
    <3> QED
      BY <2>1, <3>1, <3>2
  <2>3. ASSUME NEW t \in Tasks, run[t].doc \in Docs, Reads(t), Allowed(t, "ocr"),
               Charge(t, "ocr"), User(t) = o
        PROVE  /\ IsFiniteSet(Extractions(o)')
               /\ Cardinality(Extractions(o)') + Cardinality(Unread(o)') <= runs'[o]
    <3>1. /\ IsFiniteSet(Extractions(o)') /\ Cardinality(Extractions(o)') \in Nat
          /\ Cardinality(Extractions(o)') <= Cardinality(Extractions(o)) + 1
      BY <2>1, <2>3, ExtractionsGrow
    <3>2. /\ run[t].pc \in PC /\ ~run[t].extracted /\ runs' = runs
          /\ \E new : Becomes(t, new) /\ ~(new.pc \in PC /\ ~new.extracted)
      BY <2>3, ReadsMove
    <3>3. t \in Unread(o)
      BY <2>3, <3>2 DEF Unread
    <3>4. Unread(o)' = Unread(o) \ {t}
      BY <3>2, UnreadMove
    <3>5. Cardinality(Unread(o)') = Cardinality(Unread(o)) - 1
      BY <3>3, <3>4, UnreadCounts
    <3> QED
      BY <2>1, <3>1, <3>2, <3>5
  <2>4. ASSUME \A d \in Days : count'[<<o, "ocr", d>>] = count[<<o, "ocr", d>>]
        PROVE  Extractions(o)' = Extractions(o)
    BY <2>4 DEF Extractions
  <2>5. ASSUME NEW t \in Tasks, run[t].doc \in Docs, NEW r \in {"llm", "tax"},
               Allowed(t, r), Charge(t, r)
        PROVE  Extractions(o)' = Extractions(o)
    <3>1. \A d \in Days : count'[<<o, "ocr", d>>] = count[<<o, "ocr", d>>]
      BY <2>5, ChargeStep DEF Resources
    <3> QED
      BY <2>4, <3>1
  <2>6. ASSUME NEW t \in Tasks, run[t].doc \in Docs, Allowed(t, "ocr"), Charge(t, "ocr"),
               User(t) # o
        PROVE  Extractions(o)' = Extractions(o)
    BY <2>1, <2>6, ExtractionsGrow
  <2>7. CASE count' = count
    BY <2>2, <2>4, <2>7
  <2> QED
    BY <2>2, <2>3, <2>5, <2>6, <2>7, WhoCharges
<1> QED
  BY <1>1, <1>2 DEF ExtractsInv, At

\* What is reserved is what is used: provider calls exactly, extractions at most
\* once for each run, by whatever way it comes to need one, and however the
\* runs of an owner overlap, fail or are cut short.
THEOREM ChargesTheorem == Spec => []ChargedExactly
<1>1. Init => ExtractsInv
  <2> SUFFICES ASSUME Init PROVE ExtractsInv
    OBVIOUS
  <2>1. \A t \in Tasks : run[t].pc = "idle"
    BY DEF Init, Idle
  <2>2. ASSUME NEW o \in Owners
        PROVE  /\ IsFiniteSet(Extractions(o))
               /\ Cardinality(Extractions(o)) + Cardinality(Unread(o)) <= runs[o]
    <3>1. \A d \in Days : count[<<o, "ocr", d>>] = 0
      BY DEF Init, Resources
    <3>2. Extractions(o) = {}
      <4>1. \A d \in Days : 1..count[<<o, "ocr", d>>] = {}
        BY <3>1
      <4> QED
        BY <4>1 DEF Extractions
    <3>3. Unread(o) = {}
      BY <2>1 DEF Unread, PC
    <3>4. runs[o] = 0
      BY DEF Init
    <3> QED
      BY <3>2, <3>3, <3>4, FS_EmptySet
  <2> QED
    BY <2>1, <2>2 DEF ExtractsInv, At
<1>2. TypeOK /\ ExtractsInv /\ [Next]_vars => ExtractsInv'
  BY ExtractsStep
<1>3. TypeOK /\ ExtractsInv => ExtractionsCharged
  <2> SUFFICES ASSUME TypeOK, ExtractsInv, NEW o \in Owners
               PROVE  Cardinality(Extractions(o)) <= runs[o]
    BY DEF ExtractionsCharged
  <2>1. /\ IsFiniteSet(Extractions(o)) /\ runs[o] \in Nat
        /\ Cardinality(Extractions(o)) + Cardinality(Unread(o)) <= runs[o]
    BY DEF ExtractsInv, TypeOK
  <2>2. Cardinality(Extractions(o)) \in Nat /\ Cardinality(Unread(o)) \in Nat
    BY <2>1, FS_CardinalityType, UnreadCounts
  <2> QED
    BY <2>1, <2>2
<1>4. CallsCharged /\ ExtractionsCharged => ChargedExactly
  BY DEF ChargedExactly
<1> QED
  BY <1>1, <1>2, <1>3, <1>4, VerificationTypes, CallsTheorem, PTL DEF Spec
=============================================================================
