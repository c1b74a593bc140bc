-------------------------------- MODULE SignIn --------------------------------
(***************************************************************************)
(* The password form under attack: the sliding-window limiter and the table  *)
(* of failed sign-ins of app/security.py, the picture code of                *)
(* app/services/captcha_service.py and login_submit of app/main.py, which     *)
(* puts them together.                                                      *)
(*                                                                         *)
(* login_submit does not await after it has read the form, and the limiter   *)
(* and the failure table are only touched by such handlers: a sign-in is one *)
(* action.  Both tables live in memory, are ordered by last use and forget    *)
(* their oldest entry when they are full.  The rest of the session is in      *)
(* Accounts; the names that both would have are longer here.                 *)
(***************************************************************************)
EXTENDS Integers, FiniteSets

CONSTANTS
    Browsers,           \* each with its session cookie
    Addresses,          \* what client_ip finds; a browser may move
    Names,              \* user names typed into the form
    Forms,              \* keys of the other limited forms (register, tests)
    Limit, Window,      \* per key: calls that pass, and the seconds they count
    MaxBuckets, Sweep,  \* _THROTTLE_MAX_BUCKETS, _THROTTLE_CLEANUP_INTERVAL
    Threshold,          \* CAPTCHA_FAILURE_THRESHOLD
    FailMax, FailWindow,\* _FAIL_MAX_BUCKETS, _FAIL_WINDOW
    CodeLife,           \* CAPTCHA_EXPIRY_SECONDS
    MaxNow,             \* bound: the clock stops here
    NoCode              \* no picture code in the session

FailKeys == Addresses \cup Names
Keys == FailKeys \cup Forms

ASSUME SignInAssumption ==
    /\ Limit \in [Keys -> Nat \ {0}] /\ Window \in [Keys -> Nat \ {0}]
    /\ {MaxBuckets, Threshold, FailMax, FailWindow} \subseteq Nat \ {0}
    /\ {Sweep, CodeLife, MaxNow} \subseteq Nat
    /\ NoCode \notin Nat
    /\ Addresses \cap Names = {} \* the prefixes of the keys

VARIABLES
    now,        \* the clock
    table,      \* _throttle
    nextSweep,  \* _throttle_next_cleanup
    fails,      \* _fail_counts
    session,    \* session[b]: require_captcha, and when the code was drawn
    calls,      \* history: the calls of each key that passed in its window
    guesses     \* history: wrong passwords looked at without a picture code

server == <<table, nextSweep, fails>>
signInVars == <<now, server, session, calls, guesses>>

Clock == 0..MaxNow

\* A list of times: the members <<t, n>> are the n-th, m-th, ... of time t.
Stamps == SUBSET (Clock \X Nat)
Stamped(s) == s \cup {<<now, CHOOSE n \in 0..Cardinality(s) : <<now, n>> \notin s>>}
Within(s, w) == {x \in s : now - x[1] < w}

\* An OrderedDict by the time of use: entry[k], which is in the table until
\* another time than 0, and since[k], the keys used since k was.
Bucket == [stamps : Stamps, until : Nat]
Counter == [count : 0..Threshold, until : Nat]
NoBucket == [stamps |-> {}, until |-> 0]
NoCounter == [count |-> 0, until |-> 0]
Empty(K, none) == [entry |-> [k \in K |-> none], since |-> [k \in K |-> {}]]

Held(t) == {k \in DOMAIN t.entry : t.entry[k].until # 0}
Oldest(t) == CHOOSE k \in Held(t) : Held(t) \ {k} \subseteq t.since[k]
Used(t, k) == [j \in DOMAIN t.since |-> IF j = k THEN {} ELSE t.since[j] \cup {k}]

Blank == [asked |-> FALSE, code |-> NoCode]

SignInTypeOK ==
    /\ now \in Clock
    /\ nextSweep \in 0..(MaxNow + Sweep)
    /\ table \in [entry : [Keys -> Bucket], since : [Keys -> SUBSET Keys]]
    /\ IsFiniteSet(Held(table)) /\ Cardinality(Held(table)) <= MaxBuckets
    /\ fails \in [entry : [FailKeys -> Counter], since : [FailKeys -> SUBSET FailKeys]]
    /\ session \in [Browsers -> [asked : BOOLEAN, code : Clock \cup {NoCode}]]
    /\ calls \in [Keys -> Stamps] /\ guesses \in [FailKeys -> Stamps]

SignInInit ==
    /\ now = 0
    /\ table = Empty(Keys, NoBucket) /\ nextSweep = 0 /\ fails = Empty(FailKeys, NoCounter)
    /\ session = [b \in Browsers |-> Blank]
    /\ calls = [k \in Keys |-> {}] /\ guesses = [k \in FailKeys |-> {}]

-----------------------------------------------------------------------------
(* throttle_limit                                                           *)

\* The periodic removal of what has expired.
Swept(t) ==
    IF now < nextSweep THEN t
    ELSE [t EXCEPT !.entry = [k \in Keys |-> IF t.entry[k].until > now THEN t.entry[k]
                                              ELSE NoBucket]]

Fresh(t, k) == Within(t.entry[k].stamps, Window[k])
Full(t, k) == Cardinality(Fresh(t, k)) >= Limit[k]

\* Mutant: nothing is evicted.
RoomWithoutEviction(t, k) == t.entry

\* The entries with room for one of k.
Room(t, k) ==
    IF k \notin Held(t) /\ Cardinality(Held(t)) >= MaxBuckets
    THEN [t.entry EXCEPT ![Oldest(t)] = NoBucket] ELSE t.entry

\* Mutant: a refused call counts like one that passed.
CalledAlways(t, k) ==
    [entry |-> [Room(t, k) EXCEPT ![k] = [until |-> now + Window[k],
                                         stamps |-> Stamped(Fresh(t, k))]],
     since |-> Used(t, k)]

\* The table after a call of k: the entry is the most recent, and only a call
\* that passes is stamped.
Called(t, k) ==
    [entry |-> [Room(t, k) EXCEPT ![k] =
                  [until |-> now + Window[k],
                   stamps |-> IF Full(t, k) THEN Fresh(t, k) ELSE Stamped(Fresh(t, k))]],
     since |-> Used(t, k)]

SweepDone == nextSweep' = IF now >= nextSweep THEN now + Sweep ELSE nextSweep

\* What the history makes of a call: which calls passed, as long as the table may
\* not have forgotten them for MaxBuckets later ones.
Note(h, t, k) ==
    LET u == Called(t, k)
        excused == {j \in Held(t) \ Held(u) : Cardinality(u.since[j]) >= MaxBuckets}
    IN  [j \in Keys |-> IF j \in excused THEN {}
                        ELSE IF j = k /\ ~Full(t, k) THEN Stamped(h[j]) ELSE h[j]]

-----------------------------------------------------------------------------
(* The failure table                                                        *)

Failures(f, k) == IF f.entry[k].until > now THEN f.entry[k].count ELSE 0

\* Counts beyond Threshold are not told apart.
Bump(f, k) ==
    [entry |-> [f.entry EXCEPT ![k] =
                  [until |-> now + FailWindow,
                   count |-> IF Failures(f, k) < Threshold THEN Failures(f, k) + 1
                             ELSE Threshold]],
     since |-> Used(f, k)]

FailRoom(f) ==
    IF Cardinality(Held(f)) >= FailMax THEN [f EXCEPT !.entry[Oldest(f)] = NoCounter] ELSE f

\* Mutant: a failure is held against the address alone.
RecordedForAddress(f, i, a) == Bump(FailRoom(f), i)

\* record_login_failure: one entry makes room, two may come.
Recorded(f, i, a) == Bump(Bump(FailRoom(f), i), a)

\* get_login_failures against the threshold.
TooManyFailures(f, K) == \E k \in K : Failures(f, k) >= Threshold

\* is_captcha_required
CaptchaRequired(b, i, a) == session[b].asked \/ TooManyFailures(fails, {i, a})

\* verify_captcha: what the browser read from its latest picture is accepted
\* while the code is young.
Solves(b, answer) ==
    /\ answer = "right" /\ session[b].code # NoCode
    /\ now - session[b].code <= CodeLife

\* The same for failures: an entry may make room once FailMax - 1 others came
\* after it.
Failed(h, i, a, unasked) ==
    LET excused == {k \in Held(fails) \ Held(FailRoom(fails)) :
                      Cardinality(fails.since[k]) >= FailMax - 1}
        kept == [k \in FailKeys |-> IF k \in excused THEN {} ELSE h[k]]
    IN  [k \in FailKeys |-> IF unasked /\ k \in {i, a} THEN Stamped(kept[k]) ELSE kept[k]]

-----------------------------------------------------------------------------
(* login_submit by its four outcomes                                        *)

\* Both keys are counted, whatever the first one says.
Counted(i, a) == Called(Called(Swept(table), i), a)
Limited(i, a) == \/ Full(Swept(table), i)
                 \/ Full(Called(Swept(table), i), a)
Noted(i, a) == Note(Note(calls, Swept(table), i), Called(Swept(table), i), a)

RefuseLimited(i, a) ==
    /\ Limited(i, a)
    /\ table' = Counted(i, a) /\ calls' = Noted(i, a) /\ SweepDone
    /\ UNCHANGED <<now, fails, session, guesses>>

\* An empty answer leaves the code in the session, any other one takes it out.
\* An earlier cookie may still hold it (OldCookie).
RefuseCaptcha(b, i, a, answer) ==
    /\ ~Limited(i, a)
    /\ CaptchaRequired(b, i, a) /\ ~Solves(b, answer)
    /\ table' = Counted(i, a) /\ calls' = Noted(i, a) /\ SweepDone
    /\ fails' = Recorded(fails, i, a)
    /\ guesses' = Failed(guesses, i, a, FALSE)
    /\ session' = [session EXCEPT ![b] =
                     [asked |-> TRUE, code |-> IF answer = "none" THEN @.code ELSE NoCode]]
    /\ UNCHANGED now

RefusePassword(b, i, a, answer) ==
    /\ ~Limited(i, a)
    /\ CaptchaRequired(b, i, a) => Solves(b, answer)
    /\ table' = Counted(i, a) /\ calls' = Noted(i, a) /\ SweepDone
    /\ fails' = Recorded(fails, i, a)
    /\ guesses' = Failed(guesses, i, a, ~CaptchaRequired(b, i, a))
    /\ session' = [session EXCEPT ![b] =
                     [asked |-> @.asked \/ TooManyFailures(fails', {i}),
                      code |-> IF CaptchaRequired(b, i, a) THEN NoCode ELSE @.code]]
    /\ UNCHANGED now

\* throttle_reset and reset_login_failures.
Without(t, K, none) ==
    [t EXCEPT !.entry = [k \in DOMAIN t.entry |-> IF k \in K THEN none ELSE t.entry[k]]]

\* start_user_session begins with an empty session.
Accept(b, i, a, answer) ==
    /\ ~Limited(i, a)
    /\ CaptchaRequired(b, i, a) => Solves(b, answer)
    /\ table' = Without(Counted(i, a), {i, a}, NoBucket) /\ SweepDone
    /\ fails' = Without(fails, {i, a}, NoCounter)
    /\ session' = [session EXCEPT ![b] = Blank]
    /\ calls' = [Noted(i, a) EXCEPT ![i] = {}, ![a] = {}]
    /\ guesses' = [guesses EXCEPT ![i] = {}, ![a] = {}]
    /\ UNCHANGED now

-----------------------------------------------------------------------------
(* Around it                                                                *)

\* Any other limited form: its limiter key alone.
CallForm(k) ==
    /\ table' = Called(Swept(table), k) /\ SweepDone
    /\ calls' = Note(calls, Swept(table), k)
    /\ UNCHANGED <<now, fails, session, guesses>>

\* auth_captcha: a new picture replaces the code of the last one.
DrawCode(b) ==
    /\ session' = [session EXCEPT ![b].code = now]
    /\ UNCHANGED <<now, server, calls, guesses>>

\* logout, or a browser that starts without its cookie.
LeaveSession(b) ==
    /\ session' = [session EXCEPT ![b] = Blank]
    /\ UNCHANGED <<now, server, calls, guesses>>

\* The session is a signed cookie that the server keeps no copy of: a response
\* that is overtaken by a later one, or a restored browser, brings back what the
\* cookie held at an earlier time, an answered code included; any code drawn so
\* far may be among its earlier ones.
OldCookie(b) ==
    /\ \E old \in [asked : {FALSE, session[b].asked}, code : (0..now) \cup {NoCode}] :
           session' = [session EXCEPT ![b] = old]
    /\ UNCHANGED <<now, server, calls, guesses>>

\* The histories keep what the windows still cover.
Wait ==
    /\ now < MaxNow
    /\ now' = now + 1
    /\ calls' = [k \in Keys |-> {x \in calls[k] : now' - x[1] < Window[k]}]
    /\ guesses' = [k \in FailKeys |-> {x \in guesses[k] : now' - x[1] < FailWindow}]
    /\ UNCHANGED <<server, session>>

\* A new process has empty tables; the sessions are the browsers' cookies.
Restart ==
    /\ table' = Empty(Keys, NoBucket) /\ nextSweep' = 0 /\ fails' = Empty(FailKeys, NoCounter)
    /\ calls' = [k \in Keys |-> {}] /\ guesses' = [k \in FailKeys |-> {}]
    /\ UNCHANGED <<now, session>>

SignInNext ==
    \/ \E i \in Addresses, a \in Names :
         \/ RefuseLimited(i, a)
         \/ \E b \in Browsers, answer \in {"none", "wrong", "right"} :
              \/ RefuseCaptcha(b, i, a, answer)
              \/ RefusePassword(b, i, a, answer)
              \/ Accept(b, i, a, answer)
    \/ \E k \in Forms : CallForm(k)
    \/ \E b \in Browsers : DrawCode(b) \/ LeaveSession(b) \/ OldCookie(b)
    \/ Wait \/ Restart

SignInSpec == SignInInit /\ [][SignInNext]_signInVars

-----------------------------------------------------------------------------
(* Properties                                                               *)

\* throttle_limit's promise over every order of calls, sweeps, evictions and
\* resets.  No key passes more than Limit calls in any Window, and it is refused
\* only while Limit of its own passed calls are in the window: refused calls do
\* not prolong a lockout, and other keys neither cause one nor end it, short of
\* MaxBuckets others called after it, when the table may forget it.
SlidingWindow ==
    \A k \in Keys :
        /\ Cardinality(calls[k]) <= Limit[k]
        /\ Full(Swept(table), k) <=> Cardinality(calls[k]) = Limit[k]

\* At most Threshold wrong passwords for one name, and at most Threshold from
\* one address, are looked at without a solved picture in any FailWindow since
\* its last sign-in, whatever the browsers do with their cookies, short of the
\* failure table being full and all its other entries more recent.
CaptchaGate == \A k \in FailKeys : Cardinality(guesses[k]) <= Threshold
=============================================================================
