---------------------------- MODULE SettingsProofs ----------------------------
(***************************************************************************)
(* The integration settings for any keys, users, environments and values.     *)
(* What a page shows is the inverse of what its form saves, in every state;   *)
(* and since pages grow old, what the rows hold is an invariant of the rows   *)
(* and of the pages still on display together.                              *)
(***************************************************************************)
EXTENDS Settings, TLAPS

-----------------------------------------------------------------------------
(***************************************************************************)
(* Values on top of values.                                                *)
(***************************************************************************)

\* The inputs of a form that are stored: all but the masked secrets.
Kept(form) == {k \in DOMAIN form : k \in Secrets => form[k] # Mask}

\* A saved form has the row of each input that is kept, and the others' rows.
LEMMA SavedRows ==
  ASSUME NEW rows, NEW form
  PROVE  /\ DOMAIN Saved(rows, form) = Kept(form) \cup DOMAIN rows
         /\ \A k \in Kept(form) : Saved(rows, form)[k] = form[k]
         /\ \A k \in DOMAIN rows \ Kept(form) : Saved(rows, form)[k] = rows[k]
<1> DEFINE posted == [k \in Kept(form) |-> form[k]]
<1>1. Saved(rows, form) = Overlay(posted, rows)
  BY DEF Saved, Kept
<1>2. DOMAIN posted = Kept(form) /\ \A k \in Kept(form) : posted[k] = form[k]
  OBVIOUS
<1> HIDE DEF posted
<1> QED
  BY <1>1, <1>2 DEF Overlay

\* The common values: the environment, then the rows, then the defaults.
LEMMA CommonValues ==
  ASSUME env \in Envs, NEW g, DOMAIN g \subseteq Keys
  PROVE  /\ Common(g) = [k \in Keys |-> Common(g)[k]]
         /\ \A k \in Keys : Common(g)[k] =
               IF k \in DOMAIN env THEN env[k]
               ELSE IF k \in DOMAIN g THEN g[k] ELSE Default[k]
<1> DEFINE rows == Overlay(g, Default)
<1>1. DOMAIN env \subseteq Keys /\ DOMAIN Default = Keys
  BY SettingsAssumption
<1>2. DOMAIN g \cup DOMAIN Default = Keys
  BY <1>1
<1>3. rows = [k \in Keys |-> IF k \in DOMAIN g THEN g[k] ELSE Default[k]]
  BY <1>2 DEF Overlay
<1>4. Common(g) = Overlay(env, rows)
  BY DEF Common
<1> HIDE DEF rows
<1>5. Common(g) = [k \in Keys |-> IF k \in DOMAIN env THEN env[k] ELSE rows[k]]
  BY <1>1, <1>3, <1>4 DEF Overlay
<1> QED
  BY <1>3, <1>5

\* A member's values are the common ones, his own rows on top if he keeps a
\* configuration, and the provider switch last.
LEMMA EffectiveValues ==
  ASSUME env \in Envs, NEW g, DOMAIN g \subseteq Keys,
         NEW o, DOMAIN o \subseteq Personal, NEW t
  PROVE  /\ Effective(g, o, t) = [k \in Keys |-> Effective(g, o, t)[k]]
         /\ \A k \in Keys \ {Provider} : Effective(g, o, t)[k] =
               IF Custom(o) /\ k \in DOMAIN o THEN o[k] ELSE Common(g)[k]
         /\ Effective(g, o, t)[Provider] = IF t THEN Common(g)[Provider] ELSE Off
<1> DEFINE values == IF Custom(o) THEN Overlay(o, Common(g)) ELSE Common(g)
<1>1. Effective(g, o, t) = [values EXCEPT ![Provider] = IF t THEN @ ELSE Off]
  BY DEF Effective
<1>2. Common(g) = [k \in Keys |-> Common(g)[k]]
  BY CommonValues
<1>3. DOMAIN o \subseteq Keys /\ Provider \in Keys \ DOMAIN o
  BY SettingsAssumption DEF Keys
<1>4. values = [k \in Keys |-> IF Custom(o) /\ k \in DOMAIN o THEN o[k] ELSE Common(g)[k]]
  BY <1>2, <1>3 DEF Overlay
<1> HIDE DEF values
<1> QED
  BY <1>1, <1>3, <1>4

-----------------------------------------------------------------------------
(***************************************************************************)
(* Showing and saving are inverse.  Nothing here is about steps: it holds in *)
(* every state whose rows have keys of the right kind.                       *)
(***************************************************************************)

\* The keys of the rows are known ones.
RowKeys ==
    /\ env \in Envs /\ DOMAIN global \subseteq Keys
    /\ \A m \in Members : DOMAIN own[m] \subseteq Personal

\* The mask is never a value that somebody entered for a secret.
LEMMA EntryNeverMask ==
  ASSUME NEW u \in Users, NEW k \in Secrets, NEW v \in Entry(u, k)
  PROVE  v # Mask
BY SettingsAssumption DEF Entry

\* The admins' page as it is shown, or with one input changed.
LEMMA GlobalRoundTrip ==
  ASSUME RowKeys
  PROVE  /\ Common(Saved(global, GlobalPage)) = Common(global)
         /\ \A u \in Admins, k \in Keys : \A v \in Entry(u, k) :
               Common(Saved(global, But(GlobalPage, k, v))) =
                  IF k \in DOMAIN env THEN Common(global) ELSE But(Common(global), k, v)
<1> DEFINE C == Common(global)
<1>1. C = [k \in Keys |-> C[k]]
  BY CommonValues DEF RowKeys
<1>2. \A k \in Keys : C[k] = IF k \in DOMAIN env THEN env[k]
                             ELSE IF k \in DOMAIN global THEN global[k] ELSE Default[k]
  BY CommonValues DEF RowKeys
<1>3. GlobalPage = [k \in Keys |-> IF k \in Secrets /\ C[k] # Blank THEN Mask ELSE C[k]]
  BY <1>1 DEF GlobalPage, Masked
<1> HIDE DEF C
\* Whatever is posted for the keys: kept inputs replace what is not the environment's.
<1>4. ASSUME NEW form, DOMAIN form = Keys
      PROVE  /\ Common(Saved(global, form)) = [k \in Keys |-> Common(Saved(global, form))[k]]
             /\ \A k \in Keys : Common(Saved(global, form))[k] =
                   IF k \in Kept(form) /\ k \notin DOMAIN env THEN form[k] ELSE C[k]
  <2> DEFINE S == Saved(global, form)
  <2>1. /\ DOMAIN S = Kept(form) \cup DOMAIN global
        /\ \A k \in Kept(form) : S[k] = form[k]
        /\ \A k \in DOMAIN global \ Kept(form) : S[k] = global[k]
    BY SavedRows
  <2>2. Kept(form) \subseteq Keys
    BY <1>4 DEF Kept
  <2> HIDE DEF S
  <2>3. DOMAIN S \subseteq Keys /\ env \in Envs
    BY <2>1, <2>2 DEF RowKeys
  <2>4. /\ Common(S) = [k \in Keys |-> Common(S)[k]]
        /\ \A k \in Keys : Common(S)[k] =
              IF k \in DOMAIN env THEN env[k] ELSE IF k \in DOMAIN S THEN S[k] ELSE Default[k]
    BY <2>3, CommonValues
  <2>5. \A k \in Keys : Common(S)[k] =
           IF k \in Kept(form) /\ k \notin DOMAIN env THEN form[k] ELSE C[k]
    BY <1>2, <2>1, <2>4
  <2> QED
    BY <2>4, <2>5 DEF S
<1>5. Common(Saved(global, GlobalPage)) = C
  <2>1. DOMAIN GlobalPage = Keys /\ \A k \in Kept(GlobalPage) : GlobalPage[k] = C[k]
    BY <1>3 DEF Kept
  <2> HIDE DEF C
  <2>2. \A k \in Keys : Common(Saved(global, GlobalPage))[k] = C[k]
    BY <1>4, <2>1
  <2> QED
    BY <1>1, <1>4, <2>1, <2>2
<1>6. ASSUME NEW u \in Admins, NEW k \in Keys, NEW v \in Entry(u, k)
      PROVE  Common(Saved(global, But(GlobalPage, k, v))) =
                IF k \in DOMAIN env THEN C ELSE But(C, k, v)
  <2> DEFINE form == But(GlobalPage, k, v)
             expected == IF k \in DOMAIN env THEN C ELSE But(C, k, v)
  <2>1. k \in Secrets => v # Mask
    BY EntryNeverMask DEF Users
  <2>2. /\ DOMAIN form = Keys /\ form[k] = v
        /\ \A l \in Keys \ {k} : form[l] = GlobalPage[l]
    BY <1>3 DEF But
  <2>3. k \in Kept(form) /\ \A l \in Kept(form) \ {k} : form[l] = C[l]
    BY <1>3, <2>1, <2>2 DEF Kept
  <2>4. /\ expected = [l \in Keys |-> expected[l]]
        /\ \A l \in Keys : expected[l] = IF l = k /\ k \notin DOMAIN env THEN v ELSE C[l]
    BY <1>1 DEF But
  <2> HIDE DEF form, expected
  <2>5. \A l \in Keys : Common(Saved(global, form))[l] = expected[l]
    BY <1>4, <2>2, <2>3, <2>4
  <2>6. Common(Saved(global, form)) = expected
    BY <1>4, <2>2, <2>4, <2>5
  <2> QED
    BY <2>6 DEF form, expected
<1> QED
  BY <1>5, <1>6 DEF C

\* A member's page as it is shown, or with one input changed.
LEMMA OwnRoundTrip ==
  ASSUME RowKeys, NEW m \in Members, Custom(own[m])
  PROVE  /\ Effective(global, Saved(own[m], OwnPage(m).fields), tax[m])
               = Effective(global, own[m], tax[m])
         /\ \A k \in Personal : \A v \in Entry(m, k) :
               Effective(global, Saved(own[m], But(OwnPage(m).fields, k, v)), tax[m])
                  = But(Effective(global, own[m], tax[m]), k, v)
<1> DEFINE o == own[m]
           V == Effective(global, o, tax[m])
           page == OwnPage(m).fields
           After(form) == Effective(global, Saved(o, form), tax[m])
<1>1. /\ env \in Envs /\ DOMAIN global \subseteq Keys /\ DOMAIN o \subseteq Personal
      /\ Personal \subseteq Keys \ {Provider} /\ Provider \in Keys /\ Custom(o)
      /\ Enable \in Personal \ Secrets
  BY SettingsAssumption DEF RowKeys, Keys
<1>2. V = [k \in Keys |-> V[k]]
  BY <1>1, EffectiveValues
<1>3. /\ \A k \in Keys \ {Provider} : V[k] = IF k \in DOMAIN o THEN o[k] ELSE Common(global)[k]
      /\ V[Provider] = IF tax[m] THEN Common(global)[Provider] ELSE Off
  BY <1>1, EffectiveValues
<1>4. page = [k \in Personal |-> IF k \in Secrets /\ V[k] # Blank THEN Mask ELSE V[k]]
  BY <1>1, <1>2 DEF OwnPage, Masked
<1> HIDE DEF V, page
<1>5. ASSUME NEW form, DOMAIN form = Personal
      PROVE  /\ After(form) = [k \in Keys |-> After(form)[k]]
             /\ \A k \in Keys : After(form)[k] = IF k \in Kept(form) THEN form[k] ELSE V[k]
  <2> DEFINE S == Saved(o, form)
  <2>1. /\ DOMAIN S = Kept(form) \cup DOMAIN o
        /\ \A k \in Kept(form) : S[k] = form[k]
        /\ \A k \in DOMAIN o \ Kept(form) : S[k] = o[k]
    BY SavedRows
  <2>2. Kept(form) \subseteq Personal
    BY <1>5 DEF Kept
  <2> HIDE DEF S, o
  <2>3. DOMAIN S \subseteq Personal /\ Custom(S)
    BY <1>1, <2>1, <2>2 DEF Custom
  <2>4. env \in Envs /\ DOMAIN global \subseteq Keys
    BY <1>1
  <2>5. /\ Effective(global, S, tax[m]) = [k \in Keys |-> Effective(global, S, tax[m])[k]]
        /\ \A k \in Keys \ {Provider} : Effective(global, S, tax[m])[k] =
              IF Custom(S) /\ k \in DOMAIN S THEN S[k] ELSE Common(global)[k]
        /\ Effective(global, S, tax[m])[Provider] =
              IF tax[m] THEN Common(global)[Provider] ELSE Off
    BY <2>3, <2>4, EffectiveValues
  <2>6. \A k \in Keys : Effective(global, S, tax[m])[k] =
           IF k \in Kept(form) THEN form[k] ELSE V[k]
    BY <1>1, <1>3, <2>1, <2>2, <2>3, <2>5
  <2> QED
    BY <2>5, <2>6 DEF S
<1>6. After(page) = V
  <2>1. DOMAIN page = Personal /\ \A k \in Kept(page) : page[k] = V[k]
    BY <1>4 DEF Kept
  <2> HIDE DEF After
  <2>2. \A k \in Keys : After(page)[k] = V[k]
    BY <1>5, <2>1
  <2> QED
    BY <1>2, <1>5, <2>1, <2>2
<1>7. ASSUME NEW k \in Personal, NEW v \in Entry(m, k)
      PROVE  After(But(page, k, v)) = But(V, k, v)
  <2> DEFINE form == But(page, k, v)
  <2>1. k \in Secrets => v # Mask
    BY EntryNeverMask DEF Users
  <2>2. /\ DOMAIN form = Personal /\ form[k] = v
        /\ \A l \in Personal \ {k} : form[l] = page[l]
    BY <1>4 DEF But
  <2>3. k \in Kept(form) /\ \A l \in Kept(form) \ {k} : form[l] = V[l]
    BY <1>4, <2>1, <2>2 DEF Kept
  <2>4. /\ But(V, k, v) = [l \in Keys |-> But(V, k, v)[l]]
        /\ \A l \in Keys : But(V, k, v)[l] = IF l = k THEN v ELSE V[l]
    BY <1>1, <1>2 DEF But
  <2> HIDE DEF form, After
  <2>5. \A l \in Keys : After(form)[l] = But(V, k, v)[l]
    BY <1>5, <2>2, <2>3, <2>4
  <2>6. After(form) = But(V, k, v)
    BY <1>5, <2>2, <2>4, <2>5
  <2> QED
    BY <2>6 DEF form
<1> QED
  BY <1>6, <1>7 DEF V, page

\* Giving up a configuration leaves no trace.
LEMMA ClearedAway ==
  ASSUME NEW o, DOMAIN o \subseteq Personal
  PROVE  Cleared(o) = NoRows
<1>1. DOMAIN o \ Personal = {}
  OBVIOUS
<1> QED
  BY <1>1 DEF Cleared, NoRows

\* Typed keys are enough for a page to come back as it was shown.
LEMMA RowKeysRoundTrip == RowKeys => RoundTrip
<1> SUFFICES ASSUME RowKeys PROVE RoundTrip
  OBVIOUS
<1>1. ASSUME NEW m \in Members
      PROVE  Effective(Saved(global, GlobalPage), own[m], tax[m])
                = Effective(global, own[m], tax[m])
  BY GlobalRoundTrip DEF Effective
<1>2. \A m \in Members : Cleared(own[m]) = NoRows
  BY ClearedAway DEF RowKeys
<1> QED
  BY <1>1, <1>2, GlobalRoundTrip, OwnRoundTrip DEF RoundTrip

-----------------------------------------------------------------------------
(***************************************************************************)
(* The rows, and the pages that are still on display.                       *)
(***************************************************************************)

\* What an input may show: a secret only as blank or masked.
Displayable(k) == IF k \in Secrets THEN {Blank, Mask} ELSE Storable(k)
Displays(fields, K) == DOMAIN fields = K /\ \A k \in K : fields[k] \in Displayable(k)

\* What comes back from user u.
Posts(form, K, u) ==
    /\ DOMAIN form = K
    /\ \A k \in K : IF k \in Secrets THEN form[k] \in {Blank, Mask} \cup Typed[u]
                    ELSE form[k] \in Storable(k)

PageShape(shown) ==
    \/ shown.form = "global" /\ shown.user \in Admins /\ Displays(shown.page, Keys)
    \/ shown.form = "own" /\ shown.user \in Members /\ Displays(shown.page.fields, Personal)
    \/ shown.form = "bark" /\ shown.user \in Admins /\ shown.page.url \in {Blank, Mask}

\* Everything about one member's rows, and about the common ones.
OwnShape(o, m) ==
    /\ DOMAIN o \subseteq Personal
    /\ \A k \in DOMAIN o : o[k] \in Storable(k)
    /\ \A k \in Secrets \cap DOMAIN o : o[k] \in {Blank} \cup Typed[m]
    /\ o = NoRows \/ Personal \ Secrets \subseteq DOMAIN o
GlobalShape(g) ==
    /\ DOMAIN g \subseteq Keys
    /\ \A k \in DOMAIN g : g[k] \in Storable(k)
    /\ \A k \in Secrets \cap DOMAIN g : g[k] \in {Blank} \cup UNION {Typed[u] : u \in Admins}

RowsInv ==
    /\ env \in Envs
    /\ GlobalShape(global)
    /\ own = [m \in Members |-> own[m]] /\ \A m \in Members : OwnShape(own[m], m)
    /\ tax \in [Members -> BOOLEAN]
    /\ bark \in [url : {Blank} \cup UNION {Typed[u] : u \in Admins}, on : BOOLEAN]
    /\ bark.on => bark.url # Blank

SettingsInv ==
    /\ RowsInv
    /\ tab = [t \in Tabs |-> tab[t]] /\ \A t \in Tabs : tab[t] # NoPage => PageShape(tab[t])

\* What a user may enter can be stored, and so can defaults and environment.
LEMMA StorableValues ==
  ASSUME NEW k \in Keys
  PROVE  /\ \A u \in Users : Entry(u, k) \subseteq Storable(k)
         /\ Default[k] \in Storable(k)
         /\ \A e \in Envs : k \in DOMAIN e => e[k] \in Storable(k)
BY DEF Storable

\* A form is its page with at most one entry.
LEMMA EditsPost ==
  ASSUME NEW u \in Users, NEW K \in SUBSET Keys, NEW fields, Displays(fields, K),
         NEW form \in Edits(fields, u)
  PROVE  Posts(form, K, u)
<1>1. ASSUME NEW k \in K PROVE fields[k] \in Displayable(k)
  BY <1>1 DEF Displays
<1>2. DOMAIN fields = K
  BY DEF Displays
<1>3. /\ DOMAIN form = K
      /\ \A k \in K : form[k] = fields[k] \/ form[k] \in Entry(u, k)
  <2>1. CASE form = fields
    BY <1>2, <2>1
  <2>2. ASSUME NEW l \in K, NEW v \in Entry(u, l), form = [fields EXCEPT ![l] = v]
        PROVE  /\ DOMAIN form = K
               /\ \A k \in K : form[k] = fields[k] \/ form[k] \in Entry(u, k)
    BY <1>2, <2>2
  <2> QED
    BY <1>2, <2>1, <2>2 DEF Edits
<1>4. ASSUME NEW k \in K, k \in Secrets PROVE form[k] \in {Blank, Mask} \cup Typed[u]
  <2>1. Entry(u, k) = Typed[u] \cup {Blank}
    BY <1>4, SettingsAssumption DEF Entry
  <2> QED
    BY <1>1, <1>3, <1>4, <2>1 DEF Displayable
<1>5. ASSUME NEW k \in K, k \notin Secrets PROVE form[k] \in Storable(k)
  BY <1>1, <1>3, <1>5, StorableValues DEF Displayable
<1> QED
  BY <1>3, <1>4, <1>5 DEF Posts

\* What a saved row holds was there before or was posted, and not the mask.
LEMMA SavedStorable ==
  ASSUME NEW u \in Users, NEW K \in SUBSET Keys, NEW form, Posts(form, K, u),
         NEW rows, DOMAIN rows \subseteq Keys, \A k \in DOMAIN rows : rows[k] \in Storable(k)
  PROVE  /\ DOMAIN Saved(rows, form) \subseteq K \cup DOMAIN rows
         /\ K \ Secrets \subseteq DOMAIN Saved(rows, form)
         /\ \A k \in DOMAIN Saved(rows, form) : Saved(rows, form)[k] \in Storable(k)
         /\ \A k \in Secrets \cap DOMAIN Saved(rows, form) :
               \/ Saved(rows, form)[k] \in {Blank} \cup Typed[u]
               \/ k \in DOMAIN rows /\ Saved(rows, form)[k] = rows[k]
<1> DEFINE S == Saved(rows, form)
<1>1. /\ DOMAIN S = Kept(form) \cup DOMAIN rows
      /\ \A k \in Kept(form) : S[k] = form[k]
      /\ \A k \in DOMAIN rows \ Kept(form) : S[k] = rows[k]
  BY SavedRows
<1>2. Kept(form) \subseteq K /\ K \ Secrets \subseteq Kept(form)
  BY DEF Kept, Posts
<1>3. ASSUME NEW k \in Kept(form), k \in Secrets PROVE form[k] \in {Blank} \cup Typed[u]
  BY <1>2, <1>3 DEF Kept, Posts
<1>4. ASSUME NEW k \in Kept(form) PROVE form[k] \in Storable(k)
  <2>1. CASE k \in Secrets
    <3>1. {Blank} \cup Typed[u] = Entry(u, k) /\ k \in Keys
      BY <2>1, SettingsAssumption DEF Entry, Keys
    <3> QED
      BY <1>3, <2>1, <3>1, StorableValues
  <2>2. CASE k \notin Secrets
    BY <1>2, <2>2 DEF Posts
  <2> QED
    BY <2>1, <2>2
<1> HIDE DEF S
<1>5. /\ DOMAIN S \subseteq K \cup DOMAIN rows
      /\ K \ Secrets \subseteq DOMAIN S
  BY <1>1, <1>2
<1>6. \A k \in DOMAIN S : S[k] \in Storable(k)
  BY <1>1, <1>4
<1>7. \A k \in Secrets \cap DOMAIN S :
         S[k] \in {Blank} \cup Typed[u] \/ (k \in DOMAIN rows /\ S[k] = rows[k])
  BY <1>1, <1>3
<1> QED
  BY <1>5, <1>6, <1>7 DEF S

\* Both pages show what can be stored, and no secret.
LEMMA PagesShow ==
  ASSUME RowsInv, NEW u \in Users, NEW form \in Forms(u)
  PROVE  PageShape(Shown(u, form))
<1>1. ASSUME NEW k \in Keys PROVE Common(global)[k] \in Storable(k)
  <2>1. DOMAIN global \subseteq Keys /\ \A l \in DOMAIN global : global[l] \in Storable(l)
    BY DEF RowsInv, GlobalShape
  <2> QED
    BY <2>1, CommonValues, StorableValues DEF RowsInv
<1>2. Common(global) = [k \in Keys |-> Common(global)[k]]
  BY CommonValues DEF RowsInv, GlobalShape
<1>3. CASE form = "global"
  <2>1. GlobalPage = [k \in Keys |-> IF k \in Secrets /\ Common(global)[k] # Blank THEN Mask
                                     ELSE Common(global)[k]]
    BY <1>2 DEF GlobalPage, Masked
  <2>2. Displays(GlobalPage, Keys)
    BY <1>1, <2>1 DEF Displays, Displayable
  <2>3. u \in Admins
    BY <1>3 DEF Forms
  <2> QED
    BY <1>3, <2>2, <2>3 DEF Shown, PageShape
<1>4. CASE form = "own"
  <2> DEFINE V == Effective(global, own[u], tax[u])
  <2>1. u \in Members
    BY <1>4 DEF Forms, Users
  <2>2. OwnShape(own[u], u) /\ Personal \subseteq Keys \ {Provider}
    BY <2>1, SettingsAssumption DEF RowsInv, Keys
  <2>3. env \in Envs /\ DOMAIN global \subseteq Keys /\ DOMAIN own[u] \subseteq Personal
    BY <2>2 DEF RowsInv, GlobalShape, OwnShape
  <2>4. /\ V = [k \in Keys |-> V[k]]
        /\ \A k \in Keys \ {Provider} : V[k] =
              IF Custom(own[u]) /\ k \in DOMAIN own[u] THEN own[u][k] ELSE Common(global)[k]
    BY <2>3, EffectiveValues
  <2> HIDE DEF V
  <2>5. \A k \in Personal : V[k] \in Storable(k)
    BY <1>1, <2>2, <2>4 DEF OwnShape
  <2>6. Masked(V) = [k \in Keys |-> IF k \in Secrets /\ V[k] # Blank THEN Mask ELSE V[k]]
    BY <2>4 DEF Masked
  <2>7. Displays([k \in Personal |-> Masked(V)[k]], Personal)
    BY <2>2, <2>5, <2>6 DEF Displays, Displayable
  <2>8. Displays(Disabled, Personal)
    <3>1. ASSUME NEW k \in Personal PROVE Disabled[k] \in Displayable(k)
      <4>1. Disabled[k] = IF k \in Switches THEN Off ELSE Blank
        BY DEF Disabled
      <4>2. Disabled[k] \in Entry(u, k)
        BY <4>1 DEF Entry
      <4>3. k \in Secrets => Disabled[k] = Blank
        BY <4>1, SettingsAssumption
      <4> QED
        BY <2>2, <4>2, <4>3, StorableValues DEF Displayable
    <3> QED
      BY <3>1 DEF Displays, Disabled
  <2>9. Displays(OwnPage(u).fields, Personal)
    BY <2>7, <2>8 DEF OwnPage, V
  <2> QED
    BY <1>4, <2>1, <2>9 DEF Shown, PageShape
<1>5. CASE form = "bark"
  <2>1. u \in Admins
    BY <1>5 DEF Forms
  <2>2. BarkPage.url \in {Blank, Mask}
    BY DEF BarkPage, RowsInv
  <2> QED
    BY <1>5, <2>1, <2>2 DEF Shown, PageShape
<1> QED
  BY <1>3, <1>4, <1>5 DEF Forms

\* No rows, and no pages yet.
LEMMA InitSettingsInv == Init => SettingsInv
<1> SUFFICES ASSUME Init PROVE SettingsInv
  OBVIOUS
<1>1. DOMAIN NoRows = {}
  BY DEF NoRows
<1>2. GlobalShape(NoRows) /\ \A m \in Members : OwnShape(NoRows, m)
  BY <1>1 DEF GlobalShape, OwnShape
<1> QED
  BY <1>2 DEF Init, SettingsInv, RowsInv

\* integrations_save of an admin: the form of a page that may be old.
LEMMA SaveGlobalRows ==
  ASSUME RowsInv, NEW u \in Admins, NEW page, Displays(page, Keys), SaveGlobal(u, page)
  PROVE  RowsInv'
<1>1. PICK form \in Edits(page, u) : global' = Saved(global, form)
  BY DEF SaveGlobal
<1>2. Posts(form, Keys, u) /\ u \in Users
  BY <1>1, EditsPost DEF Users
<1>3. /\ DOMAIN global \subseteq Keys /\ \A k \in DOMAIN global : global[k] \in Storable(k)
      /\ \A k \in Secrets \cap DOMAIN global :
            global[k] \in {Blank} \cup UNION {Typed[v] : v \in Admins}
  BY DEF RowsInv, GlobalShape
<1>4. Typed[u] \subseteq UNION {Typed[v] : v \in Admins}
  OBVIOUS
<1>5. /\ DOMAIN global' \subseteq Keys \cup DOMAIN global
      /\ \A k \in DOMAIN global' : global'[k] \in Storable(k)
      /\ \A k \in Secrets \cap DOMAIN global' :
            \/ global'[k] \in {Blank} \cup Typed[u]
            \/ k \in DOMAIN global /\ global'[k] = global[k]
  BY <1>1, <1>2, <1>3, SavedStorable
<1>6. GlobalShape(global')
  BY <1>3, <1>4, <1>5 DEF GlobalShape
<1> QED
  BY <1>6 DEF SaveGlobal, RowsInv

\* integrations_save of a member.
LEMMA SaveOwnRows ==
  ASSUME RowsInv, NEW m \in Members, NEW page, Displays(page.fields, Personal),
         SaveOwn(m, page)
  PROVE  RowsInv'
<1>1. PICK form \in OwnEdits(page, m) :
         /\ tax' = [tax EXCEPT ![m] = form.tax]
         /\ own' = [own EXCEPT ![m] = IF form.custom THEN Saved(own[m], form.fields)
                                      ELSE Cleared(own[m])]
         /\ UNCHANGED <<env, global, bark>>
  BY DEF SaveOwn
<1>2. form.tax \in BOOLEAN /\ form.fields \in Edits(page.fields, m)
  BY <1>1 DEF OwnEdits, Edits
<1>3. m \in Users /\ Personal \in SUBSET Keys
  BY SettingsAssumption DEF Users
<1>4. Posts(form.fields, Personal, m)
  BY <1>2, <1>3, EditsPost
<1>5. OwnShape(own[m], m)
  BY DEF RowsInv
<1>6. OwnShape(Saved(own[m], form.fields), m)
  <2> DEFINE o == own[m]
             F == form.fields
             S == Saved(o, F)
  <2>1. /\ DOMAIN o \subseteq Keys /\ \A k \in DOMAIN o : o[k] \in Storable(k)
        /\ OwnShape(o, m)
    BY <1>3, <1>5 DEF OwnShape
  <2>2. Posts(F, Personal, m)
    BY <1>4
  <2> HIDE DEF o, F
  <2>3. /\ DOMAIN S \subseteq Personal \cup DOMAIN o
        /\ Personal \ Secrets \subseteq DOMAIN S
        /\ \A k \in DOMAIN S : S[k] \in Storable(k)
        /\ \A k \in Secrets \cap DOMAIN S :
              S[k] \in {Blank} \cup Typed[m] \/ (k \in DOMAIN o /\ S[k] = o[k])
    BY <1>3, <2>1, <2>2, SavedStorable
  <2> HIDE DEF S
  <2>4. OwnShape(S, m)
    BY <2>1, <2>3 DEF OwnShape
  <2> QED
    BY <2>4 DEF S, o, F
<1>7. OwnShape(Cleared(own[m]), m)
  <2>1. Cleared(own[m]) = NoRows
    BY <1>5, ClearedAway DEF OwnShape
  <2>2. DOMAIN NoRows = {}
    BY DEF NoRows
  <2> QED
    BY <2>1, <2>2 DEF OwnShape
<1>8. /\ own' = [l \in Members |-> own'[l]]
      /\ \A l \in Members : OwnShape(own'[l], l)
  <2>1. own = [l \in Members |-> own[l]] /\ \A l \in Members : OwnShape(own[l], l)
    BY DEF RowsInv
  <2> DEFINE rows == IF form.custom THEN Saved(own[m], form.fields) ELSE Cleared(own[m])
  <2>2. OwnShape(rows, m) /\ own' = [own EXCEPT ![m] = rows]
    BY <1>1, <1>6, <1>7
  <2> HIDE DEF rows
  <2> QED
    BY <2>1, <2>2
<1>9. tax' \in [Members -> BOOLEAN]
  BY <1>1, <1>2 DEF RowsInv
<1> QED
  BY <1>1, <1>8, <1>9 DEF RowsInv

\* The same, cut off after the first commit.
LEMMA SaveOwnCutRows ==
  ASSUME RowsInv, NEW m \in Members, NEW page, SaveOwnCut(m, page)
  PROVE  RowsInv'
<1>1. PICK form \in OwnEdits(page, m) : tax' = [tax EXCEPT ![m] = form.tax]
  BY DEF SaveOwnCut
<1>2. form.tax \in BOOLEAN
  BY <1>1 DEF OwnEdits
<1> QED
  BY <1>1, <1>2 DEF SaveOwnCut, RowsInv

\* integrations_bark_save: the mask stands for the stored address.
LEMMA SaveBarkRows ==
  ASSUME RowsInv, NEW u \in Admins, NEW page, page.url \in {Blank, Mask}, SaveBark(u, page)
  PROVE  RowsInv'
<1> DEFINE Addresses == {Blank} \cup UNION {Typed[v] : v \in Admins}
<1>1. PICK form \in BarkEdits(page, u) :
         LET url == IF form.url = Mask THEN bark.url ELSE form.url
         IN  /\ BarkAccepted(form, url)
             /\ bark' = [url |-> url, on |-> form.on]
             /\ UNCHANGED <<env, global, own, tax>>
  BY DEF SaveBark
<1>2. form.on \in BOOLEAN /\ (form.url = Mask \/ form.url \in Addresses)
  BY <1>1 DEF BarkEdits
<1>3. bark.url \in Addresses
  BY DEF RowsInv
<1> QED
  BY <1>1, <1>2, <1>3 DEF RowsInv, BarkAccepted

\* Whatever page comes back, and however old it is.
LEMMA SubmitRows ==
  ASSUME RowsInv, NEW shown, PageShape(shown), Submit(shown)
  PROVE  RowsInv'
<1>1. CASE shown.form = "global" /\ SaveGlobal(shown.user, shown.page)
  BY <1>1, SaveGlobalRows DEF PageShape
<1>2. CASE shown.form = "own" /\ SaveOwn(shown.user, shown.page)
  BY <1>2, SaveOwnRows DEF PageShape
<1>3. CASE shown.form = "own" /\ SaveOwnCut(shown.user, shown.page)
  BY <1>3, SaveOwnCutRows DEF PageShape
<1>4. CASE shown.form = "bark" /\ SaveBark(shown.user, shown.page)
  BY <1>4, SaveBarkRows DEF PageShape
<1> QED
  BY <1>1, <1>2, <1>3, <1>4 DEF Submit

\* Rows come from pages, and pages from rows.
LEMMA SettingsInvStep == SettingsInv /\ [Next]_vars => SettingsInv'
<1> SUFFICES ASSUME SettingsInv, [Next]_vars PROVE SettingsInv'
  OBVIOUS
<1> USE DEF SettingsInv
<1>1. ASSUME NEW t \in Tabs, SubmitTab(t) PROVE SettingsInv'
  <2>1. RowsInv'
    BY <1>1, SubmitRows DEF SubmitTab
  <2> QED
    BY <1>1, <2>1 DEF SubmitTab
<1>2. ASSUME NEW t \in Tabs, NEW u \in Users, OpenTab(t, u) PROVE SettingsInv'
  <2>1. RowsInv'
    BY <1>2 DEF OpenTab, RowsInv
  <2>2. PICK form \in Forms(u) : tab' = [tab EXCEPT ![t] = Shown(u, form)]
    BY <1>2 DEF OpenTab
  <2>3. PageShape(Shown(u, form))
    BY <2>2, PagesShow
  <2> QED
    BY <2>1, <2>2, <2>3
<1>3. ASSUME NEW u \in Users, SubmitFresh(u) PROVE SettingsInv'
  <2>1. PICK form \in Forms(u) : Submit(Shown(u, form)) /\ UNCHANGED tab
    BY <1>3 DEF SubmitFresh
  <2>2. RowsInv'
    BY <2>1, PagesShow, SubmitRows
  <2> QED
    BY <2>1, <2>2
<1>4. CASE Restart
  BY <1>4 DEF Restart, RowsInv
<1>5. CASE UNCHANGED vars
  BY <1>5 DEF vars, RowsInv
<1> QED
  BY <1>1, <1>2, <1>3, <1>4, <1>5 DEF Next

\* So it holds in every state.
LEMMA SettingsInvariant == Spec => []SettingsInv
  BY InitSettingsInv, SettingsInvStep, PTL DEF Spec

\* Every row holds something that can be entered, preset or shipped.
THEOREM SettingsTypes == Spec => []TypeOK
<1>1. SettingsInv => TypeOK
  BY DEF SettingsInv, RowsInv, GlobalShape, OwnShape, TypeOK
<1> QED
  BY <1>1, SettingsInvariant, PTL

\* For the keys of the module the pages of both kinds and their forms are inverse
\* to each other (integrations_page, integrations_save).
THEOREM RoundTripTheorem == Spec => []RoundTrip
<1>1. SettingsInv => RowKeys
  BY DEF SettingsInv, RowsInv, GlobalShape, OwnShape, RowKeys
<1> QED
  BY <1>1, RowKeysRoundTrip, SettingsInvariant, PTL

\* A stored secret is its owner's, never a mask and never the environment's
\* (ARCHITECTURE.md:64).
THEOREM SecretsTheorem == Spec => []SecretsTyped
<1>1. SettingsInv => SecretsTyped
  BY DEF SettingsInv, RowsInv, GlobalShape, OwnShape, SecretsTyped
<1> QED
  BY <1>1, SettingsInvariant, PTL

\* No stored configuration is half of one.
THEOREM WholeTheorem == Spec => []StoredWhole
<1>1. SettingsInv => StoredWhole
  BY DEF SettingsInv, RowsInv, OwnShape, StoredWhole
<1> QED
  BY <1>1, SettingsInvariant, PTL
=============================================================================
