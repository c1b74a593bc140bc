------------------------------- MODULE Settings -------------------------------
(***************************************************************************)
(* The integration settings: app/services/settings_service.py, the handlers   *)
(* of the page /integrations in app/main.py, and the Bark settings of         *)
(* app/services/notification_service.py.                                    *)
(*                                                                         *)
(* A value comes from the environment, from the admins' rows or from the      *)
(* defaults, and a member who keeps a configuration of his own overrides it.  *)
(* A page shows the effective values with the secrets masked, and its form    *)
(* posts back everything it showed: a page may be old when it comes back, and *)
(* what it shows is not what is stored.                                     *)
(*                                                                         *)
(* A handler runs without await from its form to its answer and a new role    *)
(* ends the session, so a form is handled under the role it was shown to.      *)
(***************************************************************************)
CONSTANTS
    Admins, Members,
    Secrets, Texts, Switches, \* the keys of INTEGRATION_DEFAULTS, by their input
    Personal,                 \* INTEGRATION_KEYS["llm"]
    Enable, Provider,         \* llm_enabled, verify_provider
    Default,                  \* INTEGRATION_DEFAULTS
    Envs,                     \* the environments a process may start with
    Typed,                    \* Typed[u]: what user u types into an input
    Tabs,                     \* browser tabs that hold a page for a while
    Blank, Mask, On, Off, NoPage

Keys == Secrets \cup Texts \cup Switches
Users == Admins \cup Members

ASSUME SettingsAssumption ==
    /\ Secrets \cap Switches = {}
    /\ Personal \subseteq Keys /\ Enable \in Personal \cap Switches
    /\ Provider \in Switches \ Personal
    /\ \A u \in Users : Mask \notin Typed[u]
    /\ Mask # Blank
    /\ DOMAIN Default = Keys /\ \A k \in Secrets : Default[k] = Blank
    /\ \A e \in Envs : DOMAIN e \subseteq Keys

VARIABLES
    env,    \* env_values(): the non-empty values of the environment
    global, \* app_settings: the rows of the keys above
    own,    \* own[m]: user_integrations, the rows of the Personal keys
    tax,    \* tax[m]: the member's own switch tax_verify_enabled
    bark,   \* bark_url and bark_enabled
    tab     \* tab[t]: a page on display and the user it was shown to

vars == <<env, global, own, tax, bark, tab>>

NoRows == [k \in {} |-> Blank]

\* Values f on top of the values g.
Overlay(f, g) == [k \in DOMAIN f \cup DOMAIN g |-> IF k \in DOMAIN f THEN f[k] ELSE g[k]]

\* What user u may enter for a key; any value that can get into a row of it.
Entry(u, k) == IF k \in Switches THEN {On, Off} ELSE Typed[u] \cup {Blank}
Storable(k) == {Default[k]} \cup {e[k] : e \in {e \in Envs : k \in DOMAIN e}}
                 \cup UNION {Entry(u, k) : u \in Users}

TypeOK ==
    /\ env \in Envs
    /\ DOMAIN global \subseteq Keys /\ \A k \in DOMAIN global : global[k] \in Storable(k)
    /\ \A m \in Members : /\ DOMAIN own[m] \subseteq Personal
                         /\ \A k \in DOMAIN own[m] : own[m][k] \in Storable(k)
    /\ tax \in [Members -> BOOLEAN]
    /\ bark \in [url : {Blank} \cup UNION {Typed[u] : u \in Admins}, on : BOOLEAN]

Init ==
    /\ env \in Envs
    /\ global = NoRows
    /\ own = [m \in Members |-> NoRows]
    /\ tax = [m \in Members |-> TRUE]
    /\ bark = [url |-> Blank, on |-> FALSE]
    /\ tab = [t \in Tabs |-> NoPage]

-----------------------------------------------------------------------------
(* get_integrations                                                         *)

\* Without a user.
Common(g) == Overlay(env, Overlay(g, Default))

Custom(o) == Enable \in DOMAIN o

\* For a member with rows o and tax switch t: a configuration of his own wins
\* even over the environment, key by key, and the provider is asked only if
\* both switches allow it.
Effective(g, o, t) ==
    LET values == IF Custom(o) THEN Overlay(o, Common(g)) ELSE Common(g)
    IN  [values EXCEPT ![Provider] = IF t THEN @ ELSE Off]

Masked(v) == [k \in DOMAIN v |-> IF k \in Secrets /\ v[k] # Blank THEN Mask ELSE v[k]]

-----------------------------------------------------------------------------
(* integrations_page                                                        *)

GlobalPage == Masked(Common(global))

\* A member's inputs are disabled until a configuration of his own is stored:
\* the browser posts none of them and the handler reads blanks.
Disabled == [k \in Personal |-> IF k \in Switches THEN Off ELSE Blank]

OwnPage(m) ==
    [custom |-> Custom(own[m]), tax |-> tax[m],
     fields |-> IF Custom(own[m])
                THEN [k \in Personal |-> Masked(Effective(global, own[m], tax[m]))[k]]
                ELSE Disabled]

\* mask_bark_url
BarkPage == [bark EXCEPT !.url = IF @ = Blank THEN Blank ELSE Mask]

\* What a user can make of the inputs he was shown: nothing, or change one.
Edits(fields, u) ==
    {fields} \cup UNION {{[fields EXCEPT ![k] = v] : v \in Entry(u, k)} : k \in DOMAIN fields}
OwnEdits(page, m) ==
    [custom : BOOLEAN, tax : BOOLEAN,
     fields : IF page.custom THEN Edits(page.fields, m) ELSE {page.fields}]
BarkEdits(page, u) == [url : {page.url, Blank} \cup Typed[u], on : BOOLEAN]

-----------------------------------------------------------------------------
(* update_integrations and the handlers                                     *)

\* Mutant: the mask of an untouched secret is stored.
SavedWithMask(rows, form) == Overlay(form, rows)

\* A secret that comes back as its mask keeps its row.
Saved(rows, form) ==
    LET kept == {k \in DOMAIN form : k \in Secrets => form[k] # Mask}
    IN  Overlay([k \in kept |-> form[k]], rows)

\* integrations_save for an admin: every switch and every input, one commit.
SaveGlobal(u, page) ==
    /\ \E form \in Edits(page, u) : global' = Saved(global, form)
    /\ UNCHANGED <<env, own, tax, bark>>

\* Mutant: switching back drops the switch and leaves the other rows.
ClearedEnableOnly(o) == [k \in DOMAIN o \ {Enable} |-> o[k]]

\* clear_user_integration
Cleared(o) == [k \in DOMAIN o \ Personal |-> o[k]]

\* integrations_save for a member: the tax switch, a commit, then his rows.
SaveOwn(m, page) ==
    \E form \in OwnEdits(page, m) :
        /\ tax' = [tax EXCEPT ![m] = form.tax]
        /\ own' = [own EXCEPT ![m] = IF form.custom THEN Saved(@, form.fields) ELSE Cleared(@)]
        /\ UNCHANGED <<env, global, bark>>

\* The process dies between the two commits and another one starts.
SaveOwnCut(m, page) ==
    /\ \E form \in OwnEdits(page, m) : tax' = [tax EXCEPT ![m] = form.tax]
    /\ env' \in Envs
    /\ UNCHANGED <<global, own, bark>>

\* Mutant: the check looks at the posted address, not at the one that results.
BarkAcceptedAsPosted(form, url) == form.on => form.url # Blank

BarkAccepted(form, url) == form.on => url # Blank

\* integrations_bark_save with save_notification_settings: a masked address
\* stands for the stored one.
SaveBark(u, page) ==
    \E form \in BarkEdits(page, u) :
        LET url == IF form.url = Mask THEN bark.url ELSE form.url
        IN  /\ BarkAccepted(form, url)
            /\ bark' = [url |-> url, on |-> form.on]
            /\ UNCHANGED <<env, global, own, tax>>

-----------------------------------------------------------------------------

Shown(u, form) ==
    [user |-> u, form |-> form,
     page |-> CASE form = "global" -> GlobalPage [] form = "bark" -> BarkPage
                [] form = "own" -> OwnPage(u)]

Forms(u) == IF u \in Admins THEN {"global", "bark"} ELSE {"own"}

\* A page is left open, whatever happens to the settings behind it.
OpenTab(t, u) ==
    /\ tab[t] = NoPage
    /\ \E form \in Forms(u) : tab' = [tab EXCEPT ![t] = Shown(u, form)]
    /\ UNCHANGED <<env, global, own, tax, bark>>

Submit(shown) ==
    \/ shown.form = "global" /\ SaveGlobal(shown.user, shown.page)
    \/ shown.form = "own" /\ SaveOwn(shown.user, shown.page)
    \/ shown.form = "own" /\ SaveOwnCut(shown.user, shown.page)
    \/ shown.form = "bark" /\ SaveBark(shown.user, shown.page)

SubmitTab(t) ==
    /\ tab[t] # NoPage
    /\ Submit(tab[t])
    /\ tab' = [tab EXCEPT ![t] = NoPage]

\* A page that is filled in at once.
SubmitFresh(u) == \E form \in Forms(u) : Submit(Shown(u, form)) /\ UNCHANGED tab

Restart ==
    /\ env' \in Envs
    /\ UNCHANGED <<global, own, tax, bark, tab>>

Next ==
    \/ \E t \in Tabs : SubmitTab(t) \/ \E u \in Users : OpenTab(t, u)
    \/ \E u \in Users : SubmitFresh(u)
    \/ Restart

Spec == Init /\ [][Next]_vars

-----------------------------------------------------------------------------
(* Properties                                                               *)

\* v with key k changed to x.
But(v, k, x) == [v EXCEPT ![k] = x]

\* integrations_page and integrations_save are inverse to each other at every
\* mix of environment, rows and defaults.  Saving a page as it is shown changes
\* no effective value of anyone; changing one input changes that value alone
\* (nothing, where the environment rules); and giving up a configuration of
\* one's own leaves the common values and no trace.  This is said of Keys: the
\* inputs of kingdee_tenant_id (integrations.html:49) and piaozone_sign_method
\* show a default where the value is blank, so they are not inverse.
RoundTrip ==
    /\ \A m \in Members :
         Effective(Saved(global, GlobalPage), own[m], tax[m]) = Effective(global, own[m], tax[m])
    /\ \A u \in Admins, k \in Keys : \A v \in Entry(u, k) :
         Common(Saved(global, But(GlobalPage, k, v))) =
            IF k \in DOMAIN env THEN Common(global) ELSE But(Common(global), k, v)
    /\ \A m \in Members :
         LET page == OwnPage(m).fields
             With(rows) == Effective(global, rows, tax[m])
         IN  /\ Custom(own[m]) => With(Saved(own[m], page)) = With(own[m])
             /\ Custom(own[m]) => \A k \in Personal : \A v \in Entry(m, k) :
                  With(Saved(own[m], But(page, k, v))) = But(With(own[m]), k, v)
             /\ Cleared(own[m]) = NoRows
             /\ With(Cleared(own[m])) = With(NoRows)

\* "环境变量中的密钥不会写入数据库" (ARCHITECTURE.md:64), and more: a stored
\* secret is one its owner typed, never a mask that came back from an old page,
\* never another user's, never the environment's.
SecretsTyped ==
    \A k \in Secrets :
        /\ k \in DOMAIN global => global[k] \in {Blank} \cup UNION {Typed[u] : u \in Admins}
        /\ \A m \in Members : k \in DOMAIN own[m] => own[m][k] \in {Blank} \cup Typed[m]

\* No stored configuration is half of one, through stale pages and a crash
\* between the commits: a member has no rows or all that are not secret, and
\* enabled notifications have an address to go to.
StoredWhole ==
    /\ \A m \in Members : own[m] = NoRows \/ Personal \ Secrets \subseteq DOMAIN own[m]
    /\ bark.on => bark.url # Blank
=============================================================================
