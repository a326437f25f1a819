------------------------------- MODULE Session -------------------------------
(***************************************************************************)
(* Login, logout and the user profile in src/static/app.js, per browser    *)
(* tab.  Each tab runs its own copy of the script: state.token and         *)
(* state.userProfile are read from storage when a page loads, the token   *)
(* from the tab's sessionStorage, the profile from localStorage, which all *)
(* tabs share.  handleLogin (auth page), the logout button (every page),   *)
(* and loadCurrentUserProfile and saveCurrentUserProfile (profile page)    *)
(* write both through setToken and setUserProfile.  A request and its      *)
(* answer are separate steps; a page load drops the tab's requests in      *)
(* flight.  A browser restart loses sessionStorage and keeps localStorage. *)
(* A token and a profile are abstracted to the user they belong to.        *)
(***************************************************************************)
EXTENDS Naturals

CONSTANTS
    Users,         \* accounts that can log in
    Tabs,          \* browser tabs running the script
    None,          \* model value: no token, no profile
    LoginAnswers,  \* whether an answer of POST /login carries data.user
    MaxLoads       \* bound on page loads and browser restarts

ASSUME /\ None \notin Users
       /\ LoginAnswers \subseteq BOOLEAN /\ LoginAnswers # {}
       /\ MaxLoads \in Nat

VARIABLES
    token,      \* token[t] : state.token of tab t, as its user, or None
    ssToken,    \* ssToken[t] : go_pan_token in tab t's sessionStorage
    profile,    \* profile[t] : state.userProfile of tab t, as its user
    lsProfile,  \* go_pan_user_profile in localStorage, shared by all tabs
    page,       \* page[t] : the page tab t shows
    pending,    \* pending[t] : requests of tab t awaiting their answer
    loads       \* page loads and restarts so far

svars == <<token, ssToken, profile, lsProfile, page, pending, loads>>

Pages == {"auth", "profile"}

Account == Users \cup {None}

(* A request in flight: a login with u's credentials, or GET or PUT        *)
(* /user/me sent with u's token.                                           *)
Request == [kind : {"login", "me", "save"}, user : Users]

SessionTypeOK ==
    /\ token \in [Tabs -> Account]
    /\ ssToken \in [Tabs -> Account]
    /\ profile \in [Tabs -> Account]
    /\ lsProfile \in Account
    /\ page \in [Tabs -> Pages]
    /\ pending \in [Tabs -> SUBSET Request]
    /\ loads \in 0..MaxLoads

(* loadCurrentUserProfile up to its await: nothing without a token.        *)
LoadCurrentUserProfile(tok) ==
    IF tok = None THEN {} ELSE {[kind |-> "me", user |-> tok]}

(* The requests a page starts when it loads with token tok: the profile    *)
(* page calls loadCurrentUserProfile({silent: true}).                      *)
PageInit(p, tok) == IF p = "profile" THEN LoadCurrentUserProfile(tok) ELSE {}

(* Every tab opens on some page of a fresh browser: empty storage.          *)
Init ==
    /\ token = [t \in Tabs |-> None]
    /\ ssToken = [t \in Tabs |-> None]
    /\ profile = [t \in Tabs |-> None]
    /\ lsProfile = None
    /\ page \in [Tabs -> Pages]
    /\ pending = [t \in Tabs |-> {}]
    /\ loads = 0

-----------------------------------------------------------------------------
(* setToken(tok) in tab t: state and sessionStorage; an empty token also   *)
(* calls setUserProfile(null), which removes the shared stored profile.    *)
SetToken(t, tok) ==
    /\ token' = [token EXCEPT ![t] = tok]
    /\ ssToken' = [ssToken EXCEPT ![t] = tok]
    /\ IF tok = None
       THEN /\ profile' = [profile EXCEPT ![t] = None]
            /\ lsProfile' = None
       ELSE UNCHANGED <<profile, lsProfile>>

(* setUserProfile(raw) in tab t: normalised, into state and localStorage.  *)
SetUserProfile(t, u) ==
    /\ profile' = [profile EXCEPT ![t] = u]
    /\ lsProfile' = u

(* Tab t loads page p: the state object is built from storage, initPage    *)
(* runs the page's init, and the old page's requests are dropped.          *)
Navigate(t, p) ==
    /\ loads < MaxLoads
    /\ loads' = loads + 1
    /\ page' = [page EXCEPT ![t] = p]
    /\ token' = [token EXCEPT ![t] = ssToken[t]]
    /\ profile' = [profile EXCEPT ![t] = lsProfile]
    /\ pending' = [pending EXCEPT ![t] = PageInit(p, ssToken[t])]
    /\ UNCHANGED <<ssToken, lsProfile>>

(* The browser is closed and opened again: sessionStorage is gone,          *)
(* localStorage is kept, and every tab loads a page afresh.                *)
Restart ==
    /\ loads < MaxLoads
    /\ loads' = loads + 1
    /\ page' \in [Tabs -> Pages]
    /\ ssToken' = [t \in Tabs |-> None]
    /\ token' = [t \in Tabs |-> None]
    /\ profile' = [t \in Tabs |-> lsProfile]
    /\ pending' = [t \in Tabs |-> {}]
    /\ UNCHANGED lsProfile

-----------------------------------------------------------------------------
(* handleLogin: refused while the tab's token decodes; otherwise POST      *)
(* /login with the credentials of u.                                       *)
LoginClick(t, u) ==
    /\ page[t] = "auth"
    /\ token[t] = None
    /\ pending' = [pending EXCEPT ![t] = @ \cup {[kind |-> "login", user |-> u]}]
    /\ UNCHANGED <<token, ssToken, profile, lsProfile, page, loads>>

(* The login answer: setToken(data.token), then setUserProfile(data.user)  *)
(* if the answer has one.                                                   *)
LoginLands(t, r) ==
    /\ r \in pending[t]
    /\ r.kind = "login"
    /\ pending' = [pending EXCEPT ![t] = @ \ {r}]
    /\ token' = [token EXCEPT ![t] = r.user]
    /\ ssToken' = [ssToken EXCEPT ![t] = r.user]
    /\ \E withUser \in LoginAnswers :
          IF withUser THEN SetUserProfile(t, r.user)
                      ELSE UNCHANGED <<profile, lsProfile>>
    /\ UNCHANGED <<page, loads>>

(* The logout button: setToken("").                                        *)
Logout(t) ==
    /\ SetToken(t, None)
    /\ UNCHANGED <<page, pending, loads>>

(* The profile page's reload and save buttons: loadCurrentUserProfile and  *)
(* saveCurrentUserProfile, both refused without a token.                  *)
ProfileClick(t, kind) ==
    /\ page[t] = "profile"
    /\ token[t] # None
    /\ pending' = [pending EXCEPT ![t] = @ \cup {[kind |-> kind, user |-> token[t]]}]
    /\ UNCHANGED <<token, ssToken, profile, lsProfile, page, loads>>

(* GET or PUT /user/me answers with the profile of the token's user:       *)
(* setUserProfile(data), whatever the tab's token is by now.               *)
ProfileLands(t, r) ==
    /\ r \in pending[t]
    /\ r.kind \in {"me", "save"}
    /\ pending' = [pending EXCEPT ![t] = @ \ {r}]
    /\ SetUserProfile(t, r.user)
    /\ UNCHANGED <<token, ssToken, page, loads>>

(* Any request fails (bad credentials, network): the catch sets a status. *)
Fail(t, r) ==
    /\ r \in pending[t]
    /\ pending' = [pending EXCEPT ![t] = @ \ {r}]
    /\ UNCHANGED <<token, ssToken, profile, lsProfile, page, loads>>

Next ==
    \/ \E t \in Tabs, p \in Pages : Navigate(t, p)
    \/ Restart
    \/ \E t \in Tabs, u \in Users : LoginClick(t, u)
    \/ \E t \in Tabs : Logout(t)
    \/ \E t \in Tabs, k \in {"me", "save"} : ProfileClick(t, k)
    \/ \E t \in Tabs, r \in Request :
          LoginLands(t, r) \/ ProfileLands(t, r) \/ Fail(t, r)

Spec == Init /\ [][Next]_svars

-----------------------------------------------------------------------------
(* decodeJWT(state.token): the payload of a token the server issued names *)
(* the user it was issued to; no token decodes to null (None).             *)
DecodeJWT(t) == token[t]

(* The user updateAuthUI names in the header: "-" when the token does not  *)
(* decode, else state.userProfile?.id || payload.user_id.                  *)
AuthUser(t) ==
    IF DecodeJWT(t) = None THEN None
    ELSE IF profile[t] # None THEN profile[t] ELSE DecodeJWT(t)

(* The user renderProfileIdentity shows (id, name, email, quota): none     *)
(* when the token does not decode, else profile?.id || payload.user_id.     *)
Shown(t) ==
    IF DecodeJWT(t) = None THEN None
    ELSE IF profile[t] # None THEN profile[t] ELSE DecodeJWT(t)

(* A logged-in tab names the user its token belongs to: the header of      *)
(* updateAuthUI and the identity, email and quota of renderProfileIdentity *)
(* are those of the account whose token the tab's requests carry.          *)
ProfileIsTokenUser == \A t \in Tabs : AuthUser(t) = token[t] /\ Shown(t) = token[t]

====
