------------------------------- MODULE Session -------------------------------
(***************************************************************************)
(* Signing in (auth/): the /login, /callback and /logout handlers, the     *)
(* refresh of tokens, the identity of a call that comes from a browser,    *)
(* and the /authorize pages that give a command line client a code.        *)
(*                                                                         *)
(* The server keeps nothing between two requests: what it knows of a       *)
(* browser is in cookies, which it reads as they were when the request was *)
(* sent and sets when its answer arrives.  The tabs of a browser share the *)
(* cookies, and their requests and answers interleave.                     *)
(***************************************************************************)
EXTENDS Naturals, Sequences

CONSTANTS Users,
          Tabs,          \* tabs of one browser
          Plans,         \* the sets of pages a user may want to open
          Pathless,      \* places that are no URL, or one without a path
          MaxGrants,     \* bound: tokens the identity provider gives
          MaxFaults,     \* bound: calls to the identity provider that fail
          None

ASSUME UsersAssumption == None \notin Users

VARIABLES jar,       \* the cookies of the browser
          tab,       \* what each tab is doing
          grants,    \* the user of each grant of tokens
          expired,   \* the grants whose id token has expired
          csrf,      \* CSRF tokens made so far
          pages,     \* pages still to open
          faults,    \* bound: failed calls so far
          halfway,   \* history: the grants whose answer did not set the user information
          overlapped \* history: two clients were being authorized at once

sessionVars == <<jar, tab, grants, expired, csrf, pages, faults, halfway, overlapped>>

Cookies == {"csrf", "location", "id", "access", "refresh", "info", "request"}

\* Where the user is sent when nothing else is known, and the page that ends the
\* authorization of a client.
Default == "default"
AuthorizeCallback == "authorizeCallback"

ASSUME PathlessAssumption ==
    /\ {None, Default, AuthorizeCallback} \cap Pathless = {}
    /\ None \notin {Default, AuthorizeCallback}

\* A flow is what the user wanted in the first place: a place to go to, a code
\* for a client.  A request is sent with the cookies of the moment.
Flow(asked, client) == [asked |-> asked, client |-> client]
Page(path, query, flow) == [path |-> path, query |-> query, flow |-> flow]
Login(location) == Page("login", location, Flow(location, None))
Authorize(client) == Page("authorize", client, Flow(AuthorizeCallback, client))
Api == Page("api", None, Flow(None, None))
Logout == Page("logout", None, Flow(None, None))

Send(path, query, flow, cookies) ==
    [pc |-> "sent", path |-> path, query |-> query, flow |-> flow, cookies |-> cookies]

Blank == [pc |-> "blank"]

\* Users open these pages; one that names no client is no page of a client.
ASSUME PlansAssumption ==
    \A plan \in Plans : \A page \in plan :
       \/ page = Login(page.query) \/ page \in {Api, Logout}
       \/ page = Authorize(page.query) /\ page.query # None

\* The cookies an answer sets: one, those of f and g, none.
Cookie(name, value) == [c \in {name} |-> value]
Both(f, g) == [c \in DOMAIN f \cup DOMAIN g |-> IF c \in DOMAIN f THEN f[c] ELSE g[c]]
NoCookies == [c \in {} |-> None]

At(t, path) == tab[t].pc = "sent" /\ tab[t].path = path

\* The answer to a request sets cookies, and then redirects or ends the flow.
Reply(t, set, path, query) ==
    tab' = [tab EXCEPT ![t] = [pc |-> "answered", set |-> set, path |-> path, query |-> query,
                               flow |-> tab[t].flow]]
Refuse(t, set) == Reply(t, set, "refused", tab[t].path)

\* A call to the identity provider fails, at the cost of one of those allowed.
Faulty == faults < MaxFaults /\ faults' = faults + 1

-----------------------------------------------------------------------------
(* Cookies.                                                                *)

\* A cookie that cannot be read, or is empty, is as good as none.
retrieveSecureCookie(cookies, name) == cookies[name]

\* The id and the access token are needed, the refresh token is not.
RetrieveTokenValues(cookies) ==
    retrieveSecureCookie(cookies, "id") # None /\ retrieveSecureCookie(cookies, "access") # None

RetrieveUserInfo(cookies) == retrieveSecureCookie(cookies, "info")

\* The cookies of a grant, which may come without a refresh token: the one of an
\* earlier grant stays then.
SetTokenCookies(n, offline) ==
    [c \in {"access", "id"} \cup (IF offline THEN {"refresh"} ELSE {}) |-> n]

\* The cookies of an answer that fails on the way: there is no id token, the
\* refresh token cannot be encoded, the user information is not to be had.
SetSomeCookies(n) ==
    {Cookie("access", n), SetTokenCookies(n, FALSE), SetTokenCookies(n, TRUE)}

\* Whose information it is.
SetUserInfoCookie(user) == Cookie("info", user)

\* The request of a client takes the place of the one before.
SetAuthCodeCookie(client) == Cookie("request", client)

\* The id token and the user information stay.
DeleteCookies == [c \in {"access", "refresh"} |-> None]

\* The state is a hash of the token, which tells two tokens apart.
HashCsrfState(token) == <<token>>

VariantVerifiesNothing(cookies, state) == cookies["csrf"] # None
VerifyCsrfCookie(cookies, state) ==
    cookies["csrf"] # None /\ HashCsrfState(cookies["csrf"]) = state

\* The place the request asks for, or the one a login asked for earlier.
getAuthFlowEndRedirect(cookies, location) ==
    IF location # None THEN location
    ELSE IF cookies["location"] # None THEN cookies["location"]
    ELSE Default

\* Nobody has signed in yet, or somebody has.
SessionInit ==
    /\ tab = [t \in Tabs |-> Blank]
    /\ \E user \in Users \cup {None}, offline \in BOOLEAN :
          /\ grants = IF user = None THEN << >> ELSE <<user>>
          /\ jar = Both(IF user = None THEN NoCookies
                        ELSE Both(SetTokenCookies(1, offline), SetUserInfoCookie(user)),
                        [c \in Cookies |-> None])
    /\ expired = {}
    /\ pages \in Plans
    /\ csrf = 0 /\ faults = 0
    /\ halfway = {} /\ overlapped = FALSE

-----------------------------------------------------------------------------
(* The identity provider and the browser.                                  *)

\* New tokens for a user; their number stands for all three of them.
Grant(user) == Len(grants) < MaxGrants /\ grants' = Append(grants, user)
New == Len(grants) + 1

Expire(n) ==
    /\ n \in DOMAIN grants \ expired
    /\ expired' = expired \cup {n}
    /\ UNCHANGED <<jar, tab, grants, csrf, pages, faults, halfway, overlapped>>

Authorizing(t) == tab[t].pc \in {"sent", "answered", "idp"} /\ tab[t].flow.client # None

\* The user opens a page, in a tab that waits for no answer.
Open(t, page) ==
    /\ tab[t].pc \notin {"sent", "answered"}
    /\ pages' = pages \ {page}
    /\ tab' = [tab EXCEPT ![t] = Send(page.path, page.query, page.flow, jar)]
    /\ overlapped' = (overlapped \/ (page.flow.client # None /\ \E u \in Tabs \ {t} : Authorizing(u)))
    /\ UNCHANGED <<jar, grants, expired, csrf, faults, halfway>>

\* The user signs in on the page of the identity provider, which sends them back
\* with the state and a code.
SignIn(t, user) ==
    /\ tab[t].pc = "idp"
    /\ tab' = [tab EXCEPT ![t] = Send("callback", [state |-> tab[t].state, user |-> user],
                                      tab[t].flow, jar)]
    /\ UNCHANGED <<jar, grants, expired, csrf, pages, faults, halfway, overlapped>>

\* An answer arrives, and the tab goes on.
Deliver(t) ==
    LET answer  == tab[t]
        cookies == Both(answer.set, jar)
    IN  /\ tab[t].pc = "answered"
        /\ jar' = cookies
        /\ tab' = [tab EXCEPT ![t] =
                     IF answer.path = "idp"
                     THEN [pc |-> "idp", state |-> answer.query, flow |-> answer.flow]
                     ELSE IF answer.path \in {"login", AuthorizeCallback}
                     THEN Send(answer.path, answer.query, answer.flow, cookies)
                     ELSE [pc |-> answer.path, result |-> answer.query, flow |-> answer.flow]]
        /\ UNCHANGED <<grants, expired, csrf, pages, faults, halfway, overlapped>>

-----------------------------------------------------------------------------
(* /login and /callback.                                                   *)

\* Landing on the page that ends an authorization is a request to it.
Land(t, set, location) ==
    LET to == getAuthFlowEndRedirect(tab[t].cookies, location)
    IN  IF to = AuthorizeCallback THEN Reply(t, set, to, None) ELSE Reply(t, set, "landed", to)

\* A place without a path is kept in no cookie.
HasPath(location) == location # None /\ location \notin Pathless
NewRedirectCookie(location) ==
    IF HasPath(location) THEN Cookie("location", location) ELSE NoCookies

\* A new CSRF token, the place to go to when all is done, and off to the identity
\* provider, also when the place cannot be kept.
GetLoginHandler(t, set) ==
    /\ csrf' = csrf + 1
    /\ Reply(t, Both(set, Both(Cookie("csrf", csrf'), NewRedirectCookie(tab[t].query))),
             "idp", HashCsrfState(csrf'))

ParseIDTokenAndValidate(n) == n \notin expired

\* Somebody with tokens need not sign in again.  The keys to check the id token
\* with may not be there.
RefreshTokensIfExists(t) ==
    LET cookies == tab[t].cookies
        valid   == RetrieveTokenValues(cookies) /\ ParseIDTokenAndValidate(cookies["id"])
    IN  /\ At(t, "login")
        /\ \/ /\ valid
              /\ Land(t, NoCookies, tab[t].query)
              /\ UNCHANGED <<csrf, faults>>
           \/ /\ ~valid
              /\ RetrieveTokenValues(cookies) => cookies["refresh"] = None
              /\ GetLoginHandler(t, NoCookies)
              /\ UNCHANGED faults
           \/ /\ RetrieveTokenValues(cookies) /\ Faulty
              /\ GetLoginHandler(t, NoCookies)
        /\ UNCHANGED <<jar, grants, expired, pages, halfway, overlapped>>

\* The id token has expired, and there is a refresh token.
Expired(cookies) ==
    /\ RetrieveTokenValues(cookies)
    /\ ~ParseIDTokenAndValidate(cookies["id"]) /\ cookies["refresh"] # None

\* The identity provider says whose tokens they are.
QueryUserInfoUsingAccessToken(n) == grants'[n]

VariantKeepsInfo(n, offline) == SetTokenCookies(n, offline)
SetSession(n, offline) ==
    Both(SetTokenCookies(n, offline), SetUserInfoCookie(QueryUserInfoUsingAccessToken(n)))

\* The identity provider may refuse to refresh a token.
GetRefreshedToken(t) ==
    LET cookies == tab[t].cookies
        user    == grants[cookies["refresh"]]
    IN  /\ At(t, "login") /\ Expired(cookies)
        /\ \/ /\ GetLoginHandler(t, NoCookies)
              /\ UNCHANGED <<grants, faults, halfway>>
           \/ /\ Grant(user)
              /\ \E offline \in BOOLEAN : Land(t, SetSession(New, offline), tab[t].query)
              /\ UNCHANGED <<csrf, faults, halfway>>
           \/ /\ Grant(user) /\ Faulty /\ halfway' = halfway \cup {New}
              /\ \E set \in SetSomeCookies(New) : GetLoginHandler(t, set)
        /\ UNCHANGED <<jar, expired, pages, overlapped>>

\* An answer that refuses keeps the cookies it has set so far.
GetCallbackHandler(t) ==
    LET query == tab[t].query
        user  == query.user
    IN  /\ At(t, "callback")
        /\ \/ /\ ~VerifyCsrfCookie(tab[t].cookies, query.state)
              /\ Refuse(t, NoCookies)
              /\ UNCHANGED <<grants, faults, halfway>>
           \/ /\ VerifyCsrfCookie(tab[t].cookies, query.state)
              /\ \/ /\ Faulty /\ Refuse(t, NoCookies)
                    /\ UNCHANGED <<grants, halfway>>
                 \/ /\ Grant(user)
                    /\ \E offline \in BOOLEAN : Land(t, SetSession(New, offline), None)
                    /\ UNCHANGED <<faults, halfway>>
                 \/ /\ Grant(user) /\ Faulty /\ halfway' = halfway \cup {New}
                    /\ \E set \in SetSomeCookies(New) : Refuse(t, set)
        /\ UNCHANGED <<jar, expired, csrf, pages, overlapped>>

GetLogoutEndpointHandler(t) ==
    /\ At(t, "logout")
    /\ Reply(t, DeleteCookies, "loggedOut", None)
    /\ UNCHANGED <<jar, grants, expired, csrf, pages, faults, halfway, overlapped>>

-----------------------------------------------------------------------------
(* The identity of a call, and codes for clients.                          *)

\* The user, with whom executions are recorded, is that of the token; so is the
\* user information when there is none.  The tokens are kept as history.
NewIdentityContext(id, info) ==
    [user |-> grants[id], subject |-> IF info = None THEN grants[id] ELSE info, tokens |-> {id}]

IdentityContextFromIDTokenToken(id, info) ==
    IF ParseIDTokenAndValidate(id) THEN NewIdentityContext(id, info) ELSE None

GetHTTPRequestCookieToMetadataHandler(cookies) ==
    IF RetrieveTokenValues(cookies)
    THEN [id |-> cookies["id"], info |-> RetrieveUserInfo(cookies)] ELSE None

GRPCGetIdentityFromIDToken(meta) ==
    IF meta = None THEN None ELSE IdentityContextFromIDTokenToken(meta.id, meta.info)

\* A call from the browser has the identity of its cookies.
GetAuthenticationInterceptor(t) ==
    LET identity ==
          GRPCGetIdentityFromIDToken(GetHTTPRequestCookieToMetadataHandler(tab[t].cookies))
    IN  /\ At(t, "api")
        /\ IF identity # None THEN Reply(t, NoCookies, "served", identity) ELSE Refuse(t, NoCookies)
        /\ UNCHANGED <<jar, grants, expired, csrf, pages, faults, halfway, overlapped>>

\* The request of the client is kept in a cookie while the user signs in.
authEndpoint(t) ==
    /\ At(t, "authorize")
    /\ Reply(t, SetAuthCodeCookie(tab[t].query), "login", AuthorizeCallback)
    /\ UNCHANGED <<jar, grants, expired, csrf, pages, faults, halfway, overlapped>>

IdentityContextFromRequest(cookies) ==
    IF RetrieveTokenValues(cookies) /\ RetrieveUserInfo(cookies) # None
    THEN IdentityContextFromIDTokenToken(cookies["id"], RetrieveUserInfo(cookies)) ELSE None

\* The user information is that of the identity or, when that has no name, what
\* the identity provider says of the access token.
QueryUserInfo(identity, cookies) ==
    {identity,
     [identity EXCEPT !.subject = QueryUserInfoUsingAccessToken(cookies["access"]),
                      !.tokens  = @ \cup {cookies["access"]}]}

authCallbackEndpoint(t) ==
    LET cookies  == tab[t].cookies
        identity == IdentityContextFromRequest(cookies)
        request  == retrieveSecureCookie(cookies, "request")
    IN  /\ At(t, AuthorizeCallback)
        /\ UNCHANGED <<jar, grants, expired, csrf, pages, halfway, overlapped>>
        /\ \/ /\ identity = None \/ request = None
              /\ Refuse(t, NoCookies)
              /\ UNCHANGED faults
           \/ /\ identity # None /\ Faulty
              /\ Refuse(t, NoCookies)
           \/ /\ identity # None /\ request # None
              /\ \E owner \in QueryUserInfo(identity, cookies) :
                    Reply(t, NoCookies, "code", [identity |-> owner, client |-> request])
              /\ UNCHANGED faults

-----------------------------------------------------------------------------
SessionNext ==
    \/ \E n \in DOMAIN grants : Expire(n)
    \/ \E t \in Tabs :
         \/ \E page \in pages : Open(t, page)
         \/ \E user \in Users : SignIn(t, user)
         \/ Deliver(t)
         \/ RefreshTokensIfExists(t) \/ GetRefreshedToken(t) \/ GetCallbackHandler(t)
         \/ GetLogoutEndpointHandler(t) \/ GetAuthenticationInterceptor(t)
         \/ authEndpoint(t) \/ authCallbackEndpoint(t)

SessionSpec == SessionInit /\ [][SessionNext]_sessionVars

-----------------------------------------------------------------------------
\* A sign-in ends with what it was for, or is refused.  One that asked for a
\* place ends there: other tabs that sign in meanwhile overwrite the cookie the
\* place is in, and the CSRF token with it (GetLoginHandler, VerifyCsrfCookie).
\* The exceptions are sign-ins that asked for none, or for one without a path,
\* which no cookie keeps: they may end where another one asked to.
\* A client that sends its user to /authorize gets the code itself, unless the
\* browser authorizes another client at the same time, which shares the cookie
\* of the request.
EndsAsAsked ==
    \A t \in Tabs :
       /\ tab[t].pc = "landed" =>
             \/ tab[t].result = tab[t].flow.asked
             \/ ~HasPath(tab[t].flow.asked) /\ HasPath(tab[t].result)
       /\ tab[t].pc = "code" =>
             /\ HasPath(tab[t].flow.asked) => tab[t].flow.asked = AuthorizeCallback
             /\ ~overlapped => tab[t].flow.client \in {None, tab[t].result.client}

\* A call is served, and a code given, in the name of one user: the user that
\* executions are recorded with (the subject of the id token) is the one the user
\* information is about, although the four cookies of a session are set by the
\* answers of several tabs, which arrive in any order.  The exceptions are
\* identities that rest on the tokens of an answer that failed before it set the
\* user information.
IdentityIsWhole ==
    \A t \in Tabs : tab[t].pc \in {"served", "code"} =>
       LET identity == IF tab[t].pc = "code" THEN tab[t].result.identity ELSE tab[t].result
       IN  identity.tokens \cap halfway = {} => identity.subject = identity.user

=============================================================================
