------------------------------ MODULE AppLinks ------------------------------
(***************************************************************************)
(* Setting up the app of a member: a one-time token is created by the      *)
(* operator or the review page (lib/server/app-setup.js), handed out as a  *)
(* link and QR code, and exchanged once for the credentials of the site's  *)
(* cloud account (POST /api/app/setup/v1).  Every handler is a few SQL     *)
(* statements without a transaction; answers can be lost.                  *)
(***************************************************************************)
EXTENDS Integers

CONSTANTS
    OPERATORS,      \* pages that create a link for the site
    REVIEWERS,      \* visits to /review, where the site is the demo site
    APPS,           \* requests of apps under way
    MAX_TOKENS      \* bound of the model: tokens created

ASSUME AppLinksAssumption == MAX_TOKENS \in Nat /\ OPERATORS \cap REVIEWERS = {}

VARIABLES
    siteAccount, \* the site's cloud credentials: "none", "ready" or "unreadable"
    tokens,     \* app_setup_token: token -> "new", "used" or "expired"
    page,       \* the pages creating links
    app,        \* the requests of apps, with what they have looked up
    issued,     \* tokens ever created
    given,      \* history: answers with credentials, by token
    spent,      \* history: tokens that have been used or have expired
    reviewed,   \* history: tokens of the review page
    newest,     \* history: the link the operator was last shown, 0 while he waits
    crossed,    \* history: two operators' pages created links at the same time
    unanswered  \* history: tokens whose request ended between use and answer

linkVars == <<siteAccount, tokens, page, app, issued, given, spent, reviewed, newest, crossed,
              unanswered>>

PAGES == OPERATORS \cup REVIEWERS
Asleep == [at |-> "idle", token |-> 0, credentials |-> "none"]

Valid(t) == t \in DOMAIN tokens /\ tokens[t] = "new"

LinksInit ==
    /\ siteAccount = "none" /\ tokens = [t \in {} |-> "new"] /\ issued = 0
    /\ page = [p \in PAGES |-> "idle"] /\ app = [a \in APPS |-> Asleep]
    /\ given = [t \in 1..MAX_TOKENS |-> 0] /\ spent = {} /\ reviewed = {}
    /\ newest = 0 /\ crossed = FALSE /\ unanswered = {}

-----------------------------------------------------------------------------
(***************************************************************************)
(* Creating a link.                                                        *)
(***************************************************************************)

\* Variant no code has: the operator's page clears up like the review page.
ClearedSparing(p) == {t \in DOMAIN tokens : tokens[t] # "new"}

\* createAppSetupToken deletes all tokens of the site, createReviewSetupToken the
\* used and the expired ones.
Cleared(p) ==
    IF p \in OPERATORS THEN DOMAIN tokens ELSE {t \in DOMAIN tokens : tokens[t] # "new"}

\* The review page needs an account that is there; an operator's link does not.
OpenPage(p) ==
    /\ page[p] = "idle"
    /\ p \in REVIEWERS => siteAccount # "none"
    /\ page' = [page EXCEPT ![p] = "clear"]
    /\ crossed' = (crossed \/ (p \in OPERATORS /\ \E q \in OPERATORS : page[q] # "idle"))
    /\ UNCHANGED <<siteAccount, tokens, app, issued, given, spent, reviewed, newest, unanswered>>

ClearTokens(p) ==
    /\ page[p] = "clear"
    /\ tokens' = [t \in DOMAIN tokens \ Cleared(p) |-> tokens[t]]
    /\ newest' = IF p \in OPERATORS THEN 0 ELSE newest
    /\ page' = [page EXCEPT ![p] = "insert"]
    /\ UNCHANGED <<siteAccount, app, issued, given, spent, reviewed, crossed, unanswered>>

InsertToken(p) ==
    /\ page[p] = "insert" /\ issued < MAX_TOKENS
    /\ issued' = issued + 1
    /\ tokens' = [t \in DOMAIN tokens \cup {issued'} |-> IF t = issued' THEN "new" ELSE tokens[t]]
    /\ newest' = IF p \in OPERATORS THEN issued' ELSE newest
    /\ reviewed' = IF p \in REVIEWERS THEN reviewed \cup {issued'} ELSE reviewed
    /\ page' = [page EXCEPT ![p] = "idle"]
    /\ UNCHANGED <<siteAccount, app, given, spent, crossed, unanswered>>

\* expires_at goes by.
ExpireToken ==
    \E t \in DOMAIN tokens :
        /\ Valid(t)
        /\ tokens' = [tokens EXCEPT ![t] = "expired"] /\ spent' = spent \cup {t}
        /\ UNCHANGED <<siteAccount, page, app, issued, given, reviewed, newest, crossed, unanswered>>

-----------------------------------------------------------------------------
(***************************************************************************)
(* Exchanging it: POST /api/app/setup/v1.                                  *)
(***************************************************************************)

\* 409 without credentials, 500 when they cannot be read: the token stays.
Proceeds == siteAccount = "ready"

\* The token unused and unexpired, with the site's row; 410 otherwise.
LookUp(a) ==
    /\ app[a].at = "idle"
    /\ \E t \in DOMAIN tokens :
          /\ Valid(t) /\ Proceeds
          /\ app' = [app EXCEPT ![a] = [at |-> "use", token |-> t, credentials |-> siteAccount]]
    /\ UNCHANGED <<siteAccount, tokens, page, issued, given, spent, reviewed, newest, crossed, unanswered>>

\* Variant no code has: what the look saw is taken for granted.
UnusedWhenLooked(t) == t \in DOMAIN tokens

\* where used_at is null: a token used or deleted since the look is not taken, one
\* that has expired since is.
Unused(t) == t \in DOMAIN tokens /\ tokens[t] # "used"

\* update ... returning id: of two requests one wins, the other gets 410.
Use(a) ==
    LET t == app[a].token
    IN  /\ app[a].at = "use"
        /\ IF Unused(t)
           THEN /\ tokens' = [tokens EXCEPT ![t] = "used"] /\ spent' = spent \cup {t}
                /\ app' = [app EXCEPT ![a].at = "answer"]
           ELSE UNCHANGED <<tokens, spent>> /\ app' = [app EXCEPT ![a] = Asleep]
        /\ UNCHANGED <<siteAccount, page, issued, given, reviewed, newest, crossed, unanswered>>

\* The credentials read before the update go out.
Answer(a) ==
    /\ app[a].at = "answer"
    /\ given' = IF app[a].credentials = "ready" THEN [given EXCEPT ![app[a].token] = @ + 1] ELSE given
    /\ app' = [app EXCEPT ![a] = Asleep]
    /\ UNCHANGED <<siteAccount, tokens, page, issued, spent, reviewed, newest, crossed, unanswered>>

\* Tokens that have been used by a request of As which has not answered.
Owed(As) == {app[a].token : a \in {b \in As : app[b].at = "answer"}}

\* A request ends early: the database fails it, before the update or after it has
\* been done, or the app is gone.
BreakRequest(a) ==
    /\ app[a].at # "idle"
    /\ app' = [app EXCEPT ![a] = Asleep] /\ unanswered' = unanswered \cup Owed({a})
    /\ UNCHANGED <<siteAccount, tokens, page, issued, given, spent, reviewed, newest, crossed>>

\* The platform is restarted: pages and requests end where they are.
RestartPages ==
    /\ page' = [p \in PAGES |-> "idle"] /\ app' = [a \in APPS |-> Asleep]
    /\ unanswered' = unanswered \cup Owed(APPS)
    /\ UNCHANGED <<siteAccount, tokens, issued, given, spent, reviewed, newest, crossed>>

\* A gateway is set up, the account gets a new password, TOKEN_SECRET changes.
AccountChanges ==
    /\ siteAccount' \in {"ready", "unreadable"} \ {siteAccount}
    /\ UNCHANGED <<tokens, page, app, issued, given, spent, reviewed, newest, crossed, unanswered>>

LinksNext ==
    \/ \E p \in PAGES : OpenPage(p) \/ ClearTokens(p) \/ InsertToken(p)
    \/ \E a \in APPS : LookUp(a) \/ Use(a) \/ Answer(a) \/ BreakRequest(a)
    \/ ExpireToken \/ RestartPages \/ AccountChanges

LinksSpec == LinksInit /\ [][LinksNext]_linkVars

-----------------------------------------------------------------------------
\* A token is worth the credentials once (+server.js:45): however many requests hold
\* it at the same time, and whatever a page deletes between their statements, it is
\* answered with them at most once.  A token that is used up was answered with them
\* or is about to be - or its request ended between the update and the answer, and
\* then the member has nothing and needs another link.
WorthItOnce ==
    \A t \in 1..issued :
        /\ given[t] <= 1 /\ (t \in Owed(APPS) \cup unanswered => given[t] = 0)
        /\ t \in DOMAIN tokens /\ tokens[t] = "used" =>
              given[t] = 1 \/ t \in Owed(APPS) \/ t \in unanswered

\* The link the operator was last shown works until it is used or has expired, and
\* no older one of an operator does - beside review pages, apps in the middle of
\* a request, and pages cut short.  Two operators at once may leave two links.
NewestLinkWorks ==
    ~crossed =>
        /\ newest # 0 => newest \in DOMAIN tokens \cup spent
        /\ \A t \in DOMAIN tokens : Valid(t) /\ t # newest => t \in reviewed
=============================================================================
