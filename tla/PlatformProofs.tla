--------------------------- MODULE PlatformProofs ---------------------------
(***************************************************************************)
(* Proofs about what operators and members start on the platform, for any  *)
(* number of redemptions, clicks, pages, apps, cards, codes and restarts:   *)
(*   - openHAB Cloud accounts (module CloudAccounts): one that shows        *)
(*     "created" has been delivered;                                        *)
(*   - app set-up links (module AppLinks): a token is worth the site's     *)
(*     credentials at most once, and the newest link is the one that works; *)
(*   - remote maintenance (module RemoteActions): the reported key stands,  *)
(*     and one script runs at a time until a session ends before its script; *)
(*   - the SD card image (module ImageBuild): what is shown of it is true.  *)
(***************************************************************************)
EXTENDS CloudAccounts, AppLinks, RemoteActions, ImageBuild, FiniteSetTheorems, TLAPS

(***************************************************************************)
(* Cloud accounts.                                                         *)
(***************************************************************************)
\* The types without the flags (which Zenon handles, and SMT does not).
Types ==
  /\ account \in {"", "pending", "reset", "created", "error"}
  /\ password \in Stored
  /\ identity \in Stored
  /\ creating \subseteq Requests
  /\ cloud \in Values(Ages)
  /\ round \in {"idle", "password", "identity", "ok", "failed"}
  /\ snapshot \in Values(Ages)

Flags == overtaken \in BOOLEAN /\ calm \in BOOLEAN

\* A change of the row only ages what others hold.
LEMMA AgedType ==
  ASSUME NEW held \in Values(Ages), NEW parts
  PROVE  Aged(held, parts) \in Values(Ages)
BY DEF Aged, Values, Ages

\* The two fixed values: what Fetch hands out, and what there is at first.
LEMMA ValueTypes ==
  /\ Current \in Values(Ages)
  /\ [password |-> "none", identity |-> "none"] \in Values(Ages)
BY DEF Current, Values, Ages

\* Every step keeps the types.
LEMMA TypesStep == Types /\ [Next]_vars => Types'
<1> SUFFICES ASSUME Types, [Next]_vars PROVE Types'
  OBVIOUS
<1> USE DEF Types
<1>1. ASSUME NEW r \in Requests, Redeem(r) PROVE Types'
  BY <1>1 DEF Redeem, roundVars
<1>2. ASSUME NEW r \in Requests, CreateIdentity(r) PROVE Types'
  BY <1>2, AgedType DEF CreateIdentity, RowChanges, Stored
<1>3. CASE ResetPassword
  BY <1>3, AgedType DEF ResetPassword, RowChanges, Stored
<1>4. CASE ChangeKey
  BY <1>4 DEF ChangeKey, Unreadable, roundVars, Stored
<1>5. CASE Fetch
  BY <1>5, ValueTypes DEF Fetch, rowVars
<1>6. CASE Reject
  BY <1>6 DEF Reject, roundVars
<1>7. ASSUME NEW part \in {"password", "identity"}, NEW saved \in BOOLEAN, NEW thrown \in BOOLEAN,
             Save(part, saved, thrown)
      PROVE Types'
  <2>1. cloud' \in Values(Ages)
    <3>1. cloud \in Values(Ages) /\ snapshot \in Values(Ages)
      OBVIOUS
    <3>2. [cloud EXCEPT ![part] = snapshot[part]] \in Values(Ages)
      BY <3>1 DEF Values, Ages
    <3> QED
      BY <1>7, <3>1, <3>2 DEF Save
  <2>2. round' \in {"failed", "identity", "ok"}
    <3>1. CASE part = "password"
      BY <1>7, <3>1 DEF Save, Follows
    <3>2. CASE part = "identity"
      BY <1>7, <3>2 DEF Save, Follows
    <3> QED
      BY <3>1, <3>2
  <2> QED
    BY <1>7, <2>1, <2>2 DEF Save, rowVars
<1>8. ASSUME NEW recorded \in BOOLEAN, NEW answered \in BOOLEAN, ReportSuccess(recorded, answered)
      PROVE Types'
  BY <1>8 DEF ReportSuccess, Record
<1>9. ASSUME NEW recorded \in BOOLEAN, ReportFailure(recorded) PROVE Types'
  BY <1>9 DEF ReportFailure, Record, FailureState
<1>10. CASE Killed
  BY <1>10 DEF Killed, rowVars
<1>11. CASE UNCHANGED <<rowVars, roundVars>>
  BY <1>11 DEF rowVars, roundVars
<1>12. CASE UNCHANGED vars
  BY <1>11, <1>12 DEF vars
<1> QED
  BY <1>1, <1>2, <1>3, <1>4, <1>5, <1>6, <1>7, <1>8, <1>9, <1>10, <1>11, <1>12
     DEF Next, Platform, Round, Disturbs

\* Every step keeps the flags Boolean; only a change of the row and Fetch set
\* overtaken.
LEMMA FlagsStep == Flags /\ [Next]_vars => Flags'
<1> SUFFICES ASSUME Flags, [Next]_vars PROVE Flags'
  OBVIOUS
<1>1. (round # "idle") \in BOOLEAN
  OBVIOUS
<1>2. ASSUME NEW parts, RowChanges(parts) PROVE overtaken' \in BOOLEAN
  BY <1>1, <1>2, Zenon DEF RowChanges
<1>3. (\E r \in Requests : CreateIdentity(r)) \/ ResetPassword => overtaken' \in BOOLEAN
  BY <1>2 DEF CreateIdentity, ResetPassword
<1>4. Fetch => overtaken' \in BOOLEAN
  BY Zenon DEF Fetch
<1>5. \/ overtaken' = overtaken
      \/ Fetch
      \/ ResetPassword
      \/ \E r \in Requests : CreateIdentity(r)
  BY DEF Next, vars, Platform, Round, Disturbs, Redeem, ChangeKey, Reject, Save, ReportSuccess, ReportFailure, Killed
<1>6. calm' = calm \/ calm' = TRUE
  BY DEF Next, vars
<1>7. overtaken' \in BOOLEAN
  BY <1>3, <1>4, <1>5, Zenon DEF Flags
<1>8. calm' \in BOOLEAN
  BY <1>6, Zenon DEF Flags
<1> QED
  BY <1>7, <1>8 DEF Flags

\* Types and flags together are an invariant.
LEMMA TypesHold == Spec => [](Types /\ Flags)
<1>1. Init => Types
  BY ValueTypes DEF Init, Types, Stored
<1>2. Init => Flags
  BY Zenon DEF Init, Flags
<1> QED
  BY <1>1, <1>2, TypesStep, FlagsStep, PTL DEF Spec

\* The states the code writes are those the schema's check allows, and every
\* other variable has its type.
THEOREM AccountsTypeCorrect == Spec => []TypeOK
<1>1. Types /\ Flags => TypeOK
  BY DEF Types, Flags, TypeOK
<1> QED
  BY <1>1, TypesHold, PTL

----------------------------------------------------------------------------
\* A change of the row opens the account; a round under way is overtaken.
LEMMA RowChangeStep ==
  ASSUME NEW parts, RowChanges(parts), account' \in Open
  PROVE  RoundInv'
BY DEF RoundInv, RowChanges, CreatedMeansDelivered, Open

\* What a save does to the two parts.
LEMMA SavedParts ==
  ASSUME NEW held \in Values(Ages), NEW age
  PROVE  /\ [held EXCEPT !["password"] = age].password = age
         /\ [held EXCEPT !["identity"] = age].password = held.password
         /\ [held EXCEPT !["identity"] = age].identity = age
BY DEF Values

\* Two current parts are the current values.
LEMMA CurrentValues ==
  ASSUME NEW held \in Values(Ages), held.password = "current", held.identity = "current"
  PROVE  held = Current
BY DEF Values, Current

\* Every step keeps the round's invariant.
LEMMA RoundStep == Types /\ Types' /\ RoundInv /\ [Next]_vars => RoundInv'
<1> SUFFICES ASSUME Types, Types', RoundInv, [Next]_vars PROVE RoundInv'
  OBVIOUS
<1> USE DEF RoundInv, CreatedMeansDelivered, Open
<1>1. ASSUME NEW r \in Requests, Redeem(r) PROVE RoundInv'
  BY <1>1 DEF Redeem, roundVars
<1>2. ASSUME NEW r \in Requests, CreateIdentity(r) PROVE RoundInv'
  BY <1>2, RowChangeStep DEF CreateIdentity
<1>3. ASSUME ResetPassword PROVE RoundInv'
  BY <1>3, RowChangeStep DEF ResetPassword
<1>4. ASSUME ChangeKey PROVE RoundInv'
  BY <1>4 DEF ChangeKey, roundVars
<1>5. ASSUME Fetch PROVE RoundInv'
  BY <1>5 DEF Fetch, rowVars, Listed
<1>6. ASSUME Reject PROVE RoundInv'
  BY <1>6 DEF Reject, roundVars
<1>7. ASSUME NEW part \in {"password", "identity"}, NEW saved \in BOOLEAN, NEW thrown \in BOOLEAN,
             Save(part, saved, thrown)
      PROVE RoundInv'
  <2>1. CASE thrown
    BY <1>7, <2>1 DEF Save, rowVars
  <2>2. CASE ~thrown /\ part = "password"
    <3>1. cloud' = [cloud EXCEPT !["password"] = snapshot.password] /\ round' = "identity"
      BY <1>7, <2>2 DEF Save, Follows
    <3>2. cloud'.password = snapshot.password
      BY <3>1, SavedParts DEF Types
    <3> QED
      BY <1>7, <2>2, <3>1, <3>2 DEF Save, rowVars, Current
  <2>3. CASE ~thrown /\ part = "identity"
    <3>1. cloud' = [cloud EXCEPT !["identity"] = snapshot.identity] /\ round' = "ok"
      BY <1>7, <2>3 DEF Save, Follows
    <3>2. cloud'.password = cloud.password /\ cloud'.identity = snapshot.identity
      BY <3>1, SavedParts DEF Types
    <3>3. ~overtaken => cloud.password = "current" /\ snapshot.identity = "current"
      BY <1>7, <2>3 DEF Save, Current
    <3>4. cloud' \in Values(Ages)
      BY DEF Types
    <3>5. ~overtaken => cloud' = Current
      BY <3>2, <3>3, <3>4, CurrentValues
    <3> QED
      BY <1>7, <2>3, <3>1, <3>5 DEF Save, rowVars
  <2> QED
    BY <2>1, <2>2, <2>3
<1>8. ASSUME NEW recorded \in BOOLEAN, NEW answered \in BOOLEAN, ReportSuccess(recorded, answered)
      PROVE RoundInv'
  BY <1>8 DEF ReportSuccess, Record
<1>9. ASSUME NEW recorded \in BOOLEAN, ReportFailure(recorded) PROVE RoundInv'
  BY <1>9 DEF ReportFailure, Record, FailureState
<1>10. ASSUME Killed PROVE RoundInv'
  BY <1>10 DEF Killed, rowVars
<1>11. CASE UNCHANGED <<rowVars, roundVars, overtaken>>
  BY <1>11 DEF rowVars, roundVars
<1>12. CASE UNCHANGED vars
  BY <1>11, <1>12 DEF vars
<1> QED
  BY <1>1, <1>2, <1>3, <1>4, <1>5, <1>6, <1>7, <1>8, <1>9, <1>10, <1>11, <1>12
     DEF Next, Platform, Round, Disturbs

\* While a round is under way its account is open, and unless the row changed
\* meanwhile the round carries the row's values.
THEOREM RoundInvariant == Spec => []RoundInv
<1>1. Init => RoundInv
  BY DEF Init, RoundInv, CreatedMeansDelivered, Open
<1> QED
  BY <1>1, TypesHold, RoundStep, PTL DEF Spec

\* "created" without an overtaken round means the cloud has the row's password
\* and identity (cloud-sync.js upsert, cloud-result).
THEOREM CreatedIsDelivered == Spec => []CreatedMeansDelivered
<1>1. RoundInv => CreatedMeansDelivered
  BY DEF RoundInv
<1> QED
  BY <1>1, RoundInvariant, PTL

-----------------------------------------------------------------------------
(***************************************************************************)
(* App set-up links.                                                       *)
(***************************************************************************)
\* The types the argument needs, and that a request which is going to use a
\* token up, or has done so, has the credentials in hand.
LinksType ==
    /\ issued \in 0..MAX_TOKENS
    /\ DOMAIN tokens \subseteq 1..issued
    /\ tokens = [t \in DOMAIN tokens |-> tokens[t]]
    /\ given \in [1..MAX_TOKENS -> Nat]
    /\ \A a \in APPS : app[a].at # "idle" =>
           app[a].credentials = "ready" /\ app[a].token \in 1..issued
    /\ siteAccount \in {"none", "ready", "unreadable"}
    /\ app \in [APPS -> [at : {"idle", "use", "answer"}, token : Nat,
                        credentials : {"none", "ready", "unreadable"}]]
    /\ unanswered \subseteq 1..issued

\* What was given for a token follows its state and the requests: nothing before
\* it is used; then the one request whose update found it unused owes the answer,
\* until it has given it or has been cut off, also when the row is deleted.
GivenByState ==
    /\ \A t \in 1..MAX_TOKENS :
          /\ given[t] <= 1
          /\ t > issued \/ t \in unanswered => given[t] = 0
          /\ t \in DOMAIN tokens /\ tokens[t] # "used" => given[t] = 0 /\ t \notin unanswered
          /\ t \in DOMAIN tokens /\ tokens[t] = "used" /\ given[t] = 0 /\ t \notin unanswered =>
                \E a \in APPS : app[a].at = "answer" /\ app[a].token = t
    /\ \A a \in APPS : app[a].at = "answer" =>
          /\ given[app[a].token] = 0 /\ app[a].token \notin unanswered
          /\ app[a].token \in DOMAIN tokens => tokens[app[a].token] = "used"
          /\ \A b \in APPS : app[b].at = "answer" /\ app[b].token = app[a].token => a = b

LinksInv == LinksType /\ GivenByState

\* A site without links.
LEMMA LinksInitially == LinksInit => LinksInv
BY AppLinksAssumption DEF LinksInit, LinksInv, LinksType, GivenByState, Asleep

\* A request that owes nothing may end at any time.
LEMMA RequestEnds ==
    ASSUME LinksInv, NEW a \in APPS, app[a].at # "answer", app' = [app EXCEPT ![a] = Asleep],
           UNCHANGED <<siteAccount, tokens, issued, given>>,
           \/ unanswered' = unanswered
              \cup {app[b].token : b \in {c \in {a} : app[c].at = "answer"}}
           \/ unanswered' = unanswered
    PROVE  LinksInv'
<1>1. unanswered' = unanswered
  OBVIOUS
<1>2. app'[a].at = "idle" /\ \A b \in APPS : b # a => app'[b] = app[b]
  BY DEF LinksInv, LinksType, Asleep
<1>3. LinksType'
  <2>1. app' \in [APPS -> [at : {"idle", "use", "answer"}, token : Nat,
                            credentials : {"none", "ready", "unreadable"}]]
    BY DEF LinksInv, LinksType, Asleep
  <2> QED  BY <1>1, <1>2, <2>1 DEF LinksInv, LinksType
<1>4. ASSUME NEW b \in APPS, app[b].at = "answer" \/ app'[b].at = "answer"
      PROVE  app'[b] = app[b]
  BY <1>2, <1>4
<1> QED  BY <1>1, <1>3, <1>4 DEF LinksInv, GivenByState

\* Every statement of a page or a request keeps the invariant.
LEMMA LinksStep == LinksInv /\ [LinksNext]_linkVars => LinksInv'
<1> SUFFICES ASSUME LinksInv, [LinksNext]_linkVars PROVE LinksInv'
  OBVIOUS
<1> USE AppLinksAssumption DEF LinksInv
<1>0. issued \in Nat /\ MAX_TOKENS \in Nat /\ \A t : t \in 1..issued => t \in 1..MAX_TOKENS
  BY DEF LinksType
<1>1. ASSUME NEW p \in PAGES, OpenPage(p) PROVE LinksInv'
  BY <1>1 DEF OpenPage, LinksType, GivenByState
\* Rows go, what was given for them and who owes an answer stays.
<1>2. ASSUME NEW p \in PAGES, ClearTokens(p) PROVE LinksInv'
  <2> DEFINE kept == DOMAIN tokens \ Cleared(p)
  <2>1. tokens' = [t \in kept |-> tokens[t]] /\ UNCHANGED <<siteAccount, app, issued, given, unanswered>>
    BY <1>2 DEF ClearTokens
  <2>2. DOMAIN tokens' = kept /\ kept \subseteq DOMAIN tokens /\ \A t \in kept : tokens'[t] = tokens[t]
    BY <2>1
  <2> HIDE DEF kept
  <2>3. LinksType'
    BY <2>1, <2>2 DEF LinksType
  <2> QED
    BY <2>1, <2>2, <2>3 DEF LinksType, GivenByState
\* A new token has a number nothing was given for and no request has in hand.
<1>3. ASSUME NEW p \in PAGES, InsertToken(p) PROVE LinksInv'
  <2>1. /\ issued < MAX_TOKENS /\ issued' = issued + 1 /\ UNCHANGED <<siteAccount, app, given, unanswered>>
        /\ DOMAIN tokens' = DOMAIN tokens \cup {issued'}
        /\ tokens' = [t \in DOMAIN tokens' |-> tokens'[t]]
        /\ \A t \in DOMAIN tokens' : tokens'[t] = IF t = issued' THEN "new" ELSE tokens[t]
    BY <1>3 DEF InsertToken
  <2>2. LinksType'
    BY <2>1 DEF LinksType
  <2>3. issued \in Nat /\ DOMAIN tokens \subseteq 1..issued /\ unanswered \subseteq 1..issued
    BY DEF LinksType
  <2>4. \A t \in DOMAIN tokens : t # issued'
    BY <2>1, <2>3
  <2>5. issued' \notin unanswered /\ given[issued'] = 0
    BY <2>1, <2>3 DEF GivenByState
  <2>6. ASSUME NEW a \in APPS, app[a].at = "answer" PROVE app[a].token # issued'
    BY <2>1, <2>3, <2>6 DEF LinksType
  <2> QED
    BY <2>1, <2>2, <2>3, <2>4, <2>5, <2>6 DEF GivenByState
<1>4. CASE ExpireToken
  <2> PICK x \in DOMAIN tokens :
        Valid(x) /\ tokens' = [tokens EXCEPT ![x] = "expired"]
        /\ UNCHANGED <<siteAccount, app, issued, given, unanswered>>
    BY <1>4 DEF ExpireToken
  <2>1. LinksType'
    BY DEF LinksType
  <2> QED
    BY <2>1 DEF LinksType, GivenByState, Valid
<1>5. ASSUME NEW a \in APPS, LookUp(a) PROVE LinksInv'
  <2> PICK x \in DOMAIN tokens :
        /\ Valid(x) /\ Proceeds /\ app[a].at = "idle"
        /\ app' = [app EXCEPT ![a] = [at |-> "use", token |-> x, credentials |-> siteAccount]]
    BY <1>5 DEF LookUp
  <2>1. UNCHANGED <<siteAccount, tokens, issued, given, unanswered>>
    BY <1>5 DEF LookUp
  <2>2. LinksType'
    BY <2>1 DEF LinksType, Proceeds
  <2>3. \A b \in APPS : b # a => app'[b] = app[b]
    BY DEF LinksType
  <2>4. app'[a].at = "use"
    BY DEF LinksType
  <2> QED
    BY <2>1, <2>2, <2>3, <2>4 DEF GivenByState
\* One update per token finds it unused; its request owes the answer.
<1>6. ASSUME NEW a \in APPS, Use(a) PROVE LinksInv'
  <2> DEFINE x == app[a].token
  <2>1. /\ app[a].at = "use" /\ app[a].credentials = "ready" /\ x \in 1..issued
        /\ UNCHANGED <<siteAccount, issued, given, unanswered>>
    BY <1>6 DEF Use, LinksType
  <2>2. CASE Unused(x)
    <3>1. tokens' = [tokens EXCEPT ![x] = "used"] /\ app' = [app EXCEPT ![a].at = "answer"]
      BY <1>6, <2>1, <2>2 DEF Use
    <3>2. x \in DOMAIN tokens /\ tokens[x] # "used" /\ x \in 1..MAX_TOKENS
      BY <1>0, <2>1, <2>2 DEF Unused
    <3>3. given[x] = 0 /\ x \notin unanswered
      BY <3>2 DEF GivenByState
    <3>4. \A b \in APPS : app[b].at = "answer" => app[b].token # x
      BY <3>2 DEF GivenByState
    <3>5. /\ app'[a].at = "answer" /\ app'[a].token = x /\ app'[a].credentials = "ready"
          /\ \A b \in APPS : b # a => app'[b] = app[b]
      BY <2>1, <3>1 DEF LinksType
    <3>6. /\ DOMAIN tokens' = DOMAIN tokens /\ tokens'[x] = "used"
          /\ \A t \in DOMAIN tokens : t # x => tokens'[t] = tokens[t]
          /\ tokens' = [t \in DOMAIN tokens' |-> tokens'[t]]
      BY <3>1, <3>2 DEF LinksType
    <3>7. LinksType'
      <4>1. app' \in [APPS -> [at : {"idle", "use", "answer"}, token : Nat,
                                credentials : {"none", "ready", "unreadable"}]]
        BY <3>1 DEF LinksType
      <4> HIDE DEF x
      <4> QED
        BY <2>1, <3>5, <3>6, <4>1 DEF LinksType
    <3> HIDE DEF x
    <3>8. ASSUME NEW t \in 1..MAX_TOKENS
          PROVE /\ given'[t] <= 1
                /\ t > issued' \/ t \in unanswered' => given'[t] = 0
                /\ t \in DOMAIN tokens' /\ tokens'[t] # "used" => given'[t] = 0 /\ t \notin unanswered'
                /\ t \in DOMAIN tokens' /\ tokens'[t] = "used" /\ given'[t] = 0 /\ t \notin unanswered' =>
                      \E b \in APPS : app'[b].at = "answer" /\ app'[b].token = t
      <4>1. CASE t = x
        BY <2>1, <3>3, <3>5, <3>6, <4>1
      <4>2. CASE t # x
        <5>1. ASSUME NEW b \in APPS, app[b].at = "answer", app[b].token = t
              PROVE  app'[b].at = "answer" /\ app'[b].token = t
          BY <2>1, <3>5, <5>1
        <5> QED
          BY <2>1, <3>6, <4>2, <5>1 DEF GivenByState
      <4> QED
        BY <4>1, <4>2
    <3>9. ASSUME NEW b \in APPS, app'[b].at = "answer"
          PROVE /\ given'[app'[b].token] = 0 /\ app'[b].token \notin unanswered'
                /\ app'[b].token \in DOMAIN tokens' => tokens'[app'[b].token] = "used"
                /\ \A c \in APPS : app'[c].at = "answer" /\ app'[c].token = app'[b].token => b = c
      BY <2>1, <3>3, <3>4, <3>5, <3>6, <3>9 DEF GivenByState
    <3> QED
      BY <3>7, <3>8, <3>9 DEF GivenByState
  <2>3. CASE ~Unused(x)
    <3>1. UNCHANGED tokens /\ app' = [app EXCEPT ![a] = Asleep]
      BY <1>6, <2>3 DEF Use
    <3> QED
      BY <2>1, <3>1, RequestEnds
  <2> QED
    BY <2>2, <2>3
\* The answer is given by the one that owes it.
<1>7. ASSUME NEW a \in APPS, Answer(a) PROVE LinksInv'
  <2> DEFINE x == app[a].token
  <2>1. /\ app[a].at = "answer" /\ x \in 1..MAX_TOKENS
        /\ given' = [given EXCEPT ![x] = @ + 1] /\ app' = [app EXCEPT ![a] = Asleep]
        /\ UNCHANGED <<siteAccount, tokens, issued, unanswered>>
    BY <1>0, <1>7 DEF Answer, LinksType
  <2>2. /\ given[x] = 0 /\ x \notin unanswered /\ x \in 1..issued
        /\ x \in DOMAIN tokens => tokens[x] = "used"
        /\ \A b \in APPS : b # a /\ app[b].at = "answer" => app[b].token # x
    BY <2>1 DEF GivenByState, LinksType
  <2>3. /\ app'[a].at = "idle" /\ \A b \in APPS : b # a => app'[b] = app[b]
    BY <2>1 DEF LinksType, Asleep
  <2>4. /\ given'[x] = 1 /\ \A t \in 1..MAX_TOKENS : t # x => given'[t] = given[t]
    BY <2>1, <2>2 DEF LinksType
  <2>5. LinksType'
    <3>1. given' \in [1..MAX_TOKENS -> Nat]
      BY <2>1 DEF LinksType
    <3>2. app' \in [APPS -> [at : {"idle", "use", "answer"}, token : Nat,
                              credentials : {"none", "ready", "unreadable"}]]
      BY <2>1 DEF LinksType, Asleep
    <3> HIDE DEF x
    <3> QED
      BY <2>1, <2>3, <3>1, <3>2 DEF LinksType
  <2> HIDE DEF x
  <2>6. ASSUME NEW t \in 1..MAX_TOKENS
        PROVE /\ given'[t] <= 1
              /\ t > issued' \/ t \in unanswered' => given'[t] = 0
              /\ t \in DOMAIN tokens' /\ tokens'[t] # "used" => given'[t] = 0 /\ t \notin unanswered'
              /\ t \in DOMAIN tokens' /\ tokens'[t] = "used" /\ given'[t] = 0 /\ t \notin unanswered' =>
                    \E b \in APPS : app'[b].at = "answer" /\ app'[b].token = t
    <3>1. CASE t = x
      BY <1>0, <2>1, <2>2, <2>4, <3>1
    <3>2. CASE t # x
      <4>1. ASSUME NEW b \in APPS, app[b].at = "answer", app[b].token = t
            PROVE  app'[b].at = "answer" /\ app'[b].token = t
        BY <2>3, <3>2, <4>1 DEF x
      <4> QED
        BY <2>1, <2>4, <3>2, <4>1 DEF GivenByState
    <3> QED
      BY <3>1, <3>2
  <2>7. ASSUME NEW b \in APPS, app'[b].at = "answer"
        PROVE /\ given'[app'[b].token] = 0 /\ app'[b].token \notin unanswered'
              /\ app'[b].token \in DOMAIN tokens' => tokens'[app'[b].token] = "used"
              /\ \A c \in APPS : app'[c].at = "answer" /\ app'[c].token = app'[b].token => b = c
    <3>1. b # a /\ app'[b] = app[b] /\ app[b].token # x /\ app[b].token \in 1..MAX_TOKENS
      BY <1>0, <2>2, <2>3, <2>7 DEF LinksType
    <3> QED
      BY <2>1, <2>3, <2>4, <2>7, <3>1 DEF GivenByState
  <2> QED
    BY <2>5, <2>6, <2>7 DEF GivenByState
<1>8. ASSUME NEW a \in APPS, BreakRequest(a) PROVE LinksInv'
  <2>1. /\ app' = [app EXCEPT ![a] = Asleep]
        /\ unanswered' = unanswered \cup {app[b].token : b \in {c \in {a} : app[c].at = "answer"}}
        /\ UNCHANGED <<siteAccount, tokens, issued, given>>
    BY <1>8 DEF BreakRequest, Owed
  <2>2. CASE app[a].at = "answer"
    <3> DEFINE x == app[a].token
    <3>1. unanswered' = unanswered \cup {x}
      BY <2>1, <2>2
    <3>2. /\ given[x] = 0 /\ x \in 1..issued
          /\ x \in DOMAIN tokens => tokens[x] = "used"
          /\ \A b \in APPS : b # a /\ app[b].at = "answer" => app[b].token # x
      BY <2>2 DEF GivenByState, LinksType
    <3>3. /\ app'[a].at = "idle" /\ \A b \in APPS : b # a => app'[b] = app[b]
      BY <2>1 DEF LinksType, Asleep
    <3>4. LinksType'
      <4>1. app' \in [APPS -> [at : {"idle", "use", "answer"}, token : Nat,
                                credentials : {"none", "ready", "unreadable"}]]
        BY <2>1 DEF LinksType, Asleep
      <4> HIDE DEF x
      <4> QED
        BY <2>1, <3>1, <3>2, <3>3, <4>1 DEF LinksType
    <3> HIDE DEF x
    <3>5. ASSUME NEW b \in APPS, app[b].at = "answer", app[b].token # x
          PROVE  app'[b].at = "answer" /\ app'[b].token = app[b].token
      BY <3>3, <3>5 DEF x
    <3> QED
      BY <2>1, <3>1, <3>2, <3>3, <3>4, <3>5 DEF GivenByState
  <2>3. CASE app[a].at # "answer"
    BY <2>1, <2>3, RequestEnds
  <2> QED
    BY <2>2, <2>3
<1>9. CASE RestartPages
  <2>1. /\ app' = [a \in APPS |-> Asleep]
        /\ unanswered' = unanswered \cup {app[b].token : b \in {c \in APPS : app[c].at = "answer"}}
        /\ UNCHANGED <<siteAccount, tokens, issued, given>>
    BY <1>9 DEF RestartPages, Owed
  <2>2. \A a \in APPS : app'[a].at = "idle"
    BY <2>1 DEF Asleep
  <2>3. /\ \A t : t \in unanswered' <=> t \in unanswered \/ \E a \in APPS : app[a].at = "answer" /\ app[a].token = t
    BY <2>1
  <2>4. LinksType'
    <3>1. unanswered' \subseteq 1..issued
      BY <2>3 DEF LinksType
    <3> QED
      BY <2>1, <2>2, <3>1 DEF LinksType, Asleep
  <2>5. ASSUME NEW t \in 1..MAX_TOKENS
        PROVE /\ given'[t] <= 1
              /\ t > issued' \/ t \in unanswered' => given'[t] = 0
              /\ t \in DOMAIN tokens' /\ tokens'[t] # "used" => given'[t] = 0 /\ t \notin unanswered'
              /\ t \in DOMAIN tokens' /\ tokens'[t] = "used" /\ given'[t] = 0 /\ t \notin unanswered' =>
                    \E b \in APPS : app'[b].at = "answer" /\ app'[b].token = t
    BY <2>1, <2>3 DEF GivenByState
  <2> QED
    BY <2>2, <2>4, <2>5 DEF GivenByState
<1>10. CASE AccountChanges
  BY <1>10 DEF AccountChanges, LinksType, GivenByState
<1>11. CASE UNCHANGED linkVars
  BY <1>11 DEF linkVars, LinksType, GivenByState
<1> QED
  BY <1>1, <1>2, <1>3, <1>4, <1>5, <1>6, <1>7, <1>8, <1>9, <1>10, <1>11 DEF LinksNext

\* The invariant says of every token what is promised of those created.
LEMMA LinksEnough == LinksInv => WorthItOnce
BY AppLinksAssumption DEF LinksInv, LinksType, GivenByState, WorthItOnce, Owed

\* However many requests hold a link at the same time, it is answered with the
\* credentials at most once; and one that is used up without an answer is owed it
\* by the request whose update won, or that request was cut off between the two
\* (+server.js:45-60) - whatever pages delete, create and restart beside them.
THEOREM LinkWorthItOnce == LinksSpec => []WorthItOnce
<1>1. LinksSpec => []LinksInv
  BY LinksInitially, LinksStep, PTL DEF LinksSpec
<1> QED
  BY <1>1, LinksEnough, PTL

-----------------------------------------------------------------------------
\* What the pages know of each other: a token that no longer works is in the
\* history of those, no two operators are at it, and between the deletion of the
\* old links and the new one the operator has none.
NewestInv ==
    /\ LinksType
    /\ page \in [PAGES -> {"idle", "clear", "insert"}]
    /\ \A t \in DOMAIN tokens : tokens[t] # "new" => t \in spent
    /\ ~crossed =>
          /\ \A p, q \in OPERATORS : page[p] # "idle" /\ page[q] # "idle" => p = q
          /\ \A p \in OPERATORS : page[p] = "insert" => newest = 0
    /\ NewestLinkWorks

LEMMA NewestInitially == LinksInit => NewestInv
<1> SUFFICES ASSUME LinksInit PROVE NewestInv
  OBVIOUS
<1>1. LinksType
  BY LinksInitially DEF LinksInv
<1>2. DOMAIN tokens = {} /\ newest = 0 /\ page = [p \in PAGES |-> "idle"]
  BY DEF LinksInit
<1>3. NewestLinkWorks
  BY <1>2 DEF NewestLinkWorks
<1> QED  BY <1>1, <1>2, <1>3 DEF NewestInv, PAGES

LEMMA NewestStep == NewestInv /\ LinksType' /\ [LinksNext]_linkVars => NewestInv'
<1> SUFFICES ASSUME NewestInv, LinksType', [LinksNext]_linkVars PROVE NewestInv'
  OBVIOUS
<1>0. \A t \in DOMAIN tokens : t \in Nat /\ t # 0 /\ t <= issued
  BY DEF NewestInv, LinksType
<1>1. ASSUME NEW p \in PAGES, OpenPage(p) PROVE NewestInv'
  <2>1. page[p] = "idle" /\ page' = [page EXCEPT ![p] = "clear"]
        /\ UNCHANGED <<tokens, spent, reviewed, newest>>
    BY <1>1 DEF OpenPage
  <2>2. ~crossed' => ~crossed /\ (p \in OPERATORS => \A q \in OPERATORS : page[q] = "idle")
    BY <1>1 DEF OpenPage
  <2>3. NewestLinkWorks'
    BY <2>1, <2>2 DEF NewestInv, NewestLinkWorks, Valid
  <2>4. ~crossed' => \A q, s \in OPERATORS : page'[q] # "idle" /\ page'[s] # "idle" => q = s
    BY <2>1, <2>2 DEF NewestInv, PAGES
  <2> QED  BY <2>1, <2>2, <2>3, <2>4 DEF NewestInv, PAGES
\* An operator's page leaves no token and no newest link, the review page only
\* takes away what does not work.
<1>2. ASSUME NEW p \in PAGES, ClearTokens(p) PROVE NewestInv'
  <2> DEFINE kept == DOMAIN tokens \ Cleared(p)
  <2>1. /\ page[p] = "clear" /\ page' = [page EXCEPT ![p] = "insert"]
        /\ tokens' = [t \in kept |-> tokens[t]]
        /\ newest' = IF p \in OPERATORS THEN 0 ELSE newest
        /\ UNCHANGED <<spent, reviewed, crossed>>
    BY <1>2 DEF ClearTokens
  <2>2. DOMAIN tokens' = kept /\ \A t \in kept : t \in DOMAIN tokens /\ tokens'[t] = tokens[t]
    BY <2>1
  <2>3. p \notin OPERATORS => \A t \in DOMAIN tokens : tokens[t] = "new" => t \in kept
    BY DEF Cleared
  <2>4. p \in OPERATORS => kept = {}
    BY DEF Cleared
  <2> HIDE DEF kept
  <2>5. NewestLinkWorks'
    BY <2>1, <2>2, <2>3, <2>4 DEF NewestInv, NewestLinkWorks, Valid
  <2>6. \A t \in DOMAIN tokens' : tokens'[t] # "new" => t \in spent'
    BY <2>1, <2>2 DEF NewestInv
  <2> QED  BY <2>1, <2>5, <2>6 DEF NewestInv, PAGES
\* The newest link there was is none, when an operator's page gets to its insert.
<1>3. ASSUME NEW p \in PAGES, InsertToken(p) PROVE NewestInv'
  <2>1. /\ page[p] = "insert" /\ page' = [page EXCEPT ![p] = "idle"]
        /\ newest' = IF p \in OPERATORS THEN issued' ELSE newest
        /\ reviewed' = IF p \in REVIEWERS THEN reviewed \cup {issued'} ELSE reviewed
        /\ issued' = issued + 1 /\ UNCHANGED <<spent, crossed>>
        /\ DOMAIN tokens' = DOMAIN tokens \cup {issued'}
        /\ \A t \in DOMAIN tokens' : tokens'[t] = IF t = issued' THEN "new" ELSE tokens[t]
    BY <1>3 DEF InsertToken
  <2>2. \A t \in DOMAIN tokens : t # issued'
    BY <1>0, <2>1 DEF NewestInv, LinksType
  <2>3. p \in REVIEWERS \/ p \in OPERATORS
    BY DEF PAGES
  <2>4. NewestLinkWorks'
    <3>1. CASE p \in OPERATORS
      <4>1. newest' = issued'
        BY <2>1, <3>1
      <4>2. ~crossed => newest = 0
        BY <2>1, <3>1 DEF NewestInv
      <4> QED  BY <1>0, <2>1, <2>2, <4>1, <4>2 DEF NewestInv, NewestLinkWorks, Valid
    <3>2. CASE p \notin OPERATORS
      BY <2>1, <2>2, <2>3, <3>2 DEF NewestInv, NewestLinkWorks, Valid
    <3> QED  BY <3>1, <3>2
  <2>5. \A t \in DOMAIN tokens' : tokens'[t] # "new" => t \in spent'
    BY <2>1, <2>2 DEF NewestInv
  <2>6. ~crossed' => \A q \in OPERATORS : page'[q] = "insert" => newest' = 0
    BY <2>1, <2>3 DEF NewestInv, PAGES
  <2> QED  BY <2>1, <2>4, <2>5, <2>6 DEF NewestInv, PAGES
<1>4. CASE ExpireToken
  <2> PICK x \in DOMAIN tokens :
        tokens' = [tokens EXCEPT ![x] = "expired"] /\ spent' = spent \cup {x}
    BY <1>4 DEF ExpireToken
  <2>1. UNCHANGED <<page, reviewed, newest, crossed>>
    BY <1>4 DEF ExpireToken
  <2> QED  BY <2>1 DEF NewestInv, NewestLinkWorks, Valid
<1>5. ASSUME NEW a \in APPS, LookUp(a) PROVE NewestInv'
  BY <1>5 DEF LookUp, NewestInv, NewestLinkWorks, Valid
<1>6. ASSUME NEW a \in APPS, Use(a) PROVE NewestInv'
  <2>1. UNCHANGED <<page, reviewed, newest, crossed>>
    BY <1>6 DEF Use
  <2>2. CASE UNCHANGED <<tokens, spent>>
    BY <2>1, <2>2 DEF NewestInv, NewestLinkWorks, Valid
  <2>3. ASSUME NEW x \in DOMAIN tokens, tokens' = [tokens EXCEPT ![x] = "used"],
               spent' = spent \cup {x}
        PROVE  NewestInv'
    BY <2>1, <2>3 DEF NewestInv, NewestLinkWorks, Valid
  <2> QED  BY <1>6, <2>2, <2>3 DEF Use, Unused
<1>6a. ASSUME NEW a \in APPS, Answer(a) \/ BreakRequest(a) PROVE NewestInv'
  BY <1>6a DEF Answer, BreakRequest, NewestInv, NewestLinkWorks, Valid
<1>7. CASE RestartPages
  BY <1>7 DEF RestartPages, NewestInv, NewestLinkWorks, Valid, PAGES
<1>8. CASE AccountChanges
  BY <1>8 DEF AccountChanges, NewestInv, NewestLinkWorks, Valid
<1>9. CASE UNCHANGED linkVars
  BY <1>9 DEF linkVars, NewestInv, NewestLinkWorks, Valid
<1> QED
  BY <1>1, <1>2, <1>3, <1>4, <1>5, <1>6, <1>6a, <1>7, <1>8, <1>9 DEF LinksNext

\* While operators come one at a time, the link the operator was last shown works
\* until it is used or has expired, and no older one does (app-setup.js,
\* createAppSetupToken, createReviewSetupToken).
THEOREM NewestLinkStands == LinksSpec => []NewestLinkWorks
<1>1. LinksSpec => []LinksInv
  BY LinksInitially, LinksStep, PTL DEF LinksSpec
<1>2. LinksInv => LinksType
  BY DEF LinksInv
<1>3. NewestInv => NewestLinkWorks
  BY DEF NewestInv
<1> QED  BY <1>1, <1>2, <1>3, NewestInitially, NewestStep, PTL DEF LinksSpec

-----------------------------------------------------------------------------
(***************************************************************************)
(* Remote maintenance.                                                     *)
(***************************************************************************)
\* Where a click can be.
Places == {"idle", "read", "connect", "adopt", "exec", "wait", "finally"}

\* Between taking the lock and giving it back.
Active(s) == session[s].at \in {"connect", "adopt", "exec", "wait", "finally"}

\* Who may be at work on the Pi.  A script belongs to a session that waits for it,
\* an active session has the lock, and there is one of them: without this the
\* lock that is given back could be another session's.
LockInv ==
    ~broken =>
        /\ \A s \in scripts : session[s].at = "wait"
        /\ \A s \in SESSIONS : Active(s) => running
        /\ \A s, q \in SESSIONS : Active(s) /\ Active(q) => s = q

\* Cards are numbered from 1, so a key that was reported is not "none stored".
KeyInv == reported # 0 => hostKey = reported

\* The inductive invariant: types, key and lock.
RemoteInv ==
    /\ card \in Nat \ {0}
    /\ scripts \subseteq SESSIONS
    /\ session \in [SESSIONS -> [at : Places, expected : Nat, seen : Nat]]
    /\ hostKey \in Nat
    /\ broken \in BOOLEAN /\ running \in BOOLEAN
    /\ KeyInv /\ LockInv

\* No click, no script.
LEMMA RemoteInitially == RemoteInit => RemoteInv
<1> SUFFICES ASSUME RemoteInit PROVE RemoteInv
  OBVIOUS
<1>1. session \in [SESSIONS -> [at : Places, expected : Nat, seen : Nat]]
  BY DEF RemoteInit, NoSession, Places
<1>2. \A s \in SESSIONS : ~Active(s)
  BY DEF RemoteInit, NoSession, Active
<1>3. broken \in BOOLEAN /\ running \in BOOLEAN
  BY Zenon DEF RemoteInit
<1>4. card = 1 /\ scripts = {} /\ hostKey = 0 /\ reported = 0
  BY DEF RemoteInit
<1>5. KeyInv /\ LockInv
  BY <1>2, <1>4, Zenon DEF KeyInv, LockInv
<1> QED
  BY <1>1, <1>3, <1>4, <1>5 DEF RemoteInv

\* Every step of a session, the Pi and the platform keeps the invariant.
LEMMA RemoteStep == RemoteInv /\ [RemoteNext]_remoteVars => RemoteInv'
<1> SUFFICES ASSUME RemoteInv, [RemoteNext]_remoteVars PROVE RemoteInv'
  OBVIOUS
<1>1. ASSUME NEW s \in SESSIONS, ReadSite(s) PROVE RemoteInv'
  <2> DEFINE click == [NoSession EXCEPT !.at = "read", !.expected = hostKey]
  <2>1. /\ session[s].at = "idle"
        /\ UNCHANGED <<hostKey, running, card, scripts, broken, reported>>
        /\ session' = [session EXCEPT ![s] = click]
    BY <1>1 DEF ReadSite
  <2>2. click \in [at : Places, expected : Nat, seen : Nat] /\ click.at = "read"
    BY DEF RemoteInv, Places, NoSession
  <2> HIDE DEF click
  <2>3. session' \in [SESSIONS -> [at : Places, expected : Nat, seen : Nat]]
    BY <2>1, <2>2 DEF RemoteInv
  <2>4. session'[s].at = "read" /\ \A q \in SESSIONS : q # s => session'[q] = session[q]
    BY <2>1, <2>2 DEF RemoteInv
  <2>5. \A q \in SESSIONS : Active(q)' <=> Active(q)
    BY <2>1, <2>4 DEF Active
  <2>6. ~broken => \A q \in scripts : session[q].at = "wait"
    BY DEF RemoteInv, LockInv
  <2>7. ~broken => \A q \in scripts : session'[q].at = "wait"
    BY <2>1, <2>4, <2>6 DEF RemoteInv
  <2> QED
    BY <2>1, <2>3, <2>5, <2>7 DEF RemoteInv, KeyInv, LockInv
<1> USE DEF RemoteInv, KeyInv, LockInv, Active, Places, NoSession
\* The lock is free: no session is active, and this one becomes the only one.
<1>2. ASSUME NEW s \in SESSIONS, Admit(s) PROVE RemoteInv'
  <2>1. CASE MayRun(s)
    BY <1>2, <2>1 DEF Admit, MayRun
  <2>2. CASE ~MayRun(s)
    BY <1>2, <2>2 DEF Admit
  <2> QED
    BY <2>1, <2>2
<1>3. ASSUME NEW s \in SESSIONS, Connect(s) PROVE RemoteInv'
  <2> DEFINE next(at) == [session EXCEPT ![s].at = at, ![s].seen = card]
  <2>1. session[s].at = "connect" /\ UNCHANGED <<hostKey, running, card, scripts, breaks, reported, broken>>
    BY <1>3 DEF Connect
  <2>2. PICK at \in {"adopt", "exec", "finally"} : session' = next(at)
    BY <1>3 DEF Connect
  <2>3. session' \in [SESSIONS -> [at : Places, expected : Nat, seen : Nat]]
    <3>1. session[s] \in [at : Places, expected : Nat, seen : Nat]
      OBVIOUS
    <3>2. [[session[s] EXCEPT !.at = at] EXCEPT !.seen = card] \in [at : Places, expected : Nat, seen : Nat]
      BY <3>1
    <3>3. session' = [session EXCEPT ![s] = [[session[s] EXCEPT !.at = at] EXCEPT !.seen = card]]
      BY <2>2
    <3> QED
      BY <3>2, <3>3
  <2>4. session'[s].at = at /\ \A q \in SESSIONS : q # s => session'[q] = session[q]
    BY <2>1, <2>2
  <2>5. \A q \in SESSIONS : Active(q)' <=> Active(q)
    BY <2>1, <2>4
  <2> HIDE DEF Active
  <2> QED
    BY <2>1, <2>3, <2>4, <2>5
\* The key seen is taken over only where none is stored, so none was reported.
<1>4. ASSUME NEW s \in SESSIONS, AdoptKey(s) PROVE RemoteInv'
  BY <1>4 DEF AdoptKey, Adopted
<1>5. ASSUME NEW s \in SESSIONS, Exec(s) PROVE RemoteInv'
  <2>1. CASE session[s].seen = card
    BY <1>5, <2>1 DEF Exec
  <2>2. CASE session[s].seen # card
    BY <1>5, <2>2 DEF Exec
  <2> QED
    BY <2>1, <2>2
<1>6. ASSUME NEW s \in SESSIONS, ScriptEnds(s) PROVE RemoteInv'
  <2>1. CASE session[s].at = "wait"
    BY <1>6, <2>1 DEF ScriptEnds
  <2>2. CASE session[s].at # "wait"
    BY <1>6, <2>2 DEF ScriptEnds
  <2> QED
    BY <2>1, <2>2
\* A session that breaks off before its script does leaves the case.
<1>7. ASSUME NEW s \in SESSIONS, BreakOff(s) PROVE RemoteInv'
  BY <1>7 DEF BreakOff
\* The lock that is given back is this session's: no other was active.
<1>8. ASSUME NEW s \in SESSIONS, Release(s) PROVE RemoteInv'
  BY <1>8 DEF Release
<1>9. CASE RestartRemote
  BY <1>9 DEF RestartRemote
<1>10. CASE ReplaceCard
  BY <1>10 DEF ReplaceCard
<1>11. CASE ReportKey
  BY <1>11 DEF ReportKey
<1>12. CASE UNCHANGED remoteVars
  BY <1>12 DEF remoteVars
<1> QED
  BY <1>1, <1>2, <1>3, <1>4, <1>5, <1>6, <1>7, <1>8, <1>9, <1>10, <1>11, <1>12 DEF RemoteNext

\* Scripts of one and the same session are one script.
LEMMA OneSessionOneScript == RemoteInv => OneScriptAtATime
<1> SUFFICES ASSUME RemoteInv, ~broken PROVE Cardinality(scripts) \in {0, 1}
  BY DEF OneScriptAtATime
<1>1. \A s, q \in scripts : s = q
  BY DEF RemoteInv, LockInv, Active
<1>2. CASE scripts = {}
  BY <1>2, FS_EmptySet
<1>3. CASE scripts # {}
  <2> PICK s \in scripts : scripts = {s}
    BY <1>1, <1>3
  <2>1. Cardinality({s}) = 1
    BY FS_Singleton
  <2> QED
    BY <2>1
<1> QED
  BY <1>2, <1>3

\* The invariant holds in every state of every instance.
LEMMA RemoteAlways == RemoteSpec => []RemoteInv
BY RemoteInitially, RemoteStep, PTL DEF RemoteSpec

\* A session that began with the key of the old card in hand never puts it in the
\* place of the one the gateway has reported.
THEOREM KeyStands == RemoteSpec => []ReportedKeyStands
<1>1. RemoteInv => ReportedKeyStands
  BY DEF RemoteInv, KeyInv, ReportedKeyStands
<1> QED
  BY <1>1, RemoteAlways, PTL

\* As long as every session ends after its script, the variable running is a lock:
\* two scripts never run on a Pi together, however many clicks there are.
THEOREM ScriptsOneAtATime == RemoteSpec => []OneScriptAtATime
BY RemoteAlways, OneSessionOneScript, PTL
-----------------------------------------------------------------------------
(***************************************************************************)
(* The SD card image.                                                      *)
(***************************************************************************)
JobPlaces == {"idle", "secret", "space", "release", "download", "hash", "tidy",
              "failed", "report", "finally", "sweep"} \cup Stages

Contents == [code : Nat, secret : Nat, base : {NoFile, "good", "bad"}]
\* Between the choice of a release and its unpacking a job knows which.
Based == {"download", "hash", "tidy", "unpack"}
JobRecord ==
    {j \in [at : JobPlaces, code : Nat, secret : Nat,
            release : RELEASES \cup {0}, old : SUBSET RELEASES] :
        j.at \in Based => j.release \in RELEASES}

ImageTypeOK ==
    /\ siteRow \in [code : Nat, expired : BOOLEAN, secret : Nat]
    /\ current \in BOOLEAN
    /\ job \in [REQUESTS -> JobRecord]
    /\ files \in [image : Contents, meta : Nat, error : {"none", "newer", "older"},
                  work : Contents, part : Contents]
    /\ baseDir \in [file : [RELEASES -> {NoFile, "good", "bad"}], marked : SUBSET RELEASES]
    /\ deleting \in {"no", "image", "meta", "error"}
    /\ codes \in Nat
    /\ lastBuild \in {"none", "ok", "failed", "unheard"}
    /\ doubled \in BOOLEAN /\ orphaned \in BOOLEAN

\* One request is on its way, beside builds that only sweep up.
OneBuild == \A r, q \in REQUESTS : Busy(r) /\ Busy(q) => r = q

\* A content that a build of the site as it is now would make, but for the code.
OfTheSite(content) ==
    /\ content.secret = siteRow.secret /\ siteRow.secret # 0
    /\ content.base = "good" \/ orphaned

\* Codes count upwards, in the row, in the metadata and in the image; the metadata
\* never run ahead of the image.
ImageKept ==
    /\ siteRow.code \in {0, codes} /\ files.meta <= codes
    /\ files.image # Missing =>
          /\ files.meta <= files.image.code /\ files.image.code <= codes
          /\ OfTheSite(files.image)

\* Up to the end of the build, unless it fails, a request has a code.
WithCode == JobPlaces \ {"idle", "failed", "report", "finally", "sweep"}

\* What a build has in hand, stage by stage - unless an earlier one, sweeping up, has
\* taken the work files away.
InHand(r) ==
    LET j == job[r]
    IN  /\ j.at = "secret" => siteRow.secret = 0
        /\ j.at \in {"space", "release", "download", "hash", "tidy", "unpack", "inject"} =>
              j.secret = siteRow.secret /\ siteRow.secret # 0
        /\ j.at \in WithCode => files.meta <= j.code /\ j.code <= codes
        /\ j.at \in {"download", "hash"} /\ ~orphaned => j.release \notin baseDir.marked
        /\ j.at = "tidy" => j.release \notin j.old /\ baseDir.file[j.release] = "good"
        /\ j.at # "tidy" => j.old = {}
        /\ j.at = "unpack" => baseDir.file[j.release] = "good" \/ orphaned
        /\ j.at = "inject" /\ files.work # Missing => files.work.base = "good" \/ orphaned
        /\ j.at = "compress" /\ files.work # Missing =>
              files.work.code = j.code /\ OfTheSite(files.work)
        /\ j.at = "rename" /\ files.part # Missing =>
              files.part.code = j.code /\ OfTheSite(files.part)
        /\ j.at \in {"open", "meta"} => files.image = Missing \/ files.image.code = j.code
        /\ j.at = "clear" => lastBuild # "failed"

\* A marker vouches for a good base image, or the clean-up is just about to
\* remove it after its image.
MarkersTrue ==
    ~orphaned =>
        \A v \in baseDir.marked :
            \/ baseDir.file[v] = "good"
            \/ baseDir.file[v] = NoFile /\ \E r \in REQUESTS : v \in job[r].old

\* The error file stands for a failed last build that could write it; beside an
\* image it may be an older one's where the last could not.
ErrorsTrue ==
    /\ lastBuild = "failed" => files.error = "newer"
    /\ files.error = "newer" /\ files.meta # 0 => lastBuild \in {"failed", "unheard"}

Followed ==
    /\ OneBuild /\ ImageKept /\ MarkersTrue /\ ErrorsTrue
    /\ \A r \in REQUESTS : InHand(r)

ImageInv == ImageTypeOK /\ (~doubled => Followed)

\* A request that moves on leaves the others at rest.
LEMMA OthersRest ==
    ASSUME ImageTypeOK, Followed, NEW r \in REQUESTS,
           \A q \in REQUESTS : q # r => ~Busy(q),
           \A q \in REQUESTS : q # r => job'[q] = job[q],
           InHand(r)'
    PROVE  OneBuild' /\ \A q \in REQUESTS : InHand(q)'
<1>1. ASSUME NEW q \in REQUESTS, q # r
      PROVE  job'[q].at \in {"idle", "sweep"} /\ job'[q].old = {}
  BY <1>1 DEF Followed, InHand, Busy
<1>2. OneBuild'
  BY <1>1 DEF OneBuild, Busy
<1>3. ASSUME NEW q \in REQUESTS PROVE InHand(q)'
  BY <1>1 DEF InHand, WithCode
<1> QED  BY <1>2, <1>3

\* The job of a request is a record, and an update of it stays one.
LEMMA JobMoves ==
    ASSUME ImageTypeOK, NEW r \in REQUESTS, NEW j, job' = [job EXCEPT ![r] = j]
    PROVE  /\ job'[r] = j
           /\ \A q \in REQUESTS : q # r => job'[q] = job[q]
           /\ j \in JobRecord => job' \in [REQUESTS -> JobRecord]
BY DEF ImageTypeOK

LEMMA ImageInitially == ImageInit => ImageInv
<1> SUFFICES ASSUME ImageInit PROVE ImageInv
  OBVIOUS
<1>1. Missing \in Contents /\ Resting \in JobRecord
  BY DEF Missing, Contents, Resting, JobRecord, Based, JobPlaces, NoFile
<1>2. ImageTypeOK
  BY <1>1 DEF ImageInit, ImageTypeOK, NoFile
<1>3. Followed
  BY <1>1 DEF ImageInit, Followed, OneBuild, Busy, ImageKept, MarkersTrue, ErrorsTrue,
              InHand, WithCode, Resting, Missing
<1> QED  BY <1>2, <1>3 DEF ImageInv

-----------------------------------------------------------------------------
\* Every step keeps the types: what it makes of its job is a record, and what it
\* makes of the files are files.
LEMMA ImageTypeStep ==
    ASSUME ImageTypeOK, [ImageNext]_imageVars
    PROVE  ImageTypeOK'
<1> DEFINE Bases == [file : [RELEASES -> {NoFile, "good", "bad"}], marked : SUBSET RELEASES]
           Files == [image : Contents, meta : Nat, error : {"none", "newer", "older"},
                     work : Contents, part : Contents]
           Others == /\ siteRow \in [code : Nat, expired : BOOLEAN, secret : Nat]
                     /\ current \in BOOLEAN
                     /\ deleting \in {"no", "image", "meta", "error"}
                     /\ codes \in Nat
                     /\ lastBuild \in {"none", "ok", "failed", "unheard"}
                     /\ doubled \in BOOLEAN /\ orphaned \in BOOLEAN
<1>0. /\ ImageTypeOK <=> Others /\ job \in [REQUESTS -> JobRecord] /\ files \in Files
                         /\ baseDir \in Bases
      /\ ImageTypeOK' <=> Others' /\ job' \in [REQUESTS -> JobRecord] /\ files' \in Files
                          /\ baseDir' \in Bases
  BY DEF ImageTypeOK
<1>a. /\ \A r \in REQUESTS : job[r] \in JobRecord
      /\ Missing \in Contents /\ Resting \in JobRecord
  BY <1>0 DEF Missing, Contents, Resting, JobRecord, Based, JobPlaces, NoFile
\* A place and, with it, one more field of the record.
<1>b. ASSUME NEW r \in REQUESTS, NEW at \in JobPlaces,
             at \in Based => job[r].at \in Based
      PROVE  /\ [job[r] EXCEPT !.at = at] \in JobRecord
             /\ \A n \in Nat : [job[r] EXCEPT !.at = at, !.secret = n] \in JobRecord
             /\ \A S \in SUBSET RELEASES : [job[r] EXCEPT !.at = at, !.old = S] \in JobRecord
  BY <1>a, <1>b DEF JobRecord
<1>v. ASSUME NEW r \in REQUESTS, NEW at \in JobPlaces, NEW v \in RELEASES
      PROVE  [job[r] EXCEPT !.at = at, !.release = v] \in JobRecord
  BY <1>a DEF JobRecord
<1>c. ASSUME NEW r \in REQUESTS, NEW j \in JobRecord, job' = [job EXCEPT ![r] = j]
      PROVE  job' \in [REQUESTS -> JobRecord]
  BY <1>0, <1>c
<1>d. ASSUME NEW r \in REQUESTS, Fails(r) PROVE job' \in [REQUESTS -> JobRecord]
  <2>1. [Resting EXCEPT !.at = "failed"] \in JobRecord
    BY DEF Resting, JobRecord, JobPlaces, Based
  <2> QED  BY <1>c, <1>d, <2>1 DEF Fails
<1>e. ASSUME NEW v, NEW content \in {NoFile, "good", "bad"}, baseDir \in Bases
      PROVE  [baseDir EXCEPT !.file[v] = content] \in Bases
  BY <1>e
\* New metadata, and what that makes of the age of the error file.
<1>f. ASSUME files \in Files, NEW n \in Nat, NEW error \in {"none", "newer", "older"}
      PROVE  [files EXCEPT !.meta = n, !.error = error] \in Files
  BY <1>f
<1> HIDE DEF Bases, Files
<1>1. ASSUME NEW r \in REQUESTS, Request(r) PROVE ImageTypeOK'
  <2> DEFINE j == [Resting EXCEPT !.at = IF siteRow.secret = 0 THEN "secret" ELSE "space",
                                  !.code = siteRow.code, !.secret = siteRow.secret]
  <2>1. j \in JobRecord
    BY <1>0 DEF Resting, JobRecord, JobPlaces, Based
  <2>2. job' = [job EXCEPT ![r] = j] /\ doubled' \in BOOLEAN
    BY <1>1 DEF Request
  <2> HIDE DEF j
  <2>3. job' \in [REQUESTS -> JobRecord]
    BY <1>c, <2>1, <2>2
  <2> QED  BY <1>0, <1>1, <2>2, <2>3 DEF Request
<1>2. ASSUME NEW r \in REQUESTS, MakeSecret(r) PROVE ImageTypeOK'
  <2>1. siteRow' \in [code : Nat, expired : BOOLEAN, secret : Nat]
    BY <1>0, <1>2 DEF MakeSecret
  <2> DEFINE n == siteRow'.secret
  <2>9. job' = [job EXCEPT ![r].at = "space", ![r].secret = n]
    BY <1>2 DEF MakeSecret
  <2>3. n \in Nat
    BY <2>1
  <2> HIDE DEF n
  <2>2. job' = [job EXCEPT ![r] = [job[r] EXCEPT !.at = "space", !.secret = n]]
    BY <2>9
  <2>4. [job[r] EXCEPT !.at = "space", !.secret = n] \in JobRecord
    BY <1>b, <2>3 DEF JobPlaces, Based
  <2>5. job' \in [REQUESTS -> JobRecord]
    BY <1>c, <2>2, <2>4
  <2> QED  BY <1>0, <1>2, <2>1, <2>5 DEF MakeSecret
<1>3. ASSUME NEW r \in REQUESTS, BeginBuild(r) PROVE ImageTypeOK'
  <2>1. current' \in BOOLEAN /\ lastBuild' \in {"none", "ok", "failed", "unheard"}
    BY <1>0, <1>3 DEF BeginBuild
  <2>2. PICK j \in JobRecord : job' = [job EXCEPT ![r] = j]
    <3>1. CASE job' = [job EXCEPT ![r].at = "release"]
      <4>1. job' = [job EXCEPT ![r] = [job[r] EXCEPT !.at = "release"]]
        BY <3>1
      <4> QED  BY <1>b, <4>1 DEF JobPlaces, Based
    <3>2. CASE job' = [job EXCEPT ![r] = Resting]
      BY <1>a, <3>2
    <3> QED  BY <1>3, <3>1, <3>2 DEF BeginBuild
  <2>3. job' \in [REQUESTS -> JobRecord]
    BY <1>c, <2>2
  <2> QED  BY <1>0, <1>3, <2>1, <2>3 DEF BeginBuild
<1>4. ASSUME NEW r \in REQUESTS, ChooseRelease(r) PROVE ImageTypeOK'
  <2>1. ASSUME NEW v \in RELEASES, NEW at \in {"unpack", "hash", "download"},
               job' = [job EXCEPT ![r].at = at, ![r].release = v]
        PROVE  job' \in [REQUESTS -> JobRecord]
    <3>1. job' = [job EXCEPT ![r] = [job[r] EXCEPT !.at = at, !.release = v]]
      BY <2>1
    <3>2. at \in JobPlaces
      BY DEF JobPlaces, Stages
    <3> QED  BY <1>v, <1>c, <3>1, <3>2
  <2>2. job' \in [REQUESTS -> JobRecord]
    BY <1>4, <1>d, <2>1 DEF ChooseRelease, Verified, Cached
  <2> QED  BY <1>0, <1>4, <2>2 DEF ChooseRelease
<1>5. ASSUME NEW r \in REQUESTS, Download(r) PROVE ImageTypeOK'
  <2>1. CASE Fails(r) /\ UNCHANGED baseDir
    BY <1>0, <1>5, <1>d, <2>1 DEF Download
  <2>2. ASSUME NEW content \in {"good", "bad"},
               baseDir' = [baseDir EXCEPT !.file[job[r].release] = content],
               job' = [job EXCEPT ![r].at = "hash"]
        PROVE  ImageTypeOK'
    <3>1. job' = [job EXCEPT ![r] = [job[r] EXCEPT !.at = "hash"]]
      BY <2>2
    <3>2. job' \in [REQUESTS -> JobRecord]
      BY <1>b, <1>c, <1>5, <3>1 DEF JobPlaces, Based, Download
    <3>3. baseDir' \in Bases
      BY <1>0, <1>e, <2>2
    <3> QED  BY <1>0, <1>5, <3>2, <3>3 DEF Download
  <2> QED  BY <1>5, <2>1, <2>2 DEF Download
<1>6. ASSUME NEW r \in REQUESTS, Hash(r) PROVE ImageTypeOK'
  <2> DEFINE v == job[r].release
  <2>1. v \in RELEASES
    BY <1>a, <1>6 DEF Hash, JobRecord, Based
  <2>2. baseDir' \in Bases
    <3>1. [baseDir EXCEPT !.marked = @ \cup {v}] \in Bases
      BY <1>0, <2>1 DEF Bases
    <3> QED  BY <1>0, <1>e, <1>6, <3>1 DEF Hash
  <2>3. job' \in [REQUESTS -> JobRecord]
    <3>1. ASSUME job' = [job EXCEPT ![r].at = "tidy", ![r].old = Cached \ {v}]
          PROVE  job' \in [REQUESTS -> JobRecord]
      <4>1. job' = [job EXCEPT ![r] = [job[r] EXCEPT !.at = "tidy", !.old = Cached \ {v}]]
        BY <3>1
      <4>2. [job[r] EXCEPT !.at = "tidy", !.old = Cached \ {v}] \in JobRecord
        BY <1>b, <1>6 DEF JobPlaces, Cached, Based, Hash
      <4> QED  BY <1>c, <4>1, <4>2
    <3> QED  BY <1>6, <1>d, <3>1 DEF Hash
  <2> QED  BY <1>0, <1>6, <2>2, <2>3 DEF Hash
<1>7. ASSUME NEW r \in REQUESTS, Tidy(r) PROVE ImageTypeOK'
  <2>1. job' \in [REQUESTS -> JobRecord]
    <3>1. CASE job' = [job EXCEPT ![r].at = "unpack"]
      <4>1. job' = [job EXCEPT ![r] = [job[r] EXCEPT !.at = "unpack"]]
        BY <3>1
      <4>2. [job[r] EXCEPT !.at = "unpack"] \in JobRecord
        BY <1>b, <1>7 DEF JobPlaces, Stages, Based, Tidy
      <4> QED  BY <1>c, <4>1, <4>2
    <3>2. ASSUME NEW v, job' = [job EXCEPT ![r].old = @ \ {v}]
          PROVE  job' \in [REQUESTS -> JobRecord]
      <4>1. job' = [job EXCEPT ![r] = [job[r] EXCEPT !.old = @ \ {v}]]
        BY <3>2
      <4>2. [job[r] EXCEPT !.old = @ \ {v}] \in JobRecord
        BY <1>a DEF JobRecord
      <4> QED  BY <1>c, <4>1, <4>2
    <3> QED  BY <1>0, <1>7, <1>d, <3>1, <3>2 DEF Tidy
  <2>2. baseDir' \in Bases
    <3>1. ASSUME NEW v, baseDir' = [baseDir EXCEPT !.marked = @ \ {v}]
          PROVE  baseDir' \in Bases
      BY <1>0, <3>1 DEF Bases
    <3> QED  BY <1>0, <1>e, <1>7, <3>1 DEF Tidy
  <2>3. orphaned' \in BOOLEAN
    BY <1>0, <1>7 DEF Tidy
  <2> QED  BY <1>0, <1>7, <2>1, <2>2, <2>3 DEF Tidy
<1>8. ASSUME NEW r \in REQUESTS, Build(r) PROVE ImageTypeOK'
  <2>0. job[r].at \in Stages /\ Then(job[r].at) \in JobPlaces /\ Then(job[r].at) \notin Based
    BY <1>8 DEF Build, Stages, Then, JobPlaces, Based
  <2>1. CASE Fails(r) /\ UNCHANGED <<files, lastBuild>>
    BY <1>0, <1>8, <1>d, <2>1 DEF Build
  <2>2. CASE /\ StageDone(r)
             /\ job' = [job EXCEPT ![r].at = Then(@), ![r].release = 0,
                          ![r].secret = IF job[r].at = "unpack" THEN @ ELSE 0]
    <3> DEFINE secret == IF job[r].at = "unpack" THEN job[r].secret ELSE 0
    <3>1. job' = [job EXCEPT ![r] = [job[r] EXCEPT !.at = Then(@), !.release = 0, !.secret = secret]]
      BY <2>2
    <3>2. [job[r] EXCEPT !.at = Then(@), !.release = 0, !.secret = secret] \in JobRecord
      BY <1>a, <2>0 DEF JobRecord
    <3>3. job' \in [REQUESTS -> JobRecord]
      BY <1>c, <3>1, <3>2
    <3>4. files' \in Files
      <4>1. files \in Files /\ job[r].code \in Nat /\ job[r].secret \in Nat
        BY <1>0, <1>a DEF JobRecord
      <4>2. CASE job[r].at = "unpack"
        <5>1. baseDir.file[job[r].release] \in {NoFile, "good", "bad"}
          BY <1>0, <1>a, <4>2 DEF Bases, JobRecord, Based
        <5>2. [Missing EXCEPT !.base = baseDir.file[job[r].release]] \in Contents
          BY <1>a, <5>1 DEF Contents
        <5>3. files' = [files EXCEPT !.work = [Missing EXCEPT !.base = baseDir.file[job[r].release]]]
          BY <2>2, <4>2 DEF StageDone
        <5> QED  BY <4>1, <5>2, <5>3 DEF Files
      <4>3. CASE job[r].at = "inject"
        <5>1. files' = [files EXCEPT !.work = [files.work EXCEPT !.code = job[r].code,
                                                                 !.secret = job[r].secret]]
          BY <2>2, <4>1, <4>3 DEF StageDone, Files
        <5>2. [files.work EXCEPT !.code = job[r].code, !.secret = job[r].secret] \in Contents
          BY <4>1 DEF Files, Contents
        <5> QED  BY <4>1, <5>1, <5>2 DEF Files
      <4>4. CASE job[r].at = "compress"
        BY <2>2, <4>1, <4>4 DEF StageDone, Files
      <4>5. CASE job[r].at = "rename"
        BY <1>a, <2>2, <4>1, <4>5 DEF StageDone, Files
      <4>6. CASE job[r].at \in {"open", "meta"}
        <5>1. files.error \in {"none", "newer", "older"}
          BY <4>1 DEF Files
        <5>2. \E n \in Nat, error \in {"none", "newer", "older"} :
                files' = [files EXCEPT !.meta = n, !.error = error]
          <6>1. CASE job[r].at = "open"
            BY <2>2, <5>1, <6>1 DEF StageDone
          <6>2. CASE job[r].at = "meta"
            BY <2>2, <4>1, <5>1, <6>2 DEF StageDone
          <6> QED  BY <4>6, <6>1, <6>2
        <5> QED  BY <1>f, <4>1, <5>2
      <4>7. CASE job[r].at = "clear"
        BY <2>2, <4>1, <4>7 DEF StageDone, Files
      <4> QED  BY <2>0, <4>2, <4>3, <4>4, <4>5, <4>6, <4>7 DEF Stages
    <3>5. lastBuild' \in {"none", "ok", "failed", "unheard"}
      BY <1>0, <1>8 DEF Build
    <3>6. UNCHANGED <<siteRow, current, baseDir, deleting, codes, crashes, doubled, orphaned>>
      BY <1>8 DEF Build
    <3> QED  BY <1>0, <3>3, <3>4, <3>5, <3>6
  <2> QED  BY <1>8, <2>1, <2>2 DEF Build
<1>9. ASSUME NEW r \in REQUESTS, Report(r) \/ Finally(r) \/ Sweep(r) PROVE ImageTypeOK'
  <2>1. job' \in [REQUESTS -> JobRecord]
    <3>1. ASSUME NEW at \in {"report", "finally"}, job' = [job EXCEPT ![r].at = at]
          PROVE  job' \in [REQUESTS -> JobRecord]
      <4>1. job' = [job EXCEPT ![r] = [job[r] EXCEPT !.at = at]]
        BY <3>1
      <4>2. [job[r] EXCEPT !.at = at] \in JobRecord
        BY <1>b DEF JobPlaces, Based
      <4> QED  BY <1>c, <4>1, <4>2
    <3>2. [Resting EXCEPT !.at = "sweep"] \in JobRecord
      BY DEF Resting, JobRecord, JobPlaces, Based
    <3> QED  BY <1>9, <1>a, <1>c, <3>1, <3>2 DEF Report, Finally, Sweep
  <2>2. files' \in Files
    BY <1>0, <1>9, <1>a DEF Report, Finally, Sweep, Files
  <2>3. lastBuild' \in {"none", "ok", "failed", "unheard"} /\ current' \in BOOLEAN
    BY <1>0, <1>9 DEF Report, Finally, Sweep
  <2> QED  BY <1>0, <1>9, <2>1, <2>2, <2>3 DEF Report, Finally, Sweep
<1>10. CASE CrashImage
  <2>1. orphaned' \in BOOLEAN /\ job' \in [REQUESTS -> JobRecord]
    BY <1>0, <1>a, <1>10 DEF CrashImage
  <2>2. files' \in Files
    BY <1>0, <1>10, <1>a DEF CrashImage, Files
  <2> QED  BY <1>0, <1>10, <2>1, <2>2 DEF CrashImage
<1>11. CASE NewCode \/ Expire \/ Fertig
  <2>1. siteRow' \in [code : Nat, expired : BOOLEAN, secret : Nat] /\ codes' \in Nat
    <3>1. siteRow \in [code : Nat, expired : BOOLEAN, secret : Nat] /\ codes \in Nat
      BY <1>0
    <3>2. CASE NewCode
      <4>1. siteRow' = [siteRow EXCEPT !.code = codes + 1, !.expired = FALSE] /\ codes' = codes + 1
        BY <3>2 DEF NewCode
      <4> DEFINE n == codes + 1
      <4>2. n \in Nat
        BY <3>1
      <4>3. siteRow' = [siteRow EXCEPT !.code = n, !.expired = FALSE] /\ codes' = n
        BY <4>1
      <4> HIDE DEF n
      <4>4. siteRow' \in [code : Nat, expired : BOOLEAN, secret : Nat]
        BY <3>1, <4>2, <4>3
      <4> QED  BY <4>2, <4>3, <4>4
    <3>3. CASE Expire
      BY <3>1, <3>3 DEF Expire
    <3>4. CASE Fertig
      BY <3>1, <3>4 DEF Fertig
    <3> QED  BY <1>11, <3>2, <3>3, <3>4
  <2>2. deleting' \in {"no", "image", "meta", "error"}
    BY <1>0, <1>11 DEF NewCode, Expire, Fertig
  <2> QED  BY <1>0, <1>11, <2>1, <2>2 DEF NewCode, Expire, Fertig
<1>12. CASE DeleteFile
  <2>1. files' \in Files
    <3>1. files.error \in {"none", "newer", "older"}
      BY <1>0 DEF Files
    <3>2. CASE files' = [files EXCEPT !.meta = 0, !.error = IF @ = "older" THEN "newer" ELSE @]
      BY <1>0, <1>f, <3>1, <3>2
    <3>3. CASE files' \in {files, [files EXCEPT !.image = Missing], [files EXCEPT !.error = "none"]}
      BY <1>0, <1>a, <3>3 DEF Files
    <3> QED  BY <1>0, <1>12, <3>2, <3>3 DEF DeleteFile
  <2>2. /\ deleting' \in {"no", "image", "meta", "error"}
        /\ lastBuild' \in {"none", "ok", "failed", "unheard"}
    BY <1>0, <1>12 DEF DeleteFile
  <2> QED  BY <1>0, <1>12, <2>1, <2>2 DEF DeleteFile
<1>13. CASE UNCHANGED imageVars
  BY <1>0, <1>13 DEF imageVars
<1> QED
  BY <1>1, <1>2, <1>3, <1>4, <1>5, <1>6, <1>7, <1>8, <1>9, <1>10, <1>11, <1>12, <1>13
  DEF ImageNext, NotFollowed

-----------------------------------------------------------------------------
\* What a step does not touch, it keeps.
LEMMA ImageFrames ==
    /\ ImageKept /\ UNCHANGED <<siteRow, codes, files, orphaned>> => ImageKept'
    /\ ErrorsTrue /\ UNCHANGED <<files, lastBuild>> => ErrorsTrue'
    /\ MarkersTrue /\ UNCHANGED <<baseDir, orphaned>>
         /\ (\A r \in REQUESTS : job[r].old \subseteq job'[r].old) => MarkersTrue'
BY DEF ImageKept, OfTheSite, ErrorsTrue, MarkersTrue

\* Something throws: files and site stay as they are, and the job knows no more of
\* what it was about.
LEMMA JobFails ==
    ASSUME ImageTypeOK, Followed, NEW r \in REQUESTS, Fails(r),
           \A q \in REQUESTS : q # r => ~Busy(q),
           UNCHANGED <<siteRow, codes, files, lastBuild>>, orphaned => orphaned',
           MarkersTrue'
    PROVE  Followed'
<1>1. job'[r] = [Resting EXCEPT !.at = "failed"] /\ \A q \in REQUESTS : q # r => job'[q] = job[q]
  BY JobMoves DEF Fails
<1>2. InHand(r)'
  BY <1>1 DEF InHand, Resting, WithCode
<1>3. OneBuild' /\ \A q \in REQUESTS : InHand(q)'
  BY <1>1, <1>2, OthersRest
<1>4. ImageKept' /\ ErrorsTrue'
  BY DEF Followed, ImageKept, OfTheSite, ErrorsTrue
<1> QED  BY <1>3, <1>4 DEF Followed

\* Up to the build: the request, the password, the lock and the base image.
LEMMA PreparesStep ==
    ASSUME ImageTypeOK, Followed, ~doubled', NEW r \in REQUESTS,
           \/ Request(r) \/ MakeSecret(r) \/ BeginBuild(r)
           \/ ChooseRelease(r) \/ Download(r) \/ Hash(r) \/ Tidy(r)
    PROVE  Followed'
<1>0. /\ job[r] \in JobRecord /\ InHand(r) /\ OneBuild /\ ImageKept /\ MarkersTrue /\ ErrorsTrue
      /\ siteRow.code \in Nat /\ siteRow.secret \in Nat /\ codes \in Nat /\ files.meta \in Nat
  BY DEF ImageTypeOK, Followed
<1>1. \A q \in REQUESTS : q # r => ~Busy(q) /\ job[q].old = {}
  <2>1. \A q \in REQUESTS : q # r => ~Busy(q)
    <3>1. CASE Request(r)
      BY <3>1 DEF Request
    <3>2. CASE ~Request(r)
      <4>1. Busy(r)
        BY <3>2 DEF Busy, MakeSecret, BeginBuild, ChooseRelease, Download, Hash, Tidy
      <4> QED  BY <1>0, <4>1 DEF OneBuild
    <3> QED  BY <3>1, <3>2
  <2> QED  BY <2>1 DEF Followed, InHand, Busy
<1>2. ASSUME NEW j, job' = [job EXCEPT ![r] = j], InHand(r)',
             ImageKept', MarkersTrue', ErrorsTrue'
      PROVE  Followed'
  <2>1. job'[r] = j /\ \A q \in REQUESTS : q # r => job'[q] = job[q]
    BY <1>2, JobMoves
  <2>2. OneBuild' /\ \A q \in REQUESTS : InHand(q)'
    BY <1>1, <1>2, <2>1, OthersRest
  <2> QED  BY <1>2, <2>2 DEF Followed
<1>3. CASE Request(r)
  <2> DEFINE j == [Resting EXCEPT !.at = IF siteRow.secret = 0 THEN "secret" ELSE "space",
                                  !.code = siteRow.code, !.secret = siteRow.secret]
  <2>1. job' = [job EXCEPT ![r] = j] /\ ~current' /\ siteRow.code # 0
        /\ UNCHANGED <<siteRow, current, files, baseDir, deleting, codes, crashes, lastBuild, orphaned>>
    BY <1>3 DEF Request, MayStart
  <2>2. job'[r] = j /\ \A q \in REQUESTS : q # r => job'[q] = job[q]
    BY <2>1, JobMoves
  <2>3. job[r].at = "idle" /\ job[r].old = {}
    BY <1>0, <1>3 DEF Request, InHand
  <2>9. /\ j.at \in {"secret", "space"} /\ (j.at = "secret" <=> siteRow.secret = 0)
        /\ j.code = siteRow.code /\ j.secret = siteRow.secret /\ j.old = {}
    BY DEF Resting
  <2> HIDE DEF j
  <2>4. InHand(r)'
    BY <1>0, <2>1, <2>2, <2>9 DEF InHand, ImageKept, WithCode
  <2>5. ImageKept' /\ MarkersTrue' /\ ErrorsTrue'
    BY <1>0, <2>1, <2>2, <2>3, ImageFrames
  <2> QED  BY <1>2, <2>1, <2>4, <2>5
<1>4. CASE MakeSecret(r)
  <2> DEFINE n == siteRow'.secret
  <2>1. /\ job' = [job EXCEPT ![r].at = "space", ![r].secret = n]
        /\ siteRow' = [siteRow EXCEPT !.secret = @ + 1] /\ job[r].at = "secret"
        /\ UNCHANGED <<current, files, baseDir, deleting, codes, crashes, lastBuild, doubled, orphaned>>
    BY <1>4 DEF MakeSecret
  <2>2. n # 0 /\ siteRow'.code = siteRow.code /\ siteRow.secret = 0
    BY <1>0, <2>1 DEF InHand, ImageTypeOK
  <2> DEFINE j == [job[r] EXCEPT !.at = "space", !.secret = n]
  <2> HIDE DEF n
  <2>3. job' = [job EXCEPT ![r] = j]
    BY <2>1
  <2>4. /\ j.at = "space" /\ j.secret = n /\ j.code = job[r].code /\ j.old = job[r].old
    BY <1>0 DEF JobRecord
  <2> HIDE DEF j
  <2>5. job'[r] = j /\ \A q \in REQUESTS : q # r => job'[q] = job[q]
    BY <2>3, JobMoves
  <2>6. InHand(r)'
    BY <1>0, <2>1, <2>2, <2>4, <2>5 DEF InHand, n, WithCode, JobPlaces
  <2>7. ImageKept'
    BY <1>0, <2>1, <2>2 DEF ImageKept, OfTheSite
  <2>9. MarkersTrue' /\ ErrorsTrue'
    BY <1>0, <2>1, <2>4, <2>5, ImageFrames
  <2> QED  BY <1>2, <2>3, <2>6, <2>7, <2>9
<1>5. CASE BeginBuild(r)
  <2>1. /\ job[r].at = "space" /\ lastBuild' \in {lastBuild, "unheard"}
        /\ UNCHANGED <<siteRow, files, baseDir, deleting, codes, crashes, doubled, orphaned>>
    BY <1>5 DEF BeginBuild
  <2>2. ErrorsTrue'
    BY <1>0, <2>1 DEF ErrorsTrue
  <2>3. ASSUME NEW j, job' = [job EXCEPT ![r] = j],
               j = [job[r] EXCEPT !.at = "release"] \/ j = Resting
        PROVE  Followed'
    <3>1. job'[r] = j /\ \A q \in REQUESTS : q # r => job'[q] = job[q]
      BY <2>3, JobMoves
    <3>2. job[r].old = {} /\ j.old = {}
      BY <1>0, <2>1, <2>3 DEF InHand, JobRecord, Resting
    <3>3. InHand(r)'
      <4>1. CASE j = [job[r] EXCEPT !.at = "release"]
        <5>1. j.at = "release" /\ j.secret = job[r].secret /\ j.code = job[r].code
          BY <1>0, <4>1 DEF JobRecord
        <5> QED  BY <1>0, <2>1, <3>1, <3>2, <5>1 DEF InHand, WithCode, JobPlaces
      <4>2. CASE j = Resting
        BY <2>1, <3>1, <4>2 DEF InHand, Resting, WithCode
      <4> QED  BY <2>3, <4>1, <4>2
    <3>4. ImageKept' /\ MarkersTrue'
      BY <1>0, <2>1, <3>1, <3>2, ImageFrames
    <3> QED  BY <1>2, <2>2, <2>3, <3>3, <3>4
  <2>4. CASE job' = [job EXCEPT ![r].at = "release"]
    <3>1. job' = [job EXCEPT ![r] = [job[r] EXCEPT !.at = "release"]]
      BY <2>4
    <3> QED  BY <2>3, <3>1
  <2>5. CASE job' = [job EXCEPT ![r] = Resting]
    BY <2>3, <2>5
  <2> QED  BY <1>5, <2>4, <2>5 DEF BeginBuild
\* A verified image is a good one; another one has no marker yet.
<1>6. CASE ChooseRelease(r)
  <2>1. job[r].at = "release" /\ UNCHANGED <<siteRow, current, files, baseDir, deleting,
                                      codes, crashes, lastBuild, doubled, orphaned>>
    BY <1>6 DEF ChooseRelease
  <2>2. \A q \in REQUESTS : job[q].old = {}
    BY <1>0, <1>1, <2>1 DEF InHand
  <2>3. ~orphaned => \A v \in baseDir.marked : baseDir.file[v] = "good"
    BY <1>0, <2>2 DEF MarkersTrue
  <2>4. ASSUME NEW at, NEW v, job' = [job EXCEPT ![r] = [job[r] EXCEPT !.at = at, !.release = v]],
               \/ at = "unpack" /\ v \in Verified
               \/ at \in {"hash", "download"} /\ v \in RELEASES \ Verified
                  /\ (at = "hash" <=> v \in Cached)
        PROVE  Followed'
    <3> DEFINE j == [job[r] EXCEPT !.at = at, !.release = v]
    <3>1. j.at = at /\ j.release = v /\ j.secret = job[r].secret /\ j.code = job[r].code
          /\ j.old = job[r].old
      BY <1>0 DEF JobRecord
    <3> HIDE DEF j
    <3>2. job'[r] = j /\ \A q \in REQUESTS : q # r => job'[q] = job[q]
      BY <2>4, JobMoves DEF j
    <3>3. at \in {"hash", "download"} /\ ~orphaned => v \notin baseDir.marked
      BY <2>3, <2>4 DEF Verified, Cached, NoFile
    <3>4. at = "unpack" /\ ~orphaned => baseDir.file[v] = "good"
      BY <2>3, <2>4 DEF Verified
    <3>5. at \in {"unpack", "hash", "download"}
      BY <2>4
    <3>6. InHand(r)'
      BY <1>0, <2>1, <2>2, <3>1, <3>2, <3>3, <3>4, <3>5 DEF InHand, WithCode, JobPlaces
    <3>7. ImageKept' /\ MarkersTrue' /\ ErrorsTrue'
      BY <1>0, <2>1, <3>1, <3>2, ImageFrames
    <3> QED  BY <1>2, <2>4, <3>6, <3>7 DEF j
  <2>5. CASE Fails(r)
    <3>1. MarkersTrue'
      BY <2>1, <2>3 DEF MarkersTrue
    <3> QED  BY <1>1, <2>1, <2>5, <3>1, JobFails
  <2>7. ASSUME NEW v \in Verified, job' = [job EXCEPT ![r].at = "unpack", ![r].release = v]
        PROVE  Followed'
    <3>1. job' = [job EXCEPT ![r] = [job[r] EXCEPT !.at = "unpack", !.release = v]]
      BY <2>7
    <3> QED  BY <2>4, <2>7, <3>1
  <2>8. ASSUME NEW v \in RELEASES \ Verified,
               job' = [job EXCEPT ![r].at = IF v \in Cached THEN "hash" ELSE "download",
                                  ![r].release = v]
        PROVE  Followed'
    <3> DEFINE at == IF v \in Cached THEN "hash" ELSE "download"
    <3>1. job' = [job EXCEPT ![r].at = at, ![r].release = v]
      BY <2>8
    <3>2. at \in {"hash", "download"} /\ (at = "hash" <=> v \in Cached)
      OBVIOUS
    <3> HIDE DEF at
    <3>3. job' = [job EXCEPT ![r] = [job[r] EXCEPT !.at = at, !.release = v]]
      BY <3>1
    <3> QED  BY <2>4, <2>8, <3>2, <3>3
  <2> QED  BY <1>6, <2>5, <2>7, <2>8 DEF ChooseRelease
\* Only what no marker vouches for is downloaded.
<1>7. CASE Download(r)
  <2>1. /\ job[r].at = "download" /\ job[r].release \in RELEASES /\ job[r].old = {}
        /\ ~orphaned => job[r].release \notin baseDir.marked
        /\ UNCHANGED <<siteRow, current, files, deleting, codes, crashes, lastBuild,
                       doubled, orphaned>>
    BY <1>0, <1>7 DEF Download, InHand, JobRecord, Based
  <2>2. \A q \in REQUESTS : job[q].old = {}
    BY <1>1, <2>1
  <2>3. /\ baseDir'.marked = baseDir.marked
        /\ \A v \in RELEASES : v # job[r].release => baseDir'.file[v] = baseDir.file[v]
        /\ job' = [job EXCEPT ![r].at = "hash"] \/ Fails(r)
    BY <1>7 DEF Download, ImageTypeOK
  <2>4. MarkersTrue'
    BY <1>0, <2>1, <2>2, <2>3 DEF MarkersTrue, ImageTypeOK
  <2>5. CASE Fails(r)
    BY <1>1, <2>1, <2>4, <2>5, JobFails
  <2>6. CASE job' = [job EXCEPT ![r].at = "hash"]
    <3> DEFINE j == [job[r] EXCEPT !.at = "hash"]
    <3>1. job' = [job EXCEPT ![r] = j]
      BY <2>6
    <3>2. j.at = "hash" /\ j.release = job[r].release /\ j.secret = job[r].secret
          /\ j.code = job[r].code /\ j.old = {}
      BY <1>0, <2>1 DEF JobRecord
    <3> HIDE DEF j
    <3>3. job'[r] = j
      BY <3>1, JobMoves
    <3>4. InHand(r)'
      BY <1>0, <2>1, <2>3, <3>2, <3>3 DEF InHand, WithCode, JobPlaces
    <3>5. ImageKept' /\ ErrorsTrue'
      BY <1>0, <2>1, ImageFrames
    <3> QED  BY <1>2, <2>4, <3>1, <3>4, <3>5
  <2> QED  BY <2>3, <2>5, <2>6
\* A marker is set on a good file, and a bad file goes that has none.
<1>8. CASE Hash(r)
  <2> DEFINE v == job[r].release
  <2>1. /\ job[r].at = "hash" /\ v \in RELEASES /\ job[r].old = {}
        /\ ~orphaned => v \notin baseDir.marked
        /\ UNCHANGED <<siteRow, current, files, deleting, codes, crashes, lastBuild,
                       doubled, orphaned>>
    BY <1>0, <1>8 DEF Hash, InHand, JobRecord, Based
  <2>2. \A q \in REQUESTS : job[q].old = {}
    BY <1>1, <2>1
  <2>3. \/ UNCHANGED baseDir
        \/ /\ baseDir.file[v] = "good"
           /\ baseDir'.file = baseDir.file /\ baseDir'.marked = baseDir.marked \cup {v}
        \/ /\ baseDir'.marked = baseDir.marked
           /\ \A w \in RELEASES : w # v => baseDir'.file[w] = baseDir.file[w]
    BY <1>8 DEF Hash, ImageTypeOK
  <2>4. MarkersTrue'
    BY <1>0, <2>1, <2>2, <2>3 DEF MarkersTrue, ImageTypeOK
  <2>5. CASE Fails(r)
    BY <1>1, <2>1, <2>4, <2>5, JobFails
  <2>6. CASE /\ baseDir.file[v] = "good"
             /\ baseDir' = [baseDir EXCEPT !.marked = @ \cup {v}]
             /\ job' = [job EXCEPT ![r].at = "tidy", ![r].old = Cached \ {v}]
    <3> DEFINE j == [job[r] EXCEPT !.at = "tidy", !.old = Cached \ {v}]
    <3>1. job' = [job EXCEPT ![r] = j] /\ baseDir'.file[v] = "good"
      BY <2>6 DEF ImageTypeOK
    <3>2. j.at = "tidy" /\ j.release = v /\ j.secret = job[r].secret
          /\ j.code = job[r].code /\ v \notin j.old
      BY <1>0 DEF JobRecord
    <3> HIDE DEF j
    <3>3. job'[r] = j
      BY <3>1, JobMoves
    <3>4. InHand(r)'
      BY <1>0, <2>1, <3>1, <3>2, <3>3 DEF InHand, WithCode, JobPlaces
    <3>5. ImageKept' /\ ErrorsTrue'
      BY <1>0, <2>1, ImageFrames
    <3> QED  BY <1>2, <2>4, <3>1, <3>4, <3>5
  <2> QED  BY <1>8, <2>5, <2>6 DEF Hash
\* First the image, then its marker; the one that was just checked stays.
<1>9. CASE Tidy(r)
  <2>1. /\ job[r].at = "tidy" /\ job[r].release \in RELEASES /\ job[r].old \subseteq RELEASES
        /\ job[r].release \notin job[r].old /\ baseDir.file[job[r].release] = "good"
        /\ UNCHANGED <<siteRow, current, files, deleting, codes, crashes, lastBuild, doubled>>
    BY <1>0, <1>9 DEF Tidy, InHand, JobRecord, Based
  <2>3. ASSUME NEW j, job' = [job EXCEPT ![r] = j], j.at \in {"unpack", "tidy"},
               j.release = job[r].release, j.secret = job[r].secret, j.code = job[r].code,
               j.old \subseteq job[r].old, j.at = "unpack" => j.old = {},
               baseDir'.file[job[r].release] = "good", MarkersTrue', UNCHANGED orphaned
        PROVE  Followed'
    <3>1. job'[r] = j /\ \A q \in REQUESTS : q # r => job'[q] = job[q]
      BY <2>3, JobMoves
    <3>2. InHand(r)'
      BY <1>0, <2>1, <2>3, <3>1 DEF InHand, WithCode, JobPlaces
    <3>3. ImageKept' /\ ErrorsTrue'
      BY <1>0, <2>1, <2>3, ImageFrames
    <3> QED  BY <1>2, <2>3, <3>2, <3>3
  <2>4. CASE /\ job[r].old = {} /\ job' = [job EXCEPT ![r].at = "unpack"]
             /\ UNCHANGED <<baseDir, orphaned>>
    <3> DEFINE j == [job[r] EXCEPT !.at = "unpack"]
    <3>1. job' = [job EXCEPT ![r] = j] /\ UNCHANGED <<baseDir, orphaned>>
      BY <2>4
    <3>2. j.at = "unpack" /\ j.release = job[r].release /\ j.secret = job[r].secret
          /\ j.code = job[r].code /\ j.old = job[r].old
      BY <1>0 DEF JobRecord
    <3> HIDE DEF j
    <3>3. job'[r] = j /\ \A q \in REQUESTS : q # r => job'[q] = job[q]
      BY <3>1, JobMoves
    <3>4. MarkersTrue'
      BY <1>0, <2>1, <3>1, <3>2, <3>3, ImageFrames
    <3> QED  BY <2>1, <2>3, <2>4, <3>1, <3>2, <3>4
  <2>5. ASSUME NEW v \in job[r].old, baseDir.file[v] # NoFile,
               baseDir' = [baseDir EXCEPT !.file[v] = NoFile], UNCHANGED <<job, orphaned>>
        PROVE  Followed'
    <3>1. /\ baseDir'.marked = baseDir.marked /\ baseDir'.file[v] = NoFile
          /\ \A w \in RELEASES : w # v => baseDir'.file[w] = baseDir.file[w]
      BY <2>1, <2>5 DEF ImageTypeOK
    <3>2. MarkersTrue'
      BY <1>0, <2>1, <2>5, <3>1 DEF MarkersTrue, ImageTypeOK
    <3>3. job' = [job EXCEPT ![r] = job[r]]
      BY <2>5 DEF ImageTypeOK
    <3>4. baseDir'.file[job[r].release] = "good"
      BY <2>1, <2>5, <3>1
    <3> QED  BY <2>1, <2>3, <2>5, <3>2, <3>3, <3>4
  <2>6. ASSUME NEW v \in job[r].old, baseDir.file[v] = NoFile,
               baseDir' = [baseDir EXCEPT !.marked = @ \ {v}],
               job' = [job EXCEPT ![r].old = @ \ {v}], UNCHANGED orphaned
        PROVE  Followed'
    <3> DEFINE j == [job[r] EXCEPT !.old = @ \ {v}]
    <3>1. /\ job' = [job EXCEPT ![r] = j]
          /\ baseDir'.file = baseDir.file /\ baseDir'.marked = baseDir.marked \ {v}
      BY <2>6 DEF ImageTypeOK
    <3>2. j.at = "tidy" /\ j.release = job[r].release /\ j.secret = job[r].secret
          /\ j.code = job[r].code /\ j.old = job[r].old \ {v}
      BY <1>0, <2>1 DEF JobRecord
    <3> HIDE DEF j
    <3>3. job'[r] = j /\ \A q \in REQUESTS : q # r => job'[q] = job[q]
      BY <3>1, JobMoves
    <3>4. MarkersTrue'
      BY <1>0, <2>1, <2>6, <3>1, <3>2, <3>3 DEF MarkersTrue
    <3> QED  BY <2>1, <2>3, <2>6, <3>1, <3>2, <3>4
\* It may stop anywhere; a marker that is left without its image is counted.
  <2>7. CASE /\ Fails(r) /\ UNCHANGED baseDir
             /\ orphaned' = (orphaned \/ Orphans(r) # {})
    <3>1. MarkersTrue'
      BY <1>0, <1>1, <2>7 DEF MarkersTrue, Orphans, ImageTypeOK
    <3> QED  BY <1>1, <2>1, <2>7, <3>1, JobFails
  <2> QED  BY <1>9, <2>4, <2>5, <2>6, <2>7 DEF Tidy
<1> QED  BY <1>3, <1>4, <1>5, <1>6, <1>7, <1>8, <1>9

\* The build itself: each stage makes of the files what the next one relies on.
LEMMA BuildsStep ==
    ASSUME ImageTypeOK, Followed, ~doubled', NEW r \in REQUESTS,
           Build(r) \/ Report(r) \/ Finally(r)
    PROVE  Followed'
<1>0. /\ job[r] \in JobRecord /\ InHand(r) /\ OneBuild /\ ImageKept /\ MarkersTrue /\ ErrorsTrue
      /\ siteRow.code \in Nat /\ siteRow.secret \in Nat /\ codes \in Nat /\ files.meta \in Nat
      /\ Busy(r) /\ job[r].at # "tidy"
      /\ UNCHANGED <<siteRow, baseDir, deleting, codes, crashes, doubled, orphaned>>
  BY DEF ImageTypeOK, Followed, Busy, Build, Report, Finally, Stages
<1>1. /\ job[r].old = {} /\ job[r].code \in Nat
      /\ job[r].at \in Stages => job[r].code <= codes /\ files.meta <= job[r].code
  BY <1>0 DEF InHand, JobRecord, WithCode, JobPlaces, Stages
<1>2. \A q \in REQUESTS : q # r => ~Busy(q)
  BY <1>0 DEF OneBuild
<1>3. \A q \in REQUESTS : job[q].old = {}
  BY <1>1, <1>2 DEF Followed, InHand, Busy
<1>4. MarkersTrue'
  BY <1>0, <1>3 DEF MarkersTrue
<1>5. ASSUME NEW j, job' = [job EXCEPT ![r] = j], InHand(r)',
             ImageKept', ErrorsTrue'
      PROVE  Followed'
  <2>1. job'[r] = j /\ \A q \in REQUESTS : q # r => job'[q] = job[q]
    BY <1>5, JobMoves
  <2>2. OneBuild' /\ \A q \in REQUESTS : InHand(q)'
    BY <1>2, <1>5, <2>1, OthersRest
  <2> QED  BY <1>4, <1>5, <2>2 DEF Followed
\* Something throws: the files are as they are.
<1>6. CASE Build(r) /\ Fails(r) /\ UNCHANGED <<files, lastBuild>>
  BY <1>0, <1>2, <1>4, <1>6, JobFails
<1>7. CASE /\ job[r].at \in Stages /\ StageDone(r) /\ UNCHANGED current
           /\ job' = [job EXCEPT ![r].at = Then(@), ![r].release = 0,
                        ![r].secret = IF job[r].at = "unpack" THEN @ ELSE 0]
           /\ lastBuild' = IF Then(job[r].at) = "clear" THEN "ok" ELSE lastBuild
  <2>0. job[r].code <= codes /\ files.meta <= job[r].code
    BY <1>1, <1>7
  <2> DEFINE secret == IF job[r].at = "unpack" THEN job[r].secret ELSE 0
             next == Then(job[r].at)
             j == [job[r] EXCEPT !.at = next, !.release = 0, !.secret = secret]
  <2>1. job' = [job EXCEPT ![r] = j]
    BY <1>7
  <2>2. j.at = next /\ j.code = job[r].code /\ j.old = {} /\ j.secret = secret
    BY <1>0, <1>1 DEF JobRecord
  <2>3. job[r].at = "unpack" => j.secret = job[r].secret
    BY <2>2
  <2> HIDE DEF j, secret
  <2>4. job'[r] = j
    BY <2>1, JobMoves
  <2>6. ASSUME ImageKept', ErrorsTrue', InHand(r)'
        PROVE  Followed'
    BY <1>5, <2>1, <2>6
  <2>7. files \in [image : Contents, meta : Nat, error : {"none", "newer", "older"},
                   work : Contents, part : Contents]
    BY DEF ImageTypeOK
  <2>8. CASE job[r].at = "unpack"
    <3> DEFINE work == [Missing EXCEPT !.base = baseDir.file[job[r].release]]
    <3>1. next = "inject" /\ lastBuild' = lastBuild
          /\ files' = [files EXCEPT !.work = work]
      BY <1>7, <2>8 DEF Then, StageDone
    <3>2. /\ files'.work = work /\ work.base = baseDir.file[job[r].release]
          /\ files'.image = files.image /\ files'.meta = files.meta /\ files'.error = files.error
      BY <2>7, <3>1 DEF Missing
    <3> HIDE DEF work, next
    <3>3. ImageKept' /\ ErrorsTrue'
      BY <1>0, <3>1, <3>2 DEF ImageKept, OfTheSite, ErrorsTrue
    <3>4. InHand(r)'
      BY <1>0, <1>1, <2>0, <2>2, <2>3, <2>4, <2>8, <3>1, <3>2 DEF InHand
    <3> QED  BY <2>6, <3>3, <3>4
  <2>9. CASE job[r].at = "inject"
    <3> DEFINE c == job[r].code
               s == job[r].secret
    <3>1. next = "compress" /\ lastBuild' = lastBuild
      BY <1>7, <2>9 DEF Then
    <3>2. files' = [files EXCEPT !.work.code = c, !.work.secret = s] /\ files.work # Missing
      BY <1>7, <2>9 DEF StageDone
    <3> HIDE DEF c, s, next
    <3>3. files' = [files EXCEPT !.work = [files.work EXCEPT !.code = c, !.secret = s]]
      BY <2>7, <3>2
    <3>4. /\ files'.work.code = c /\ files'.work.secret = s
          /\ files'.work.base = files.work.base
          /\ files'.image = files.image /\ files'.meta = files.meta /\ files'.error = files.error
      BY <2>7, <3>3 DEF Contents
    <3>5. ImageKept' /\ ErrorsTrue'
      BY <1>0, <3>1, <3>4 DEF ImageKept, OfTheSite, ErrorsTrue
    <3>6. InHand(r)'
      BY <1>0, <1>1, <2>0, <2>2, <2>4, <2>9, <3>1, <3>2, <3>4 DEF InHand, OfTheSite, c, s
    <3> QED  BY <2>6, <3>5, <3>6
  <2>10. CASE job[r].at = "compress"
    <3>1. next = "rename" /\ lastBuild' = lastBuild /\ files' = [files EXCEPT !.part = files.work]
      BY <1>7, <2>10 DEF Then, StageDone
    <3>2. /\ files'.part = files.work
          /\ files'.image = files.image /\ files'.meta = files.meta /\ files'.error = files.error
      BY <2>7, <3>1
    <3> HIDE DEF next
    <3>3. ImageKept' /\ ErrorsTrue'
      BY <1>0, <3>1, <3>2 DEF ImageKept, OfTheSite, ErrorsTrue
    <3>4. InHand(r)'
      BY <1>0, <1>1, <2>0, <2>2, <2>4, <2>10, <3>1, <3>2 DEF InHand, OfTheSite
    <3> QED  BY <2>6, <3>3, <3>4
  <2>11. CASE job[r].at = "rename"
    <3>1. next = "open" /\ lastBuild' = lastBuild /\ files.part # Missing
          /\ files' = [files EXCEPT !.image = files.part, !.part = Missing]
      BY <1>7, <2>11 DEF Then, StageDone
    <3>2. /\ files'.image = files.part
          /\ files'.meta = files.meta /\ files'.error = files.error
      BY <2>7, <3>1
    <3> HIDE DEF next
    <3>3. ErrorsTrue'
      BY <1>0, <3>1, <3>2 DEF ErrorsTrue
    <3>4. ImageKept'
      BY <1>0, <1>1, <2>0, <2>11, <3>2 DEF ImageKept, OfTheSite, InHand
    <3>5. InHand(r)'
      BY <1>0, <1>1, <2>0, <2>2, <2>4, <2>11, <3>1, <3>2 DEF InHand, OfTheSite
    <3> QED  BY <2>6, <3>3, <3>4, <3>5
  <2>12. CASE job[r].at = "open"
    <3> DEFINE error == IF files.error = "older" THEN "newer" ELSE files.error
    <3>1. next = "meta" /\ lastBuild' = lastBuild
          /\ files' = [files EXCEPT !.meta = 0, !.error = error]
      BY <1>7, <2>12 DEF Then, StageDone
    <3>2. /\ files'.image = files.image /\ files'.meta = 0
          /\ files'.error = error /\ (files.error = "newer" => error = "newer")
      BY <2>7, <3>1
    <3> HIDE DEF next, error
    <3>3. ErrorsTrue'
      BY <1>0, <3>1, <3>2 DEF ErrorsTrue
    <3>4. ImageKept'
      <4>1. files.image.code \in Nat
        BY <2>7 DEF Contents
      <4> QED  BY <1>0, <3>2, <4>1 DEF ImageKept, OfTheSite
    <3>5. InHand(r)'
      BY <1>0, <1>1, <2>0, <2>2, <2>4, <2>12, <3>1, <3>2 DEF InHand, WithCode, JobPlaces, Stages
    <3> QED  BY <2>6, <3>3, <3>4, <3>5
  <2>13. CASE job[r].at = "meta"
    <3> DEFINE error == IF files.error = "newer" THEN "older" ELSE files.error
    <3>1. next = "clear" /\ lastBuild' = "ok"
          /\ files' = [files EXCEPT !.meta = job[r].code, !.error = error]
      BY <1>7, <2>13 DEF Then, StageDone
    <3>2. /\ files'.image = files.image /\ files'.meta = job[r].code
          /\ files'.error = error /\ error # "newer"
      BY <2>7, <3>1
    <3> HIDE DEF next, error
    <3>3. ErrorsTrue'
      BY <3>1, <3>2 DEF ErrorsTrue
    <3>4. ImageKept'
      BY <1>0, <1>1, <2>0, <2>13, <3>2 DEF ImageKept, OfTheSite, InHand
    <3>5. InHand(r)'
      BY <1>0, <1>1, <2>0, <2>2, <2>4, <2>13, <3>1, <3>2 DEF InHand, OfTheSite
    <3> QED  BY <2>6, <3>3, <3>4, <3>5
  <2>14. CASE job[r].at = "clear"
    <3>1. next = "finally" /\ lastBuild' = lastBuild /\ files' = [files EXCEPT !.error = "none"]
      BY <1>7, <2>14 DEF Then, StageDone
    <3>2. /\ files'.image = files.image /\ files'.meta = files.meta /\ files'.error = "none"
      BY <2>7, <3>1
    <3> HIDE DEF next
    <3>3. ErrorsTrue'
      BY <1>0, <2>14, <3>1, <3>2 DEF ErrorsTrue, InHand
    <3>4. ImageKept'
      BY <1>0, <3>2 DEF ImageKept, OfTheSite
    <3>5. InHand(r)'
      BY <1>0, <1>1, <2>0, <2>2, <2>4, <2>14, <3>1, <3>2 DEF InHand, OfTheSite
    <3> QED  BY <2>6, <3>3, <3>4, <3>5
  <2> QED  BY <1>7, <2>8, <2>9, <2>10, <2>11, <2>12, <2>13, <2>14
    DEF Stages
<1>8. CASE Report(r) \/ Finally(r)
  <2>1. PICK at \in {"report", "finally", "sweep"} :
          \/ job' = [job EXCEPT ![r].at = at]
          \/ job' = [job EXCEPT ![r] = [Resting EXCEPT !.at = at]]
    BY <1>8 DEF Report, Finally
  <2>2. PICK j : job' = [job EXCEPT ![r] = j] /\ j.at = at /\ j.old = {}
    <3>1. CASE job' = [job EXCEPT ![r].at = at]
      <4> DEFINE j == [job[r] EXCEPT !.at = at]
      <4>1. job' = [job EXCEPT ![r] = j] /\ j.at = at /\ j.old = {}
        BY <1>0, <1>1, <3>1 DEF JobRecord
      <4> QED  BY <4>1
    <3>2. CASE job' = [job EXCEPT ![r] = [Resting EXCEPT !.at = at]]
      <4> DEFINE j == [Resting EXCEPT !.at = at]
      <4>1. job' = [job EXCEPT ![r] = j] /\ j.at = at /\ j.old = {}
        BY <3>2 DEF Resting
      <4> QED  BY <4>1
    <3> QED  BY <2>1, <3>1, <3>2
  <2>3. job'[r] = j
    BY <2>2, JobMoves
  <2>4. /\ files'.image = files.image /\ files'.meta = files.meta
        /\ \/ files'.error = files.error /\ lastBuild' \in {lastBuild, "unheard"}
           \/ files'.error = "none" /\ lastBuild' = "unheard"
           \/ files'.error = "newer" /\ lastBuild' = "failed"
    BY <1>8 DEF Report, Finally, ImageTypeOK
  <2>5. InHand(r)'
    BY <2>1, <2>2, <2>3 DEF InHand, WithCode
  <2>6. ImageKept' /\ ErrorsTrue'
    BY <1>0, <2>4 DEF ImageKept, OfTheSite, ErrorsTrue
  <2> QED  BY <1>5, <2>2, <2>5, <2>6
<1> QED  BY <1>0, <1>6, <1>7, <1>8 DEF Build

\* The sweep, the restart, the site's code and the deletion, beside any build.
LEMMA BesideStep ==
    ASSUME ImageTypeOK, Followed,
           \/ \E r \in REQUESTS : Sweep(r)
           \/ CrashImage \/ NewCode \/ Expire \/ Fertig \/ DeleteFile
    PROVE  Followed'
<1>0. /\ OneBuild /\ ImageKept /\ MarkersTrue /\ ErrorsTrue /\ \A r \in REQUESTS : InHand(r)
      /\ \A r \in REQUESTS : job[r] \in JobRecord
      /\ siteRow.code \in Nat /\ siteRow.secret \in Nat /\ codes \in Nat /\ files.meta \in Nat
  BY DEF ImageTypeOK, Followed
\* The work files of another build may go with its own.
<1>4. ASSUME NEW r \in REQUESTS, Sweep(r) PROVE Followed'
  <2>1. /\ job[r].at = "sweep" /\ job' = [job EXCEPT ![r] = Resting]
        /\ UNCHANGED <<siteRow, current, baseDir, codes, lastBuild, orphaned>>
    BY <1>4 DEF Sweep
  <2>2. /\ files'.image = files.image /\ files'.meta = files.meta /\ files'.error = files.error
        /\ files'.work = Missing /\ files'.part = Missing
    BY <1>4 DEF Sweep, ImageTypeOK
  <2>3. job'[r] = Resting /\ \A q \in REQUESTS : q # r => job'[q] = job[q]
    BY <2>1, JobMoves
  <2>4. ASSUME NEW q \in REQUESTS PROVE InHand(q)'
    <3>1. CASE q = r
      BY <2>3, <3>1 DEF InHand, Resting, WithCode
    <3>2. CASE q # r
      BY <1>0, <2>1, <2>2, <2>3, <3>2 DEF InHand, OfTheSite
    <3> QED  BY <3>1, <3>2
  <2>5. OneBuild'
    BY <1>0, <2>3 DEF OneBuild, Busy, Resting
  <2>6. ImageKept' /\ ErrorsTrue'
    BY <1>0, <2>1, <2>2 DEF ImageKept, OfTheSite, ErrorsTrue
  <2>7. MarkersTrue'
    <3>1. job[r].old = {}
      BY <1>0, <2>1 DEF InHand
    <3> QED  BY <1>0, <2>1, <2>3, <3>1 DEF MarkersTrue
  <2> QED  BY <2>4, <2>5, <2>6, <2>7 DEF Followed
\* A marker whose image the clean-up has removed is left behind, and counted.
<1>1. CASE CrashImage
  <2>1. /\ ~current' /\ job' = [r \in REQUESTS |-> Resting]
        /\ UNCHANGED <<siteRow, baseDir, codes, lastBuild>>
        /\ ~orphaned' => ~orphaned /\ \A r \in REQUESTS : \A v \in baseDir.marked :
                            v \in job[r].old => baseDir.file[v] # NoFile
    BY <1>1 DEF CrashImage, Orphans
  <2>5. /\ files'.image = files.image /\ files'.meta = files.meta /\ files'.error = files.error
        /\ files'.work = Missing /\ files'.part = Missing
    BY <1>1 DEF CrashImage, ImageTypeOK
  <2>2. OneBuild' /\ \A r \in REQUESTS : InHand(r)'
    BY <2>1 DEF OneBuild, Busy, InHand, Resting, WithCode
  <2>3. ImageKept' /\ ErrorsTrue'
    <3>1. orphaned => orphaned'
      BY <2>1
    <3> QED  BY <1>0, <2>1, <2>5, <3>1 DEF ImageKept, OfTheSite, ErrorsTrue
  <2>4. MarkersTrue'
    BY <1>0, <2>1 DEF MarkersTrue, ImageTypeOK
  <2> QED  BY <2>2, <2>3, <2>4 DEF Followed
<1>2. CASE NewCode \/ Expire \/ Fertig
  <2>1. /\ UNCHANGED <<current, job, files, baseDir, lastBuild, orphaned>>
        /\ siteRow'.secret = siteRow.secret
        /\ codes' \in Nat /\ codes <= codes'
        /\ siteRow'.code \in {0, codes'}
    <3>1. siteRow \in [code : Nat, expired : BOOLEAN, secret : Nat]
      BY DEF ImageTypeOK
    <3>2. CASE NewCode
      <4>1. siteRow' = [siteRow EXCEPT !.code = codes', !.expired = FALSE] /\ codes' = codes + 1
        BY <3>2 DEF NewCode
      <4>2. siteRow'.secret = siteRow.secret /\ siteRow'.code = codes'
        BY <3>1, <4>1
      <4> QED  BY <1>0, <3>2, <4>1, <4>2 DEF NewCode
    <3>3. CASE Expire
      BY <1>0, <3>1, <3>3 DEF Expire, ImageKept
    <3>4. CASE Fertig
      BY <1>0, <3>1, <3>4 DEF Fertig, ImageKept
    <3> QED  BY <1>2, <3>2, <3>3, <3>4
  <2>2. OneBuild' /\ MarkersTrue' /\ ErrorsTrue'
    BY <1>0, <2>1 DEF OneBuild, Busy, MarkersTrue, ErrorsTrue
  <2>3. files.image.code \in Nat
    BY DEF ImageTypeOK, Contents
  <2>4. ImageKept'
    BY <1>0, <2>1, <2>3 DEF ImageKept, OfTheSite
  <2>5. ASSUME NEW r \in REQUESTS PROVE InHand(r)'
    <3>1. job[r].code \in Nat /\ InHand(r)
      BY <1>0 DEF JobRecord
    <3> QED  BY <1>0, <2>1, <3>1 DEF InHand, OfTheSite
  <2> QED  BY <2>2, <2>4, <2>5 DEF Followed
<1>3. CASE DeleteFile
  <2>1. /\ UNCHANGED <<siteRow, current, job, baseDir, codes, orphaned>>
        /\ files'.work = files.work /\ files'.part = files.part
        /\ files'.image \in {files.image, Missing} /\ files'.meta \in {files.meta, 0}
    BY <1>3 DEF DeleteFile, ImageTypeOK
  <2>2. ErrorsTrue' /\ (lastBuild' = "failed" => lastBuild = "failed")
    BY <1>0, <1>3 DEF DeleteFile, ImageTypeOK, ErrorsTrue
  <2>3. OneBuild' /\ MarkersTrue'
    BY <1>0, <2>1 DEF OneBuild, Busy, MarkersTrue
  <2>4. ImageKept'
    <3>1. files.image.code \in Nat
      BY DEF ImageTypeOK, Contents
    <3> QED  BY <1>0, <2>1, <3>1 DEF ImageKept, OfTheSite
  <2>5. ASSUME NEW r \in REQUESTS PROVE InHand(r)'
    <3>1. job[r].code \in Nat /\ InHand(r)
      BY <1>0 DEF JobRecord
    <3> QED  BY <1>0, <2>1, <2>2, <3>1 DEF InHand, OfTheSite
  <2> QED  BY <2>2, <2>3, <2>4, <2>5 DEF Followed
<1> QED  BY <1>1, <1>2, <1>3, <1>4

LEMMA ImageStep == ImageInv /\ [ImageNext]_imageVars => ImageInv'
<1> SUFFICES ASSUME ImageInv, [ImageNext]_imageVars PROVE ImageInv'
  OBVIOUS
<1>1. ImageTypeOK /\ ImageTypeOK'
  BY ImageTypeStep DEF ImageInv
<1>2. CASE UNCHANGED imageVars
  BY <1>1, <1>2 DEF ImageInv, imageVars, Followed, OneBuild, Busy, ImageKept, OfTheSite,
                    MarkersTrue, ErrorsTrue, InHand
<1>3. CASE ImageNext /\ ~doubled /\ ~doubled'
  <2>1. Followed
    BY <1>3 DEF ImageInv
  <2>2. ASSUME NEW r \in REQUESTS,
               \/ Request(r) \/ MakeSecret(r) \/ BeginBuild(r)
               \/ ChooseRelease(r) \/ Download(r) \/ Hash(r) \/ Tidy(r)
        PROVE  Followed'
    BY <1>1, <1>3, <2>1, <2>2, PreparesStep
  <2>3. ASSUME NEW r \in REQUESTS, Build(r) \/ Report(r) \/ Finally(r)
        PROVE  Followed'
    BY <1>1, <1>3, <2>1, <2>3, BuildsStep
  <2>4. ASSUME \/ \E r \in REQUESTS : Sweep(r)
               \/ CrashImage \/ NewCode \/ Expire \/ Fertig \/ DeleteFile
        PROVE  Followed'
    BY <1>1, <2>1, <2>4, BesideStep
  <2>5. Followed'
    BY <1>3, <2>2, <2>3, <2>4 DEF ImageNext, NotFollowed
  <2> QED  BY <1>1, <2>5 DEF ImageInv
<1>4. CASE ImageNext /\ ~doubled /\ doubled'
  BY <1>1, <1>4 DEF ImageInv
<1>5. CASE ImageNext /\ doubled
  BY <1>2, <1>5 DEF ImageNext, NotFollowed
<1> QED  BY <1>2, <1>3, <1>4, <1>5

\* The current code is the highest of all, so an image beside metadata that name
\* it carries it too.
LEMMA ImageEnough == ImageInv => ImageAsShown
<1> SUFFICES ASSUME ImageInv PROVE ImageAsShown
  OBVIOUS
<1>1. /\ siteRow.code \in Nat /\ codes \in Nat /\ files.meta \in Nat
      /\ files.image.code \in Nat /\ current \in BOOLEAN
  BY DEF ImageInv, ImageTypeOK, Contents
<1>2. FreshImageFits
  BY <1>1 DEF ImageInv, Followed, ImageKept, OfTheSite, FreshImageFits, ShownFresh, Downloadable
<1>3. ErrorIsOfTheLastBuild
  BY DEF ImageInv, Followed, ErrorsTrue, ErrorIsOfTheLastBuild, ShownError
<1> QED  BY <1>2, <1>3 DEF ImageAsShown

\* Every state of image, metadata, error file, cache and builds is one the program
\* can handle.
THEOREM ImageTypeCorrect == ImageSpec => []ImageTypeOK
<1>1. ImageInv => ImageTypeOK
  BY DEF ImageInv
<1> QED  BY <1>1, ImageInitially, ImageStep, PTL DEF ImageSpec

\* As long as two requests did not pass the lock together: an image shown as fresh
\* carries the site's code and password on a checked base (or on one whose marker was
\* left behind when it could not be removed with its image), and a build that failed
\* and could write its error is shown until one succeeds, wherever builds fail - also
\* while they clean up or write their error - restarts cut them short and codes
\* change (gateway-image.js, getImageStatus).
THEOREM ImageShownTruly == ImageSpec => []ImageAsShown
BY ImageInitially, ImageStep, ImageEnough, PTL DEF ImageSpec
=============================================================================
