--------------------------- MODULE CloudAccounts ---------------------------
(***************************************************************************)
(* The openHAB Cloud account of one site: the row of battery_site, the     *)
(* redemptions of the set-up code that create identity and password, the   *)
(* operator's "Neues Passwort", and the rounds of cloud-sync that copy the *)
(* row into the cloud's database and report back.                          *)
(*                                                                         *)
(* Of a value only its age matters: what the cloud and a round hold is the *)
(* row's current value or an older one.  The state "delete" of the schema  *)
(* is set by no code and has no step here.                                 *)
(***************************************************************************)
CONSTANT Requests  \* redemptions that may be under way at the same time

VARIABLES
  account,    \* cloud_account_state
  password,   \* cloud_password: none, readable or not with this TOKEN_SECRET
  identity,   \* cloud_uuid and cloud_secret, likewise
  creating,   \* redemptions that found no readable identity, not yet written
  cloud,      \* what the cloud's database has
  round,      \* where the round of cloud-sync is with this site
  snapshot,   \* what the round was given
  overtaken,  \* history: the row's values changed while a round was under way
  calm        \* no round is killed and no report lost any more

rowVars == <<account, password, identity, creating>>
roundVars == <<cloud, round, snapshot>>
vars == <<rowVars, roundVars, overtaken, calm>>

Stored == {"none", "readable", "unreadable"}
Ages == {"none", "old", "current"}
Values(S) == [password : S, identity : S]
Current == [password |-> "current", identity |-> "current"]
Open == {"pending", "reset"}

TypeOK ==
  /\ account \in {"", "pending", "reset", "created", "error"}
  /\ password \in Stored
  /\ identity \in Stored
  /\ creating \subseteq Requests
  /\ cloud \in Values(Ages)
  /\ round \in {"idle", "password", "identity", "ok", "failed"}
  /\ snapshot \in Values(Ages)
  /\ overtaken \in BOOLEAN
  /\ calm \in BOOLEAN

Init ==
  /\ account = "" /\ password = "none" /\ identity = "none"
  /\ creating = {}
  /\ cloud = [password |-> "none", identity |-> "none"]
  /\ round = "idle"
  /\ snapshot = [password |-> "none", identity |-> "none"]
  /\ overtaken = FALSE
  /\ calm = FALSE

\* The row gets new values for the given parts: what others hold is old now.
Aged(held, parts) ==
  [p \in {"password", "identity"} |->
     IF p \in parts /\ held[p] = "current" THEN "old" ELSE held[p]]

RowChanges(parts) ==
  /\ cloud' = Aged(cloud, parts)
  /\ snapshot' = Aged(snapshot, parts)
  /\ overtaken' = (round # "idle")
  /\ UNCHANGED round

----------------------------------------------------------------------------
\* The platform.

\* consumeProvisionCode reads the row; a readable identity is handed out and
\* nothing changes ...
Redeem(r) ==
  /\ r \notin creating
  /\ identity # "readable"
  /\ creating' = creating \cup {r}
  /\ UNCHANGED <<account, password, identity, roundVars, overtaken>>

\* ... otherwise identity and password are written anew.
CreateIdentity(r) ==
  /\ r \in creating
  /\ creating' = creating \ {r}
  /\ identity' = "readable"
  /\ password' = "readable"
  /\ account' = "pending"
  /\ RowChanges({"password", "identity"})

\* cloud_passwort_neu: only the password, and only with a cloud_username.
ResetPassword ==
  /\ password # "none"
  /\ password' = "readable"
  /\ account' = "reset"
  /\ RowChanges({"password"})
  /\ UNCHANGED <<identity, creating>>

\* The platform is restarted with another TOKEN_SECRET: what is stored can no
\* longer be decrypted, requests under way are gone.
Unreadable(stored) == IF stored = "none" THEN "none" ELSE "unreadable"

ChangeKey ==
  /\ password' = Unreadable(password)
  /\ identity' = Unreadable(identity)
  /\ creating' = {}
  /\ UNCHANGED <<account, roundVars, overtaken>>

----------------------------------------------------------------------------
\* A round of cloud-sync.  There is one at a time.

\* GET cloud-accounts: the open account is handed out decrypted ...
MutListed == account = "pending"  \* resets are forgotten
Listed == account \in Open

Fetch ==
  /\ round = "idle"
  /\ Listed
  /\ password = "readable" /\ identity = "readable"
  /\ round' = "password"
  /\ snapshot' = Current
  /\ overtaken' = FALSE
  /\ UNCHANGED <<rowVars, cloud>>

\* ... or, when that fails, becomes an error.
Reject ==
  /\ round = "idle"
  /\ Listed
  /\ "unreadable" \in {password, identity}
  /\ account' = "error"
  /\ UNCHANGED <<password, identity, creating, roundVars, overtaken>>

\* upsert: the user with the password, then the openHAB with the identity.
\* A save that throws may have been carried out or not.
MutFollows == [password |-> "ok", identity |-> "ok"]  \* a known user's openHAB is left alone
Follows == [password |-> "identity", identity |-> "ok"]

Save(part, saved, thrown) ==
  /\ round = part
  /\ saved \/ thrown
  /\ cloud' = IF saved THEN [cloud EXCEPT ![part] = snapshot[part]] ELSE cloud
  /\ round' = IF thrown THEN "failed" ELSE Follows[part]
  /\ UNCHANGED <<rowVars, snapshot, overtaken>>

\* POST cloud-result changes the state of an account that is still open.
Record(state) == account' = IF account \in Open THEN state ELSE account

\* The success is reported; when the request or its answer is lost the round
\* goes on to report a failure.
ReportSuccess(recorded, answered) ==
  /\ round = "ok"
  /\ answered => recorded
  /\ IF recorded THEN Record("created") ELSE UNCHANGED account
  /\ round' = IF answered THEN "idle" ELSE "failed"
  /\ UNCHANGED <<password, identity, creating, cloud, snapshot, overtaken>>

FailureState == "error"

ReportFailure(recorded) ==
  /\ round = "failed"
  /\ IF recorded THEN Record(FailureState) ELSE UNCHANGED account
  /\ round' = "idle"
  /\ UNCHANGED <<password, identity, creating, cloud, snapshot, overtaken>>

\* timeout 300, or the container is restarted.
Killed ==
  /\ round # "idle"
  /\ round' = "idle"
  /\ UNCHANGED <<rowVars, cloud, snapshot, overtaken>>

----------------------------------------------------------------------------
Platform ==
  \/ \E r \in Requests : Redeem(r) \/ CreateIdentity(r)
  \/ ResetPassword
  \/ ChangeKey

Round ==
  \/ Fetch
  \/ Reject
  \/ \E part \in {"password", "identity"}, saved, thrown \in BOOLEAN : Save(part, saved, thrown)
  \/ ReportSuccess(TRUE, TRUE)
  \/ ReportFailure(TRUE)

Disturbs ==
  /\ ~calm
  /\ \/ \E recorded \in BOOLEAN : ReportSuccess(recorded, FALSE)
     \/ ReportFailure(FALSE)
     \/ Killed

Next ==
  \/ UNCHANGED calm /\ (Platform \/ Round \/ Disturbs)
  \/ ~calm /\ calm' = TRUE /\ UNCHANGED <<rowVars, roundVars, overtaken>>

Spec == Init /\ [][Next]_vars

\* cloud-sync.sh starts a round every minute and a round goes on.
FairSpec == Spec /\ WF_vars(Round /\ UNCHANGED calm)

----------------------------------------------------------------------------
\* "created" on the site's page means that the cloud has the row's password
\* and identity, whatever failed, was lost or was repeated, unless the values
\* changed after a round had been given them: that round's result stands for
\* the change as well (cloud-result asks for the state, not for the value).
CreatedMeansDelivered == account = "created" /\ ~overtaken => cloud = Current

\* Why: while a round is under way the account is open, and unless overtaken
\* what it was given is what the row has, and what it has saved so far is in
\* the cloud (upsert saves the password before the identity).
RoundInv ==
  /\ round \in {"password", "identity", "ok"} =>
       /\ account \in Open
       /\ ~overtaken => snapshot = Current
  /\ ~overtaken /\ round = "identity" => cloud.password = "current"
  /\ ~overtaken /\ round = "ok" => cloud = Current
  /\ CreatedMeansDelivered

\* Once rounds are no longer killed and reports arrive, an open account, the
\* operator's reset included, does not stay open: the cloud gets the values,
\* or the page shows an error; also with resets and redemptions going on, and
\* also after a change of the key ("blieb 2 Tage liegen", cloud-sync.js:132).
ResetArrives ==
  (calm /\ account \in Open) ~>
    (account = "error" \/ overtaken \/ (account = "created" /\ cloud = Current))

=============================================================================
