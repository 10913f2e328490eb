---------------------------- MODULE GatewaySetup ----------------------------
(***************************************************************************)
(* The zero-touch installation of one site: the row of battery_site on     *)
(* the platform, the operator who issues codes and flashes cards, and the  *)
(* Raspberry Pis that run install.sh, from stromkreis-firstboot until the  *)
(* marker is set and from stromkreis-update afterwards.                    *)
(*                                                                         *)
(* Only freshness matters of a code, a token and a package, so none has a  *)
(* number: a card carries the current code or an older one, the row's      *)
(* token_hash belongs to one device or to nobody, the installed package is *)
(* the published one or not.  The inverter is one that needs a password    *)
(* (GEN24).  Phases between "neu" and "fertig" are one value.              *)
(***************************************************************************)
EXTENDS Naturals

CONSTANTS
  Devices,   \* the Raspberry Pis (SD cards) that ever serve the site
  Runners,   \* the pairs <<device, unit>> that take part
  Nobody     \* no device

Units == {"firstboot", "update"}

ASSUME RunnersAssumption ==
  /\ Runners \subseteq Devices \X Units
  /\ Nobody \notin Devices

VARIABLES
  code,       \* provision_code: none (null), valid, expired
  phase,      \* setup_phase
  token,      \* the device whose gateway.conf holds the token of token_hash
  secret,     \* inverter_secret is set
  spent,      \* history: a "fertig" was recorded since the code was issued
  config,     \* a device's configuration: none, a card with an old or the
              \* current code, gateway.conf with a token, gateway.conf complete
  inverter,   \* how far a device is with its inverter
  installed,  \* blank, the updater's timer runs, the marker is set
  latest,     \* PACKAGE-SHA256 is that of the published package
  calm,       \* nothing goes wrong any more: no failure, loss, new code or card
  doing       \* what install.sh is doing for each unit

siteVars == <<code, phase, token, secret, spent>>
deviceVars == <<config, inverter, installed, latest, doing>>
vars == <<siteVars, deviceVars, calm>>

Stages == {"idle", "load", "setup", "things", "rest", "open", "exit"}

TypeOK ==
  /\ code \in {"none", "valid", "expired"}
  /\ phase \in {"neu", "laeuft", "fertig"}
  /\ token \in Devices \cup {Nobody}
  /\ secret \in BOOLEAN
  /\ spent \in BOOLEAN
  /\ config \in [Devices -> {"none", "old", "current", "token", "complete"}]
  /\ inverter \in [Devices -> {"none", "host", "bare", "password", "full"}]
  /\ installed \in [Devices -> {"blank", "updater", "done"}]
  /\ latest \in [Devices -> BOOLEAN]
  /\ doing \in [Devices -> [Units -> Stages]]
  /\ calm \in BOOLEAN

----------------------------------------------------------------------------
\* A new site with a fresh code, or one that a device d has been running.
NewSite ==
  /\ code = "valid" /\ phase = "neu" /\ token = Nobody
  /\ secret = FALSE /\ spent = FALSE
  /\ config = [d \in Devices |-> "none"]
  /\ inverter = [d \in Devices |-> "none"]
  /\ installed = [d \in Devices |-> "blank"]
  /\ latest = [d \in Devices |-> FALSE]

RunningSite(d) ==
  /\ code = "none" /\ phase = "fertig" /\ token = d
  /\ secret = TRUE /\ spent = TRUE
  /\ config = [e \in Devices |-> IF e = d THEN "complete" ELSE "none"]
  /\ inverter = [e \in Devices |-> IF e = d THEN "full" ELSE "none"]
  /\ installed = [e \in Devices |-> IF e = d THEN "done" ELSE "blank"]
  /\ latest = [e \in Devices |-> e = d]

Init ==
  /\ NewSite \/ \E d \in Devices : RunningSite(d)
  /\ doing = [d \in Devices |-> [k \in Units |-> "idle"]]
  /\ calm = FALSE

\* A unit of a device moves on; a device's inverter gets further.
Goes(d, k, stage) == doing' = [doing EXCEPT ![d][k] = stage]
Inverter(d, i) == inverter' = [inverter EXCEPT ![d] = i]

\* report_phase: the platform knows the site by its token alone; a report
\* that is lost or refused (401) is ignored.
Report(d) == \/ phase' = phase
             \/ token = d /\ phase' = "laeuft"

----------------------------------------------------------------------------
\* The operator.

\* "Neuer Code" on the page of the site.
MutRenewedPhase == phase  \* the phase is not taken back
RenewedPhase == IF phase = "fertig" THEN "neu" ELSE phase

RenewCode ==
  /\ code' = "valid"
  /\ phase' = RenewedPhase
  /\ spent' = FALSE
  /\ config' = [d \in Devices |-> IF config[d] = "current" THEN "old" ELSE config[d]]
  /\ UNCHANGED <<token, secret, inverter, installed, latest, doing>>

\* The password of the inverter is entered on the page of the site.
EnterPassword ==
  /\ ~secret
  /\ secret' = TRUE
  /\ UNCHANGED <<code, phase, token, spent, deviceVars>>

\* A card is written, from an image with the current code or from one that
\* was kept, and put into d: whatever ran there is gone.
Flash(d, c) ==
  /\ <<d, "firstboot">> \in Runners
  /\ config' = [config EXCEPT ![d] = c]
  /\ inverter' = [inverter EXCEPT ![d] = "none"]
  /\ installed' = [installed EXCEPT ![d] = "blank"]
  /\ latest' = [latest EXCEPT ![d] = FALSE]
  /\ doing' = [doing EXCEPT ![d] = [k \in Units |-> "idle"]]
  /\ token' = IF token = d THEN Nobody ELSE token
  /\ UNCHANGED <<code, phase, secret, spent>>

\* Fourteen days pass; a new package is published.
CodeExpires ==
  /\ code = "valid"
  /\ code' = "expired"
  /\ UNCHANGED <<phase, token, secret, spent, deviceVars>>

Publish ==
  /\ \E d \in Devices : latest[d]
  /\ latest' = [d \in Devices |-> FALSE]
  /\ UNCHANGED <<siteVars, config, inverter, installed, doing>>

----------------------------------------------------------------------------
\* install.sh and install-gateway.sh, started by the unit k of a device d.

\* consumeProvisionCode: the row's conditions for a redemption.
Redeemable(d) ==
  /\ config[d] = "current"
  /\ code = "valid"
  /\ phase # "fertig"

\* Without gateway.conf the code is exchanged.  The platform re-issues the
\* token before it answers; when the answer is lost nobody has it.
Exchange(d, answered) ==
  /\ <<d, "firstboot">> \in Runners
  /\ doing[d]["firstboot"] = "idle"
  /\ installed[d] # "done"
  /\ Redeemable(d)
  /\ token' = IF answered THEN d ELSE Nobody
  /\ phase' = IF phase = "neu" THEN "laeuft" ELSE phase
  /\ \/ answered /\ config' = [config EXCEPT ![d] = "token"] /\ Goes(d, "firstboot", "load")
     \/ ~answered /\ UNCHANGED <<config, doing>>
  /\ UNCHANGED <<code, secret, spent, inverter, installed, latest>>

\* With gateway.conf the code is not looked at again.  stromkreis-firstboot
\* repeats until the marker is set.
BeginRun(d, k) ==
  /\ doing[d][k] = "idle"
  /\ config[d] \in {"token", "complete"}
  /\ Report(d)
  /\ Goes(d, k, "load")
  /\ UNCHANGED <<code, token, secret, spent, config, inverter, installed, latest>>

MutRepeats(d) ==  \* left to the updater once there is one
  <<d, "firstboot">> \in Runners /\ installed[d] = "blank" /\ BeginRun(d, "firstboot")
Repeats(d) == <<d, "firstboot">> \in Runners /\ installed[d] # "done" /\ BeginRun(d, "firstboot")

\* The timer of stromkreis-update: by night when the package is not the
\* published one; otherwise on request from the dashboard or by hand.
Updates(d) == <<d, "update">> \in Runners /\ installed[d] # "blank" /\ BeginRun(d, "update")
Nightly(d) == ~latest[d] /\ Updates(d)

\* The package is downloaded, verified and unpacked; its checksum becomes
\* the installed one before the set-up starts.
Load(d, k) ==
  /\ doing[d][k] = "load"
  /\ latest' = [latest EXCEPT ![d] = TRUE]
  /\ Goes(d, k, "setup")
  /\ UNCHANGED <<siteVars, config, inverter, installed>>

\* 00-provision: with a complete gateway.conf nothing is done; else the
\* profile is found (or set on the platform), the address perhaps.
Provision(d, k, i) ==
  /\ doing[d][k] = "setup"
  /\ \/ config[d] = "complete" /\ i = inverter[d]
     \/ config[d] = "token" /\ i \in {"none", "host"}
  /\ config' = [config EXCEPT ![d] = "complete"]
  /\ Inverter(d, i)
  /\ Report(d)
  /\ Goes(d, k, "things")
  /\ UNCHANGED <<code, token, secret, spent, installed, latest>>

\* 02b without an address: the search finds the inverter and the script
\* starts over, or the step is left open.
Address(d, k, found) ==
  /\ doing[d][k] = "things" /\ inverter[d] = "none"
  /\ Inverter(d, IF found THEN "host" ELSE "none")
  /\ Goes(d, k, IF found THEN "things" ELSE "open")
  /\ Report(d)
  /\ UNCHANGED <<code, token, secret, spent, config, installed, latest>>

\* 02b asks the platform for the password; it is there for the device that
\* holds the token.  After 30 minutes the Things are created without it and
\* the step is left open.
Password(d, k, received) ==
  /\ doing[d][k] = "things" /\ inverter[d] \in {"host", "bare"}
  /\ received => secret /\ token = d
  /\ Inverter(d, IF received THEN "password" ELSE "bare")
  /\ Goes(d, k, IF received THEN "things" ELSE "open")
  /\ Report(d)
  /\ UNCHANGED <<code, token, secret, spent, config, installed, latest>>

\* 02b creates the Things and writes the credentials into the bridge; when
\* they do not arrive there the step is left open.
Credentials(d, k, written) ==
  /\ doing[d][k] = "things" /\ inverter[d] \in {"password", "full"}
  /\ inverter[d] = "full" => written
  /\ Inverter(d, IF written THEN "full" ELSE "password")
  /\ Goes(d, k, IF written THEN "rest" ELSE "open")
  /\ Report(d)
  /\ UNCHANGED <<code, token, secret, spent, config, installed, latest>>

\* 02b dies (no binding, no token, openHAB does not answer): the step is
\* optional, the run goes on as if it were done.
Skips(d, k) ==
  /\ doing[d][k] = "things"
  /\ Report(d)
  /\ Goes(d, k, "rest")
  /\ UNCHANGED <<code, token, secret, spent, config, inverter, installed, latest>>

\* The later steps, the updater among them, with a step left open: exit 75.
WithUpdater(d) == IF installed[d] = "blank" THEN "updater" ELSE installed[d]

Incomplete(d, k) ==
  /\ doing[d][k] = "open"
  /\ installed' = [installed EXCEPT ![d] = WithUpdater(d)]
  /\ Report(d)
  /\ Goes(d, k, "idle")
  /\ UNCHANGED <<code, token, secret, spent, config, inverter, latest>>

\* ... and with none: "fertig" is reported, and with it the code dies.
MutCodeAfterFertig == code  \* the code is left alone
CodeAfterFertig == "none"

Finished(d, k) ==
  /\ doing[d][k] = "rest"
  /\ installed' = [installed EXCEPT ![d] = WithUpdater(d)]
  /\ \/ token = d /\ phase' = "fertig" /\ code' = CodeAfterFertig /\ spent' = TRUE
     \/ UNCHANGED <<phase, code, spent>>
  /\ Goes(d, k, "exit")
  /\ UNCHANGED <<token, secret, config, inverter, latest>>

\* Exit 0: stromkreis-firstboot sets the marker and removes the card's conf.
AfterRun(d, k) == IF k = "firstboot" THEN "done" ELSE installed[d]

Exit(d, k) ==
  /\ doing[d][k] = "exit"
  /\ installed' = [installed EXCEPT ![d] = AfterRun(d, k)]
  /\ Goes(d, k, "idle")
  /\ UNCHANGED <<siteVars, config, inverter, latest>>

\* Any step fails for good, or the power is cut.
Fails(d, k) ==
  /\ doing[d][k] # "idle"
  /\ Report(d)
  /\ Goes(d, k, "idle")
  /\ UNCHANGED <<code, token, secret, spent, config, inverter, installed, latest>>

----------------------------------------------------------------------------
Successes == {TRUE} \cup (IF calm THEN {} ELSE {FALSE})
Addresses == {"none", "host", "bare", "password", "full"}

Operator ==
  \/ RenewCode
  \/ CodeExpires
  \/ Publish
  \/ \E d \in Devices, c \in {"current", "old"} : Flash(d, c)

\* A run goes on: the steps that work out, and the password that is not there.
Step(d, k) ==
  \/ Load(d, k)
  \/ \E i \in Addresses : Provision(d, k, i)
  \/ \E ok \in Successes : Address(d, k, ok) \/ Credentials(d, k, ok)
  \/ \E ok \in {TRUE} \cup (IF calm /\ secret /\ token = d THEN {} ELSE {FALSE}) : Password(d, k, ok)
  \/ Incomplete(d, k)
  \/ Finished(d, k)
  \/ Exit(d, k)

Device(d) ==
  \/ \E answered \in Successes : Exchange(d, answered)
  \/ Repeats(d)
  \/ Updates(d)
  \/ \E k \in Units : Step(d, k)

Disturbs ==
  /\ ~calm
  /\ \/ Operator
     \/ \E d \in Devices, k \in Units : Skips(d, k) \/ Fails(d, k)

Next ==
  \/ UNCHANGED calm /\ (Disturbs \/ EnterPassword \/ \E d \in Devices : Device(d))
  \/ ~calm /\ calm' = TRUE /\ UNCHANGED <<siteVars, deviceVars>>

Spec == Init /\ [][Next]_vars

\* systemd starts the units, a run goes on.  Nothing is assumed of failures
\* before the calm; after it the network and openHAB answer and the inverter
\* is found.
Moves(A) == A /\ UNCHANGED calm

Fairness ==
  \A d \in Devices :
    /\ WF_vars(Moves(Exchange(d, TRUE)))
    /\ WF_vars(Moves(Repeats(d)))
    /\ WF_vars(Moves(Nightly(d)))
    /\ \A k \in Units : WF_vars(Moves(Step(d, k)))

FairSpec == Spec /\ Fairness

----------------------------------------------------------------------------
\* A site that counts as installed has no code that could be redeemed: the
\* result endpoint nulls the code with "fertig", and a renewed code takes the
\* phase back (result/+server.js:40, code_erneuern).
FinishedHasNoCode == phase = "fertig" => code = "none"

\* "Mit fertig stirbt der Einrichtungscode": once a "fertig" is recorded, the
\* later runs of the set-up that report their phases again (a package update)
\* never make the code redeemable, so no old card takes the site over.
SpentCodeStaysDead == [][\A d \in Devices : Exchange(d, TRUE) \/ Exchange(d, FALSE) => ~spent]_vars

\* Once the disturbances end, a card with a valid code is not left lying
\* (unless another gateway's "fertig" ends the code), and the device that
\* holds the token completes its set-up as soon as the password is there,
\* whatever order the entries, the runs of its units and their failures had.
SetupCompletes ==
  \A d \in Devices :
    <<d, "firstboot">> \in Runners =>
      /\ (calm /\ Redeemable(d)) ~> (token = d \/ code = "none")
      /\ (calm /\ token = d) ~> (installed[d] = "done" \/ token # d \/ ~secret)

\* "Exit 75 = unvollstaendig, stromkreis-firstboot bzw. stromkreis-update
\* wiederholen den Lauf automatisch" (install.sh): an update that a gateway
\* leaves open, while it keeps its token, is run again.
IncompleteUpdateRepeats ==
  \A d \in Devices :
    (calm /\ installed[d] = "done" /\ doing[d]["update"] = "open" /\ token = d) ~>
      (doing[d]["update"] = "load" \/ inverter[d] = "full" \/ token # d)

=============================================================================
