---------------------------- MODULE RemoteActions ----------------------------
(***************************************************************************)
(* Remote maintenance of a gateway (lib/server/gateway-ssh.js): a fixed    *)
(* action is run over SOCKS and SSH as root, one at a time per site, its   *)
(* host key checked against the one the gateway has reported or, where     *)
(* there is none, taken over from the first connection.                    *)
(*                                                                         *)
(* One site; its card may be replaced while a session is under way.  What  *)
(* a script does is not told apart; one may hand its work to systemd and    *)
(* end, or run longer than the session waits for it.                       *)
(***************************************************************************)
EXTENDS Integers, FiniteSets

CONSTANTS
    SESSIONS,       \* clicks of operators
    MAX_CARDS,      \* bound of the model: cards of the gateway, each with a key of its own
    MAX_BREAKS      \* bound of the model: sessions that break off, restarts of the platform

ASSUME RemoteActionsAssumption == MAX_CARDS \in Nat \ {0} /\ MAX_BREAKS \in Nat

VARIABLES
    hostKey,    \* battery_site.ssh_host_key, 0: null
    running,    \* running.has(site)
    session,    \* runRemoteAction of each click
    card,       \* the card in the Pi
    scripts,    \* on the Pi: scripts that run, by session
    breaks,
    reported,   \* history: the key that has been reported last, 0 for none
    broken      \* history: a session has ended before its script

remoteVars == <<hostKey, running, session, card, scripts, breaks, reported, broken>>

NoSession == [at |-> "idle", expected |-> 0, seen |-> 0]

RemoteInit ==
    /\ hostKey = 0 /\ running = FALSE /\ session = [s \in SESSIONS |-> NoSession]
    /\ card = 1 /\ scripts = {} /\ breaks = 0 /\ reported = 0 /\ broken = FALSE

\* Variant no code has: the site is not looked for in running.
MayRunAnyway(s) == session[s].at = "read"

\* running.has
MayRun(s) == session[s].at = "read" /\ ~running

-----------------------------------------------------------------------------
(***************************************************************************)
(* runRemoteAction.                                                        *)
(***************************************************************************)

\* The row: the key expected is the one stored now.
ReadSite(s) ==
    /\ session[s].at = "idle" /\ s \notin scripts
    /\ session' = [session EXCEPT ![s] = [NoSession EXCEPT !.at = "read", !.expected = hostKey]]
    /\ UNCHANGED <<hostKey, running, card, scripts, breaks, reported, broken>>

\* Not while an action runs on this site.
Admit(s) ==
    /\ session[s].at = "read"
    /\ IF MayRun(s) THEN running' = TRUE /\ session' = [session EXCEPT ![s].at = "connect"]
       ELSE running' = running /\ session' = [session EXCEPT ![s] = NoSession]
    /\ UNCHANGED <<hostKey, card, scripts, breaks, reported, broken>>

\* socksConnect and the handshake: a key that is not the expected one ends it.
Connect(s) ==
    LET expected == session[s].expected
    IN  /\ session[s].at = "connect"
        /\ session' = [session EXCEPT
              ![s].at = CASE expected = 0 -> "adopt"
                          [] expected = card -> "exec"
                          [] expected \notin {0, card} -> "finally",
              ![s].seen = card]
        /\ UNCHANGED <<hostKey, running, card, scripts, breaks, reported, broken>>

\* Variant no code has: the key seen is stored whatever is there by now.
AdoptedAnyway(key) == key

\* The key of the first connection, where still none is stored.
Adopted(key) == IF hostKey = 0 THEN key ELSE hostKey

AdoptKey(s) ==
    /\ session[s].at = "adopt"
    /\ hostKey' = Adopted(session[s].seen)
    /\ session' = [session EXCEPT ![s].at = "exec"]
    /\ UNCHANGED <<running, card, scripts, breaks, reported, broken>>

\* sudo -n true, then the script; not when the connection is to a card that is gone.
Exec(s) ==
    /\ session[s].at = "exec"
    /\ IF session[s].seen = card
       THEN scripts' = scripts \cup {s} /\ session' = [session EXCEPT ![s].at = "wait"]
       ELSE scripts' = scripts /\ session' = [session EXCEPT ![s].at = "finally"]
    /\ UNCHANGED <<hostKey, running, card, breaks, reported, broken>>

\* The script ends; where a session waits for it, it is told.
ScriptEnds(s) ==
    /\ s \in scripts /\ scripts' = scripts \ {s}
    /\ session' = IF session[s].at = "wait" THEN [session EXCEPT ![s].at = "finally"] ELSE session
    /\ UNCHANGED <<hostKey, running, card, breaks, reported, broken>>

\* A deadline (handshake 15 s, login 20 s, script by action), a lost connection or a
\* wrong password: finally.  What runs on the Pi goes on.
BreakOff(s) ==
    /\ session[s].at \in {"connect", "adopt", "exec", "wait"} /\ breaks < MAX_BREAKS
    /\ breaks' = breaks + 1
    /\ session' = [session EXCEPT ![s].at = "finally"]
    /\ broken' = (broken \/ s \in scripts)
    /\ UNCHANGED <<hostKey, running, card, scripts, reported>>

Release(s) ==
    /\ session[s].at = "finally"
    /\ running' = FALSE /\ session' = [session EXCEPT ![s] = NoSession]
    /\ UNCHANGED <<hostKey, card, scripts, breaks, reported, broken>>

\* The platform is restarted.
RestartRemote ==
    /\ breaks < MAX_BREAKS /\ breaks' = breaks + 1
    /\ running' = FALSE /\ session' = [s \in SESSIONS |-> NoSession]
    /\ broken' = (broken \/ scripts # {})
    /\ UNCHANGED <<hostKey, card, scripts, reported>>

-----------------------------------------------------------------------------
(***************************************************************************)
(* The gateway.                                                            *)
(***************************************************************************)

\* Another card: the connections to the old one stand no more.
ReplaceCard ==
    /\ card < MAX_CARDS /\ card' = card + 1 /\ scripts' = {}
    /\ session' = [s \in SESSIONS |->
          IF session[s].at = "wait" THEN [session[s] EXCEPT !.at = "finally"]
          ELSE session[s]]
    /\ UNCHANGED <<hostKey, running, breaks, reported, broken>>

\* The phase tunnel of its set-up: the key is stored over any other.
ReportKey ==
    /\ hostKey' = card /\ reported' = card
    /\ UNCHANGED <<running, session, card, scripts, breaks, broken>>

RemoteNext ==
    \/ \E s \in SESSIONS :
          \/ ReadSite(s) \/ Admit(s) \/ Connect(s) \/ AdoptKey(s) \/ Exec(s)
          \/ ScriptEnds(s) \/ BreakOff(s) \/ Release(s)
    \/ RestartRemote \/ ReplaceCard \/ ReportKey

RemoteSpec == RemoteInit /\ [][RemoteNext]_remoteVars

-----------------------------------------------------------------------------
\* A key the gateway has reported stays the one that is asked for: no session that
\* began before it, with another card at the other end, puts its own in place.
ReportedKeyStands == reported # 0 => hostKey = reported

\* Two scripts run on a Pi at the same time only after a session, or the
\* platform, has ended before its script did.
OneScriptAtATime == Cardinality(scripts) > 1 => broken
=============================================================================
