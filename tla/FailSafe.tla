------------------------------ MODULE FailSafe ------------------------------
(***************************************************************************)
(* Who may write to the home battery's inverter, and who clears what was   *)
(* written when the writer dies, on a gateway with a Modbus inverter: the  *)
(* only kind on which 10-install-failsafe.sh leaves timer and boot reset   *)
(* installed (the schedules of a GEN24 run out by themselves).             *)
(*                                                                         *)
(* Four actors share one inverter: the control rule of openHAB (the first  *)
(* steps of every cycle of gateway/openhab/control/core.js), the Modbus    *)
(* binding that carries its writes, the root script stromkreis-failsafe    *)
(* (generated by gateway/openhab/setup/10-install-failsafe.sh; a timer     *)
(* starts it every minute and a boot service before openHAB), and the      *)
(* member, who owns the device while the main switch is OFF.  They talk    *)
(* through three files: the standby marker, the heartbeat and the stamp.   *)
(***************************************************************************)
EXTENDS Integers

CONSTANTS
    STALE_MIN,       \* FAILSAFE_STALE_MIN: a heartbeat this old is dead
    REPEAT_MIN,      \* FAILSAFE_REPEAT_MIN: pause between resets of an outage
    BOOT_TRIES       \* attempts of the boot reset

ASSUME ConstantsAssumption ==
    /\ STALE_MIN \in Nat \ {0}
    /\ REPEAT_MIN \in Nat \ {0}
    /\ BOOT_TRIES \in Nat \ {0}

VARIABLES
    toggleOn,    \* item Stromkreis_Aktiv, the member's main switch
    openhab,     \* is openhab.service active?
    power,       \* has the Pi power?
    rule,        \* where the control rule is in its cycle
    queue,       \* what the binding has been handed and has not carried yet
    binding,     \* do the binding's bridge, things and items work?
    shell,       \* do openHAB's shell calls work (Exec, disk, 5 s)?
    reachable,   \* does the inverter answer on the LAN?
    inverter,    \* what is set on the inverter
    standby,     \* the standby marker exists
    heartbeat,   \* age of the heartbeat file in minutes, or NoFile
    stamp,       \* age of the stamp of the last fail-safe reset, or NoFile
    failsafe,    \* where stromkreis-failsafe is (it holds the lock unless idle)
    tries,       \* attempts the running boot reset has made
    timerDue,    \* the timer has to start the script in this minute
    standing,    \* history: minutes a window has stood, untouched, on an
                 \* inverter that could be reached, with no marker
    missed,      \* history: since a write last landed, a reset was lost
    stale        \* history: a cycle with the switch ON left the marker there

ruleVars     == <<rule, queue>>
fileVars     == <<standby, stale, heartbeat, stamp>>
scriptVars   == <<failsafe, tries, timerDue>>
envVars      == <<toggleOn, openhab, power, binding, shell, reachable>>
deviceVars   == <<inverter, standing, missed>>
vars == <<toggleOn, openhab, power, binding, shell, reachable, rule, queue,
          inverter, standing, missed, standby, stale, heartbeat, stamp,
          failsafe, tries, timerDue>>

NoFile == -1

OnSteps   == {"on_reset", "rm_touch", "rm_only", "touch", "command"}
OffSteps  == {"off_reset", "off_touch"}
RuleSteps == {"idle"} \cup OnSteps \cup OffSteps

Larger(a, b) == IF a < b THEN b ELSE a

\* The longest a window may stand while everybody who could clear it could.
STANDING_MAX == Larger(STALE_MIN, REPEAT_MIN)

TypeOK ==
    /\ toggleOn \in BOOLEAN
    /\ openhab \in BOOLEAN
    /\ power \in BOOLEAN
    /\ binding \in BOOLEAN
    /\ shell \in BOOLEAN
    /\ reachable \in BOOLEAN
    /\ rule \in RuleSteps
    /\ queue \in SUBSET {"factory", "window"}
    /\ inverter \in {"factory", "window", "member"}
    /\ standing \in 0..(STANDING_MAX + 1)
    /\ missed \in BOOLEAN
    /\ standby \in BOOLEAN
    /\ stale \in BOOLEAN
    /\ heartbeat \in NoFile..STALE_MIN
    /\ stamp \in NoFile..REPEAT_MIN
    /\ failsafe \in {"idle", "reset", "boot", "boot_reset"}
    /\ tries \in 0..(BOOT_TRIES - 1)
    /\ timerDue \in BOOLEAN

\* A fresh installation: no cycle has run, the device is as delivered.
Init ==
    /\ toggleOn \in BOOLEAN
    /\ openhab = TRUE
    /\ power = TRUE
    /\ binding \in BOOLEAN
    /\ shell \in BOOLEAN
    /\ reachable \in BOOLEAN
    /\ rule = "idle"
    /\ queue = {}
    /\ inverter = "factory"
    /\ standing = 0
    /\ missed = FALSE
    /\ standby = FALSE
    /\ stale = FALSE
    /\ heartbeat = NoFile
    /\ stamp = NoFile
    /\ failsafe = "idle"
    /\ tries = 0
    /\ timerDue = FALSE

-----------------------------------------------------------------------------
(***************************************************************************)
(* Writing to the device.  A device that does not answer may still have    *)
(* taken the write (the request arrived, the answer was lost).             *)
(***************************************************************************)

\* v arrives, and whatever was missing before it no longer matters.
Lands(v) ==
    /\ inverter' = v
    /\ standing' = 0
    /\ missed' = FALSE

\* An adapter call that hands v to the binding: ok means that every item was
\* there and no sendCommand threw, and a failing call may have sent a part.
Send(v, ok) ==
    /\ ok \/ ~binding
    /\ queue' \in IF ok THEN {queue \cup {v}} ELSE {queue, queue \cup {v}}
    /\ UNCHANGED deviceVars

\* The binding carries its oldest write, a cycle's reset before its command,
\* or gives it up.
BindingWrites ==
    /\ queue # {}
    /\ LET v == IF "factory" \in queue THEN "factory" ELSE "window" IN
          /\ queue' = queue \ {v}
          /\ \/ binding /\ Lands(v)
             \/ /\ ~(binding /\ reachable)
                /\ missed' = (missed \/ v = "factory")
                /\ UNCHANGED <<inverter, standing>>
    /\ UNCHANGED <<envVars, rule, fileVars, scriptVars>>

-----------------------------------------------------------------------------
(***************************************************************************)
(* The control rule (core.js, "Gemeinsamer Schritt").  The main switch is  *)
(* read once, at the start of the cycle.  A shell call that fails or runs  *)
(* into its 5 seconds has done its work or has not; nobody looks.          *)
(***************************************************************************)

\* Main switch OFF: only a "ja" of the shell keeps the rule off the device.
CycleOff ==
    /\ openhab /\ rule = "idle" /\ queue = {}
    /\ ~toggleOn
    /\ ~standby \/ ~shell
    /\ rule' = "off_reset"
    /\ UNCHANGED <<envVars, queue, deviceVars, fileVars, scriptVars>>

\* Mutant: the marker without the adapter's answer.
MutOffReset ==
    /\ rule = "off_reset"
    /\ \E ok \in BOOLEAN : Send("factory", ok)
    /\ rule' = "off_touch"
    /\ UNCHANGED <<envVars, fileVars, scriptVars>>

\* The last reset; repeated by the next cycle unless it was ok.
OffReset ==
    /\ rule = "off_reset"
    /\ \E ok \in BOOLEAN :
          /\ Send("factory", ok)
          /\ rule' = IF ok THEN "off_touch" ELSE "idle"
    /\ UNCHANGED <<envVars, fileVars, scriptVars>>

\* Mutant: the marker is not created.
MutOffTouch ==
    /\ rule = "off_touch"
    /\ rule' = "idle"
    /\ UNCHANGED <<envVars, queue, deviceVars, fileVars, scriptVars>>

OffTouch ==
    /\ rule = "off_touch"
    /\ rule' = "idle"
    /\ standby' \in {TRUE} \cup IF shell THEN {} ELSE {standby}
    /\ stale' = FALSE
    /\ UNCHANGED <<envVars, queue, deviceVars, heartbeat, stamp, scriptVars>>

CycleOn ==
    /\ openhab /\ rule = "idle" /\ queue = {}
    /\ toggleOn
    /\ rule' = "on_reset"
    /\ UNCHANGED <<envVars, queue, deviceVars, fileVars, scriptVars>>

\* Mutant: the heartbeat without the adapter's answer.
MutOnReset ==
    /\ rule = "on_reset"
    /\ \E ok \in BOOLEAN : Send("factory", ok)
    /\ rule' = "rm_touch"
    /\ UNCHANGED <<envVars, fileVars, scriptVars>>

OnReset ==
    /\ rule = "on_reset"
    /\ \E ok \in BOOLEAN :
          /\ Send("factory", ok)
          /\ rule' = IF ok THEN "rm_touch" ELSE "rm_only"
    /\ UNCHANGED <<envVars, fileVars, scriptVars>>

\* rm -f of the marker.  After a reset that was ok a touch of the heartbeat
\* follows in the same shell, whether or not the rm worked.
RemoveMarker ==
    /\ rule \in {"rm_touch", "rm_only"}
    /\ rule' = IF rule = "rm_touch" THEN "touch" ELSE "command"
    /\ standby' \in {FALSE} \cup IF shell THEN {} ELSE {standby}
    /\ stale' = standby'
    /\ UNCHANGED <<envVars, queue, deviceVars, heartbeat, stamp, scriptVars>>

TouchHeartbeat ==
    /\ rule = "touch"
    /\ rule' = "command"
    /\ heartbeat' \in {0} \cup IF shell THEN {} ELSE {heartbeat}
    /\ UNCHANGED <<envVars, queue, deviceVars, standby, stale, stamp, scriptVars>>

\* The rest of the cycle: a pause, a closed window or a failed guard sends
\* nothing, any other cycle sends one lock, limit or discharge command.
Command ==
    /\ rule = "command"
    /\ rule' = "idle"
    /\ \/ \E ok \in BOOLEAN : Send("window", ok)
       \/ UNCHANGED <<queue, deviceVars>>
    /\ UNCHANGED <<envVars, fileVars, scriptVars>>

RuleStep == \/ OffReset \/ OffTouch \/ OnReset \/ RemoveMarker
            \/ TouchHeartbeat \/ Command

-----------------------------------------------------------------------------
(***************************************************************************)
(* stromkreis-failsafe, started by the timer.                              *)
(***************************************************************************)

TimerStarts ==
    /\ power /\ timerDue /\ failsafe = "idle"
    /\ timerDue' = FALSE

\* The boot reset holds the lock: the timer's run ends at once.
TimerSkips ==
    /\ power /\ timerDue /\ failsafe # "idle"
    /\ timerDue' = FALSE
    /\ UNCHANGED <<envVars, ruleVars, deviceVars, fileVars, failsafe, tries>>

Fresh == openhab /\ heartbeat < STALE_MIN

\* Standby: forget the outage, leave the device alone.
TimerStandby ==
    /\ TimerStarts
    /\ standby
    /\ stamp' = NoFile
    /\ UNCHANGED <<envVars, ruleVars, deviceVars, standby, stale, heartbeat,
                   failsafe, tries>>

\* No heartbeat ever: nothing to do.
TimerNoHeartbeat ==
    /\ TimerStarts
    /\ ~standby /\ heartbeat = NoFile
    /\ UNCHANGED <<envVars, ruleVars, deviceVars, fileVars, failsafe, tries>>

\* The core is alive: the outage is over.
TimerFresh ==
    /\ TimerStarts
    /\ ~standby /\ heartbeat # NoFile /\ Fresh
    /\ stamp' = NoFile
    /\ UNCHANGED <<envVars, ruleVars, deviceVars, standby, stale, heartbeat,
                   failsafe, tries>>

\* Mutant: one reset per outage, however long it lasts.
MutTimerWaits ==
    /\ TimerStarts
    /\ ~standby /\ heartbeat # NoFile /\ ~Fresh
    /\ stamp # NoFile
    /\ UNCHANGED <<envVars, ruleVars, deviceVars, fileVars, failsafe, tries>>

\* An outage, and the last reset of it is too young to be repeated.
TimerWaits ==
    /\ TimerStarts
    /\ ~standby /\ heartbeat # NoFile /\ ~Fresh
    /\ stamp # NoFile /\ stamp < REPEAT_MIN
    /\ UNCHANGED <<envVars, ruleVars, deviceVars, fileVars, failsafe, tries>>

\* An outage: the script goes on to write, without a second look at the files.
TimerIntervenes ==
    /\ TimerStarts
    /\ ~standby /\ heartbeat # NoFile /\ ~Fresh
    /\ stamp = NoFile \/ stamp >= REPEAT_MIN
    /\ failsafe' = "reset"
    /\ UNCHANGED <<envVars, ruleVars, deviceVars, fileVars, tries>>

\* do_reset over a connection of its own; only a reset read back from the
\* device leaves a stamp.
DoReset ==
    /\ Lands("factory") \/ (~reachable /\ UNCHANGED deviceVars)
    /\ stamp' = IF reachable THEN 0 ELSE stamp
    /\ UNCHANGED <<envVars, ruleVars, standby, stale, heartbeat>>

TimerReset ==
    /\ failsafe = "reset"
    /\ failsafe' = "idle"
    /\ DoReset
    /\ UNCHANGED <<tries, timerDue>>

TimerRun == \/ TimerSkips \/ TimerStandby \/ TimerNoHeartbeat \/ TimerFresh
            \/ TimerWaits \/ TimerIntervenes

-----------------------------------------------------------------------------
(***************************************************************************)
(* stromkreis-failsafe --boot, ordered before openhab.service.             *)
(***************************************************************************)

BootStandby ==
    /\ failsafe = "boot" /\ standby
    /\ failsafe' = "idle"
    /\ UNCHANGED <<envVars, ruleVars, deviceVars, fileVars, tries, timerDue>>

\* Mutant: the boot reset does not look at the marker.
MutBootIntervenes ==
    /\ failsafe = "boot"
    /\ failsafe' = "boot_reset"
    /\ UNCHANGED <<envVars, ruleVars, deviceVars, fileVars, tries, timerDue>>

BootIntervenes ==
    /\ failsafe = "boot" /\ ~standby
    /\ failsafe' = "boot_reset"
    /\ UNCHANGED <<envVars, ruleVars, deviceVars, fileVars, tries, timerDue>>

\* One attempt; after the last one the timer is left to try.
BootReset ==
    /\ failsafe = "boot_reset"
    /\ DoReset
    /\ LET done == reachable \/ tries + 1 = BOOT_TRIES IN
          /\ failsafe' = IF done THEN "idle" ELSE "boot_reset"
          /\ tries' = IF done THEN 0 ELSE tries + 1
    /\ UNCHANGED timerDue

BootRun == BootStandby \/ BootIntervenes \/ BootReset

-----------------------------------------------------------------------------
(***************************************************************************)
(* The surroundings.                                                       *)
(***************************************************************************)

Older(age, cap) == IF age = NoFile \/ age = cap THEN age ELSE age + 1

\* A minute passes.  The timer's run of the last minute and the writes of the
\* binding take seconds, the attempts at boot are 15 seconds apart and fill a
\* minute only if none succeeds; a rule that hangs may let minutes pass.
Tick ==
    /\ power => ~timerDue
    /\ failsafe = "idle" \/ (failsafe = "boot_reset" /\ ~reachable)
    /\ queue = {}
    /\ heartbeat' = Older(heartbeat, STALE_MIN)
    /\ stamp' = Older(stamp, REPEAT_MIN)
    /\ timerDue' = power
    /\ standing' = IF inverter = "window" /\ power /\ reachable /\ ~standby
                   THEN Older(standing, STANDING_MAX + 1) ELSE 0
    /\ UNCHANGED <<envVars, ruleVars, inverter, missed, standby, stale,
                   failsafe, tries>>

MemberSwitches ==
    /\ openhab
    /\ toggleOn' = ~toggleOn
    /\ UNCHANGED <<openhab, power, binding, shell, reachable, ruleVars,
                   deviceVars, fileVars, scriptVars>>

\* Main switch OFF: the member's own app or EMS commands the inverter.
MemberWrites ==
    /\ ~toggleOn
    /\ inverter' = "member"
    /\ standing' = 0
    /\ UNCHANGED <<envVars, missed, ruleVars, fileVars, scriptVars>>

\* The inverter drops off the LAN, or comes back.
ReachableChanges ==
    /\ reachable' = ~reachable
    /\ standing' = 0
    /\ UNCHANGED <<toggleOn, openhab, power, binding, shell, ruleVars,
                   inverter, missed, fileVars, scriptVars>>

\* The binding's bridge is disabled or fails, or recovers.
BindingChanges ==
    /\ openhab
    /\ binding' = ~binding
    /\ UNCHANGED <<toggleOn, openhab, power, shell, reachable, ruleVars,
                   deviceVars, fileVars, scriptVars>>

\* The disk is full or read-only, Exec is stuck, or it works again.
ShellChanges ==
    /\ shell' = ~shell
    /\ UNCHANGED <<toggleOn, openhab, power, binding, reachable, ruleVars,
                   deviceVars, fileVars, scriptVars>>

\* A dying openHAB takes what the binding holds with it.
QueueLost ==
    /\ rule' = "idle"
    /\ queue' = {}
    /\ missed' = (missed \/ "factory" \in queue)
    /\ UNCHANGED inverter

\* openHAB crashes, is stopped or is killed, in the middle of a cycle too.
OpenhabDies ==
    /\ openhab
    /\ openhab' = FALSE
    /\ QueueLost
    /\ UNCHANGED <<toggleOn, power, binding, shell, reachable, standing,
                   fileVars, scriptVars>>

OpenhabStarts ==
    /\ power /\ ~openhab /\ failsafe \notin {"boot", "boot_reset"}
    /\ openhab' = TRUE
    /\ binding' \in BOOLEAN
    /\ UNCHANGED <<toggleOn, power, shell, reachable, ruleVars, deviceVars,
                   fileVars, scriptVars>>

PowerFails ==
    /\ power
    /\ power' = FALSE
    /\ openhab' = FALSE
    /\ QueueLost
    /\ failsafe' = "idle"
    /\ tries' = 0
    /\ timerDue' = FALSE
    /\ standing' = 0
    /\ UNCHANGED <<toggleOn, binding, shell, reachable, fileVars>>

Boots ==
    /\ ~power
    /\ power' = TRUE
    /\ failsafe' = "boot"
    /\ tries' = 0
    /\ timerDue' = FALSE
    /\ UNCHANGED <<toggleOn, openhab, binding, shell, reachable, ruleVars,
                   deviceVars, fileVars>>

-----------------------------------------------------------------------------

Environment == \/ MemberSwitches \/ MemberWrites \/ ReachableChanges
               \/ BindingChanges \/ ShellChanges \/ OpenhabDies \/ OpenhabStarts
               \/ PowerFails \/ Boots

Next == \/ CycleOff \/ CycleOn \/ RuleStep
        \/ BindingWrites
        \/ TimerRun \/ TimerReset \/ BootRun
        \/ Tick
        \/ Environment

Spec == Init /\ [][Next]_vars

\* Time passes (SF: no busy minute holds it back), systemd starts the script
\* every minute and it finishes, the binding carries what it was handed, and
\* while openHAB is active its cron trigger starts cycles.  Nothing is assumed
\* of the member, of the network or of openHAB staying up.
Fairness ==
    /\ SF_vars(Tick)
    /\ WF_vars(TimerRun)
    /\ WF_vars(TimerReset)
    /\ WF_vars(BootRun)
    /\ WF_vars(BindingWrites)
    /\ WF_vars(CycleOff \/ CycleOn)
    /\ WF_vars(RuleStep)

FairSpec == Spec /\ Fairness

-----------------------------------------------------------------------------
(***************************************************************************)
(* Properties.                                                             *)
(***************************************************************************)

Stands == inverter = "window"

\* The standby marker silences the core, the timer and the boot reset, so a
\* window behind it would stand until the member clears it.  That happens in
\* two ways and no other: the last reset was handed over and then lost, or the
\* marker is one that a cycle with the switch ON could not remove.
MarkerHidesOnlyFaults ==
    standby /\ queue = {} /\ Stands => missed \/ stale

\* The code's own promise (core.js, "damit ... kein Fenster stehen bleibt"): behind
\* a marker that the last reset has earned no window stands.
StandbyMeansReleased == standby /\ ~stale /\ queue = {} => ~Stands

\* A window never stands longer than the larger of the two periods on an
\* inverter that can be reached, whatever dies, unless a reset was lost that
\* the heartbeat already vouches for: a core that hangs, or whose reset is not
\* ok, stops touching the heartbeat, and the timer repeats its reset.
StandingWindowBounded ==
    Stands /\ heartbeat # NoFile /\ ~standby /\ queue = {} /\ ~missed
        => standing <= STANDING_MAX

\* The device changes hands as Ownership promises.  It is not Stromkreis's
\* while the marker exists and no cycle that read the switch as ON is running,
\* and not yet the member's while something decided before is on its way.
onItsWay == \/ queue # {} \/ rule = "off_reset"
            \/ failsafe \in {"reset", "boot_reset"}

owner == IF ~standby \/ rule \in OnSteps THEN "stromkreis"
         ELSE IF onItsWay THEN "leaving" ELSE "member"

Owned == INSTANCE Ownership WITH fault <- (missed \/ stale \/ ~shell)

ImplementsOwnership == Owned!Spec

\* An outage in which only openHAB is gone ends with the inverter cleared.
Outage == /\ power /\ ~openhab /\ reachable
          /\ ~standby /\ heartbeat # NoFile

OutageIsCleared == (<>[]Outage) => <>[](inverter # "window")

\* A dead binding is one of the cases the timer is there for: no heartbeat
\* without a reset that worked, and the timer clears the inverter over its own
\* connection (failsafe-modbus.md, "schlaegt das Binding fehl", and test 13).
DeadBinding == /\ power /\ openhab /\ ~binding /\ shell /\ reachable /\ toggleOn
               /\ ~standby /\ heartbeat # NoFile

DeadBindingIsCleared == (<>[]DeadBinding) => <>[](inverter # "window")

Working == power /\ openhab /\ binding /\ shell /\ reachable

\* Switching off is completed: the last reset is repeated until it is ok, and
\* the marker then stays.
SwitchingOffCompletes == (<>[](Working /\ ~toggleOn)) => <>[]standby

\* Switching on is completed: the marker goes for good and the heartbeat is
\* touched again and again.
SwitchingOnCompletes ==
    (<>[](Working /\ toggleOn)) => (<>[]~standby /\ []<>(heartbeat = 0))

\* The main switch takes hold either way, whatever failed before.
SwitchingCompletes == SwitchingOffCompletes /\ SwitchingOnCompletes

-----------------------------------------------------------------------------
(***************************************************************************)
(* The inductive invariant behind MarkerHidesOnlyFaults, StandingWindow-   *)
(* Bounded and ImplementsOwnership.                                        *)
(***************************************************************************)

\* The reset that will clear a standing window is on its way, or was lost.
Answered == "factory" \in queue \/ missed

\* A window is behind the marker, or comes behind it, only as the faults allow,
\* and then no minute is counted; the marker that is about to be made is made
\* after the reset.
MarkerInv ==
    /\ standby /\ Stands => Answered \/ (stale /\ standing = 0)
    /\ standby /\ "window" \in queue => stale
    /\ standby /\ rule \in {"touch", "command"} => stale
    /\ rule = "off_touch" /\ Stands => Answered

\* A cycle starts with nothing on its way and commands last; a dead openHAB
\* runs no rule; the minutes stand still without power, during the boot and
\* while the inverter is off the LAN.
RuleInv ==
    /\ rule \in {"on_reset", "off_reset"} => queue = {}
    /\ rule # "idle" => "window" \notin queue
    /\ rule \in {"rm_touch", "touch"} /\ Stands => Answered
    /\ ~openhab => rule = "idle" /\ queue = {}
    /\ ~power => ~openhab /\ failsafe = "idle" /\ ~timerDue
    /\ failsafe \in {"boot", "boot_reset"} => ~openhab
    /\ ~power \/ ~reachable \/ failsafe \in {"boot", "boot_reset"} => standing = 0

\* A window is younger than a live heartbeat and than a young stamp, and the
\* timer's run of this minute left it standing only for one of the two.
StandingInv ==
    Stands /\ heartbeat # NoFile /\ ~Answered =>
        /\ standing <= STANDING_MAX
        /\ heartbeat < STALE_MIN => standing <= heartbeat
        /\ stamp # NoFile /\ stamp < REPEAT_MIN => standing <= stamp
        /\ heartbeat = STALE_MIN /\ ~timerDue /\ failsafe # "reset"
             => standing = 0 \/ (stamp # NoFile /\ stamp < REPEAT_MIN)

IInv == TypeOK /\ MarkerInv /\ RuleInv /\ StandingInv

=============================================================================
