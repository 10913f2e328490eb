--------------------------- MODULE FailSafeProofs ---------------------------
(***************************************************************************)
(* Proofs about FailSafe for every value of its periods.  Nothing is       *)
(* assumed of the adapter, the binding, the shell or the network beyond    *)
(* what FailSafe says of them.                                             *)
(***************************************************************************)
EXTENDS FailSafe, TLAPS

LEMMA CapFacts ==
    /\ STANDING_MAX \in Nat \ {0}
    /\ STANDING_MAX >= STALE_MIN
    /\ STANDING_MAX >= REPEAT_MIN
BY ConstantsAssumption DEF STANDING_MAX, Larger

\* The values the steps write are within their ranges.
LEMMA RangeFacts ==
    /\ 0 \in NoFile..STALE_MIN /\ NoFile \in NoFile..STALE_MIN
    /\ 0 \in NoFile..REPEAT_MIN /\ NoFile \in NoFile..REPEAT_MIN
    /\ 0 \in 0..(STANDING_MAX + 1)
    /\ 0 \in 0..(BOOT_TRIES - 1)
BY ConstantsAssumption, CapFacts DEF NoFile

\* The ageing of a file stays within its cap and never creates the file.
LEMMA OlderType ==
    ASSUME NEW cap \in Nat, NEW age \in NoFile..cap
    PROVE  /\ Older(age, cap) \in NoFile..cap
           /\ age >= 0 => Older(age, cap) \in 0..cap
           /\ Older(age, cap) = NoFile <=> age = NoFile
           /\ Older(age, cap) >= age
           /\ Older(age, cap) <= age + 1
BY DEF Older, NoFile

\* What a call of the adapter may do: it hands one write to the binding, or,
\* unless it is ok, none.
LEMMA SendFacts ==
    ASSUME NEW v \in {"factory", "window"}, NEW ok \in BOOLEAN, Send(v, ok)
    PROVE  /\ queue' \in {queue, queue \cup {v}}
           /\ ok => queue' = queue \cup {v}
           /\ UNCHANGED <<inverter, standing, missed>>
BY DEF Send, deviceVars

-----------------------------------------------------------------------------

LEMMA TypeInit == Init => TypeOK
<1> SUFFICES ASSUME Init PROVE TypeOK
  OBVIOUS
<1> QED  BY RangeFacts DEF Init, TypeOK, RuleSteps

LEMMA TypeStep == TypeOK /\ [Next]_vars => TypeOK'
<1> SUFFICES ASSUME TypeOK, [Next]_vars PROVE TypeOK'
  OBVIOUS
<1> USE RangeFacts DEF TypeOK, envVars, ruleVars, deviceVars, fileVars, scriptVars
<1>1. CASE CycleOff
  BY <1>1 DEF CycleOff, RuleSteps, OffSteps
<1>2. CASE CycleOn
  BY <1>2 DEF CycleOn, RuleSteps, OnSteps
<1>3. CASE OffReset
  <2> PICK ok \in BOOLEAN : Send("factory", ok) /\ rule' = IF ok THEN "off_touch" ELSE "idle"
    BY <1>3 DEF OffReset
  <2>1. rule' \in RuleSteps
    BY DEF RuleSteps, OffSteps
  <2>2. UNCHANGED <<envVars, fileVars, scriptVars>>
    BY <1>3 DEF OffReset
  <2>3. queue' \in SUBSET {"factory", "window"} /\ UNCHANGED deviceVars
    BY SendFacts
  <2> QED  BY <2>1, <2>2, <2>3
<1>4. CASE OffTouch
  <2>1. rule' \in RuleSteps
    BY <1>4 DEF OffTouch, RuleSteps
  <2>2. standby' \in BOOLEAN
    BY <1>4 DEF OffTouch
  <2> QED  BY <1>4, <2>1, <2>2 DEF OffTouch
<1>5. CASE OnReset
  <2> PICK ok \in BOOLEAN : Send("factory", ok) /\ rule' = IF ok THEN "rm_touch" ELSE "rm_only"
    BY <1>5 DEF OnReset
  <2>1. rule' \in RuleSteps
    BY DEF RuleSteps, OnSteps
  <2>2. UNCHANGED <<envVars, fileVars, scriptVars>>
    BY <1>5 DEF OnReset
  <2>3. queue' \in SUBSET {"factory", "window"} /\ UNCHANGED deviceVars
    BY SendFacts
  <2> QED  BY <2>1, <2>2, <2>3
<1>6. CASE RemoveMarker
  <2>1. rule' \in RuleSteps
    BY <1>6 DEF RemoveMarker, RuleSteps, OnSteps
  <2>2. standby' \in BOOLEAN
    BY <1>6 DEF RemoveMarker
  <2> QED  BY <1>6, <2>1, <2>2 DEF RemoveMarker
<1>7. CASE TouchHeartbeat
  BY <1>7 DEF TouchHeartbeat, RuleSteps, OnSteps
<1>8. CASE Command
  <2>1. rule' \in RuleSteps
    BY <1>8 DEF Command, RuleSteps
  <2>2. UNCHANGED <<envVars, fileVars, scriptVars>>
    BY <1>8 DEF Command
  <2>3. queue' \in SUBSET {"factory", "window"} /\ UNCHANGED deviceVars
    BY <1>8, SendFacts DEF Command
  <2> QED  BY <2>1, <2>2, <2>3
<1>9. CASE BindingWrites
  <2> PICK v \in {"factory", "window"} :
         /\ queue' = queue \ {v}
         /\ Lands(v) \/ (missed' = (missed \/ v = "factory")
                         /\ UNCHANGED <<inverter, standing>>)
    BY <1>9 DEF BindingWrites
  <2>1. queue' \in SUBSET {"factory", "window"}
    OBVIOUS
  <2>2. /\ inverter' \in {"factory", "window", "member"}
        /\ standing' \in 0..(STANDING_MAX + 1)
        /\ missed' \in BOOLEAN
    BY DEF Lands
  <2> QED  BY <1>9, <2>1, <2>2 DEF BindingWrites
<1>10. CASE TimerSkips
  BY <1>10 DEF TimerSkips
<1>11. CASE TimerStandby
  BY <1>11 DEF TimerStandby, TimerStarts
<1>12. CASE TimerNoHeartbeat
  BY <1>12 DEF TimerNoHeartbeat, TimerStarts
<1>13. CASE TimerFresh
  BY <1>13 DEF TimerFresh, TimerStarts
<1>14. CASE TimerWaits
  BY <1>14 DEF TimerWaits, TimerStarts
<1>15. CASE TimerIntervenes
  BY <1>15 DEF TimerIntervenes, TimerStarts
<1>16. CASE TimerReset
  BY <1>16 DEF TimerReset, DoReset, Lands
<1>17. CASE BootStandby
  BY <1>17 DEF BootStandby
<1>18. CASE BootIntervenes
  BY <1>18 DEF BootIntervenes
<1>19. CASE BootReset
  <2>1. tries' \in 0..(BOOT_TRIES - 1) /\ failsafe' \in {"idle", "boot_reset"}
    BY <1>19, ConstantsAssumption DEF BootReset
  <2>2. /\ inverter' \in {"factory", "window", "member"}
        /\ standing' \in 0..(STANDING_MAX + 1)
        /\ missed' \in BOOLEAN
    BY <1>19 DEF BootReset, DoReset, Lands
  <2>3. stamp' \in NoFile..REPEAT_MIN
    BY <1>19 DEF BootReset, DoReset
  <2> QED  BY <1>19, <2>1, <2>2, <2>3 DEF BootReset, DoReset
<1>20. CASE Tick
  <2>1. heartbeat' \in NoFile..STALE_MIN
    BY <1>20, OlderType, ConstantsAssumption DEF Tick
  <2>2. stamp' \in NoFile..REPEAT_MIN
    BY <1>20, OlderType, ConstantsAssumption DEF Tick
  <2>3. standing' \in 0..(STANDING_MAX + 1)
    <3>1. standing \in NoFile..(STANDING_MAX + 1) /\ standing >= 0
      BY CapFacts DEF NoFile
    <3>2. STANDING_MAX + 1 \in Nat
      BY CapFacts
    <3>3. Older(standing, STANDING_MAX + 1) \in 0..(STANDING_MAX + 1)
      BY <3>1, <3>2, OlderType
    <3> QED  BY <1>20, <3>3 DEF Tick
  <2> QED  BY <1>20, <2>1, <2>2, <2>3 DEF Tick
<1>21. CASE MemberSwitches
  BY <1>21 DEF MemberSwitches
<1>22. CASE MemberWrites
  BY <1>22 DEF MemberWrites
<1>23. CASE ReachableChanges
  BY <1>23 DEF ReachableChanges
<1>24. CASE BindingChanges
  BY <1>24 DEF BindingChanges
<1>25. CASE ShellChanges
  BY <1>25 DEF ShellChanges
<1>26. CASE OpenhabDies
  BY <1>26 DEF OpenhabDies, QueueLost, RuleSteps
<1>27. CASE OpenhabStarts
  BY <1>27 DEF OpenhabStarts
<1>28. CASE PowerFails
  BY <1>28 DEF PowerFails, QueueLost, RuleSteps
<1>29. CASE Boots
  BY <1>29 DEF Boots
<1>30. CASE UNCHANGED vars
  BY <1>30 DEF vars
<1> QED
  BY <1>1, <1>2, <1>3, <1>4, <1>5, <1>6, <1>7, <1>8, <1>9, <1>10,
     <1>11, <1>12, <1>13, <1>14, <1>15, <1>16, <1>17, <1>18, <1>19, <1>20,
     <1>21, <1>22, <1>23, <1>24, <1>25, <1>26, <1>27, <1>28, <1>29, <1>30
     DEF Next, RuleStep, TimerRun, BootRun, Environment

\* Every variable keeps its type, whatever fails.
THEOREM TypeCorrect == Spec => []TypeOK
BY TypeInit, TypeStep, PTL DEF Spec

-----------------------------------------------------------------------------
(***************************************************************************)
(* The invariant IInv, one lemma per part.                                 *)
(***************************************************************************)

LEMMA IInvInit == Init => IInv
<1> SUFFICES ASSUME Init PROVE IInv
  OBVIOUS
<1>1. TypeOK
  BY TypeInit
<1>2. MarkerInv
  BY DEF Init, MarkerInv, Stands
<1>3. RuleInv
  BY DEF Init, RuleInv, Stands
<1>4. StandingInv
  BY DEF Init, StandingInv, Stands
<1> QED  BY <1>1, <1>2, <1>3, <1>4 DEF IInv

\* A window is behind the marker only as the faults allow.
LEMMA MarkerStep ==
    ASSUME IInv, [Next]_vars
    PROVE  MarkerInv'
<1> USE DEF MarkerInv, RuleInv, IInv, TypeOK, Stands, Answered,
            envVars, ruleVars, deviceVars, fileVars, scriptVars
<1>1. CASE CycleOff
  BY <1>1 DEF CycleOff
<1>2. CASE CycleOn
  BY <1>2 DEF CycleOn
<1>3. CASE OffReset
  BY <1>3, SendFacts DEF OffReset
<1>4. CASE OffTouch
  BY <1>4 DEF OffTouch
<1>5. CASE OnReset
  BY <1>5, SendFacts DEF OnReset
<1>6. CASE RemoveMarker
  BY <1>6 DEF RemoveMarker
<1>7. CASE TouchHeartbeat
  BY <1>7 DEF TouchHeartbeat
<1>8. CASE Command
  BY <1>8, SendFacts DEF Command
<1>9. CASE BindingWrites
  BY <1>9 DEF BindingWrites, Lands
<1>10. CASE TimerSkips
  BY <1>10 DEF TimerSkips
<1>11. CASE TimerStandby
  BY <1>11 DEF TimerStandby, TimerStarts
<1>12. CASE TimerNoHeartbeat
  BY <1>12 DEF TimerNoHeartbeat, TimerStarts
<1>13. CASE TimerFresh
  BY <1>13 DEF TimerFresh, TimerStarts
<1>14. CASE TimerWaits
  BY <1>14 DEF TimerWaits, TimerStarts
<1>15. CASE TimerIntervenes
  BY <1>15 DEF TimerIntervenes, TimerStarts
<1>16. CASE TimerReset
  BY <1>16 DEF TimerReset, DoReset, Lands
<1>17. CASE BootStandby
  BY <1>17 DEF BootStandby
<1>18. CASE BootIntervenes
  BY <1>18 DEF BootIntervenes
<1>19. CASE BootReset
  BY <1>19 DEF BootReset, DoReset, Lands
<1>20. CASE Tick
  BY <1>20 DEF Tick
<1>21. CASE MemberSwitches
  BY <1>21 DEF MemberSwitches
<1>22. CASE MemberWrites
  BY <1>22 DEF MemberWrites
<1>23. CASE ReachableChanges
  BY <1>23 DEF ReachableChanges
<1>24. CASE BindingChanges
  BY <1>24 DEF BindingChanges
<1>25. CASE ShellChanges
  BY <1>25 DEF ShellChanges
<1>26. CASE OpenhabDies
  BY <1>26 DEF OpenhabDies, QueueLost
<1>27. CASE OpenhabStarts
  BY <1>27 DEF OpenhabStarts
<1>28. CASE PowerFails
  BY <1>28 DEF PowerFails, QueueLost
<1>29. CASE Boots
  BY <1>29 DEF Boots
<1>30. CASE UNCHANGED vars
  BY <1>30 DEF vars
<1> QED
  BY <1>1, <1>2, <1>3, <1>4, <1>5, <1>6, <1>7, <1>8, <1>9, <1>10,
     <1>11, <1>12, <1>13, <1>14, <1>15, <1>16, <1>17, <1>18, <1>19, <1>20,
     <1>21, <1>22, <1>23, <1>24, <1>25, <1>26, <1>27, <1>28, <1>29, <1>30
     DEF Next, RuleStep, TimerRun, BootRun, Environment

\* The rule's phases, what is on its way and the power keep what they say.
LEMMA RuleInvStep ==
    ASSUME IInv, [Next]_vars
    PROVE  RuleInv'
<1> USE DEF RuleInv, OnSteps, OffSteps, IInv, TypeOK, Stands, Answered,
            envVars, ruleVars, deviceVars, fileVars, scriptVars
<1>1. CASE CycleOff
  BY <1>1 DEF CycleOff
<1>2. CASE CycleOn
  BY <1>2 DEF CycleOn
<1>3. CASE OffReset
  BY <1>3, SendFacts DEF OffReset
<1>4. CASE OffTouch
  BY <1>4 DEF OffTouch
<1>5. CASE OnReset
  BY <1>5, SendFacts DEF OnReset
<1>6. CASE RemoveMarker
  BY <1>6 DEF RemoveMarker
<1>7. CASE TouchHeartbeat
  BY <1>7 DEF TouchHeartbeat
<1>8. CASE Command
  BY <1>8, SendFacts DEF Command
<1>9. CASE BindingWrites
  BY <1>9 DEF BindingWrites, Lands
<1>10. CASE TimerSkips
  BY <1>10 DEF TimerSkips
<1>11. CASE TimerStandby
  BY <1>11 DEF TimerStandby, TimerStarts
<1>12. CASE TimerNoHeartbeat
  BY <1>12 DEF TimerNoHeartbeat, TimerStarts
<1>13. CASE TimerFresh
  BY <1>13 DEF TimerFresh, TimerStarts
<1>14. CASE TimerWaits
  BY <1>14 DEF TimerWaits, TimerStarts
<1>15. CASE TimerIntervenes
  BY <1>15 DEF TimerIntervenes, TimerStarts
<1>16. CASE TimerReset
  BY <1>16 DEF TimerReset, DoReset, Lands
<1>17. CASE BootStandby
  BY <1>17 DEF BootStandby
<1>18. CASE BootIntervenes
  BY <1>18 DEF BootIntervenes
<1>19. CASE BootReset
  BY <1>19 DEF BootReset, DoReset, Lands
<1>20. CASE Tick
  BY <1>20 DEF Tick
<1>21. CASE MemberSwitches
  BY <1>21 DEF MemberSwitches
<1>22. CASE MemberWrites
  BY <1>22 DEF MemberWrites
<1>23. CASE ReachableChanges
  BY <1>23 DEF ReachableChanges
<1>24. CASE BindingChanges
  BY <1>24 DEF BindingChanges
<1>25. CASE ShellChanges
  BY <1>25 DEF ShellChanges
<1>26. CASE OpenhabDies
  BY <1>26 DEF OpenhabDies, QueueLost
<1>27. CASE OpenhabStarts
  BY <1>27 DEF OpenhabStarts
<1>28. CASE PowerFails
  BY <1>28 DEF PowerFails, QueueLost
<1>29. CASE Boots
  BY <1>29 DEF Boots
<1>30. CASE UNCHANGED vars
  BY <1>30 DEF vars
<1> QED
  BY <1>1, <1>2, <1>3, <1>4, <1>5, <1>6, <1>7, <1>8, <1>9, <1>10,
     <1>11, <1>12, <1>13, <1>14, <1>15, <1>16, <1>17, <1>18, <1>19, <1>20,
     <1>21, <1>22, <1>23, <1>24, <1>25, <1>26, <1>27, <1>28, <1>29, <1>30
     DEF Next, RuleStep, TimerRun, BootRun, Environment

\* A window stays younger than whatever is about to clear it.
LEMMA StandingStep ==
    ASSUME IInv, [Next]_vars
    PROVE  StandingInv'
<1> USE ConstantsAssumption, CapFacts DEF MarkerInv, RuleInv, StandingInv, NoFile,
        IInv, TypeOK, Stands, Answered,
        envVars, ruleVars, deviceVars, fileVars, scriptVars
<1>1. CASE CycleOff
  BY <1>1 DEF CycleOff
<1>2. CASE CycleOn
  BY <1>2 DEF CycleOn
<1>3. CASE OffReset
  BY <1>3, SendFacts DEF OffReset
<1>4. CASE OffTouch
  BY <1>4 DEF OffTouch
<1>5. CASE OnReset
  BY <1>5, SendFacts DEF OnReset
<1>6. CASE RemoveMarker
  BY <1>6 DEF RemoveMarker
<1>7. CASE TouchHeartbeat
  BY <1>7 DEF TouchHeartbeat
<1>8. CASE Command
  BY <1>8, SendFacts DEF Command
<1>9. CASE BindingWrites
  BY <1>9 DEF BindingWrites, Lands
<1>10. CASE TimerSkips
  BY <1>10 DEF TimerSkips
<1>11. CASE TimerStandby
  BY <1>11 DEF TimerStandby, TimerStarts
<1>12. CASE TimerNoHeartbeat
  BY <1>12 DEF TimerNoHeartbeat, TimerStarts
<1>13. CASE TimerFresh
  BY <1>13 DEF TimerFresh, TimerStarts, Fresh
<1>14. CASE TimerWaits
  BY <1>14 DEF TimerWaits, TimerStarts, Fresh
<1>15. CASE TimerIntervenes
  BY <1>15 DEF TimerIntervenes, TimerStarts
<1>16. CASE TimerReset
  BY <1>16 DEF TimerReset, DoReset, Lands
<1>17. CASE BootStandby
  BY <1>17 DEF BootStandby
<1>18. CASE BootIntervenes
  BY <1>18 DEF BootIntervenes
<1>19. CASE BootReset
  BY <1>19 DEF BootReset, DoReset, Lands
<1>20. CASE Tick
  BY <1>20 DEF Tick, Older
<1>21. CASE MemberSwitches
  BY <1>21 DEF MemberSwitches
<1>22. CASE MemberWrites
  BY <1>22 DEF MemberWrites
<1>23. CASE ReachableChanges
  BY <1>23 DEF ReachableChanges
<1>24. CASE BindingChanges
  BY <1>24 DEF BindingChanges
<1>25. CASE ShellChanges
  BY <1>25 DEF ShellChanges
<1>26. CASE OpenhabDies
  BY <1>26 DEF OpenhabDies, QueueLost
<1>27. CASE OpenhabStarts
  BY <1>27 DEF OpenhabStarts
<1>28. CASE PowerFails
  BY <1>28 DEF PowerFails, QueueLost
<1>29. CASE Boots
  BY <1>29 DEF Boots
<1>30. CASE UNCHANGED vars
  BY <1>30 DEF vars
<1> QED
  BY <1>1, <1>2, <1>3, <1>4, <1>5, <1>6, <1>7, <1>8, <1>9, <1>10,
     <1>11, <1>12, <1>13, <1>14, <1>15, <1>16, <1>17, <1>18, <1>19, <1>20,
     <1>21, <1>22, <1>23, <1>24, <1>25, <1>26, <1>27, <1>28, <1>29, <1>30
     DEF Next, RuleStep, TimerRun, BootRun, Environment

LEMMA IInvStep == IInv /\ [Next]_vars => IInv'
<1> SUFFICES ASSUME IInv, [Next]_vars PROVE IInv'
  OBVIOUS
<1>1. TypeOK'
  BY TypeStep DEF IInv
<1> QED  BY <1>1, MarkerStep, RuleInvStep, StandingStep DEF IInv

LEMMA IInvAlways == Spec => []IInv
BY IInvInit, IInvStep, PTL DEF Spec

\* A window of Stromkreis is behind the standby marker only when the last reset
\* was lost on its way, or when a cycle could not remove the marker.
THEOREM MarkerFaults == Spec => []MarkerHidesOnlyFaults
<1>1. IInv => MarkerHidesOnlyFaults
  BY DEF IInv, MarkerInv, MarkerHidesOnlyFaults, Answered
<1> QED  BY <1>1, IInvAlways, PTL

\* Unless a reset was lost on its way, no window outlives the larger of the two
\* periods on an inverter that can be reached, whatever dies and however often.
THEOREM Deadman == Spec => []StandingWindowBounded
<1>1. IInv => StandingWindowBounded
  BY DEF IInv, StandingInv, StandingWindowBounded, Answered
<1> QED  BY <1>1, IInvAlways, PTL

-----------------------------------------------------------------------------
(***************************************************************************)
(* FailSafe implements Ownership.                                          *)
(***************************************************************************)

LEMMA OwnershipInit == Init => Owned!Init
BY DEF Init, Owned!Init, owner

LEMMA OwnershipStep ==
    ASSUME IInv, [Next]_vars
    PROVE  [Owned!Next]_(Owned!ownVars)
<1> USE DEF IInv, TypeOK, MarkerInv, RuleInv, Stands, Answered, owner, onItsWay, OnSteps,
        envVars, ruleVars, deviceVars, fileVars, scriptVars,
        Owned!Next, Owned!ownVars, Owned!Orphaned, Owned!Write, Owned!HandOver,
        Owned!Land, Owned!GiveUp, Owned!Doubt, Owned!TakeBack, Owned!MemberWrite
<1>1. CASE CycleOff
  BY <1>1 DEF CycleOff
<1>2. CASE CycleOn
  BY <1>2 DEF CycleOn
<1>3. CASE OffReset
  BY <1>3, SendFacts DEF OffReset
<1>4. CASE OffTouch
  BY <1>4 DEF OffTouch
<1>5. CASE OnReset
  BY <1>5, SendFacts DEF OnReset
<1>6. CASE RemoveMarker
  BY <1>6 DEF RemoveMarker
<1>7. CASE TouchHeartbeat
  BY <1>7 DEF TouchHeartbeat
<1>8. CASE Command
  BY <1>8, SendFacts DEF Command
<1>9. CASE BindingWrites
  BY <1>9 DEF BindingWrites, Lands
<1>10. CASE TimerSkips
  BY <1>10 DEF TimerSkips
<1>11. CASE TimerStandby
  BY <1>11 DEF TimerStandby, TimerStarts
<1>12. CASE TimerNoHeartbeat
  BY <1>12 DEF TimerNoHeartbeat, TimerStarts
<1>13. CASE TimerFresh
  BY <1>13 DEF TimerFresh, TimerStarts
<1>14. CASE TimerWaits
  BY <1>14 DEF TimerWaits, TimerStarts
<1>15. CASE TimerIntervenes
  BY <1>15 DEF TimerIntervenes, TimerStarts
<1>16. CASE TimerReset
  BY <1>16 DEF TimerReset, DoReset, Lands
<1>17. CASE BootStandby
  BY <1>17 DEF BootStandby
<1>18. CASE BootIntervenes
  BY <1>18 DEF BootIntervenes
<1>19. CASE BootReset
  BY <1>19 DEF BootReset, DoReset, Lands
<1>20. CASE Tick
  BY <1>20 DEF Tick
<1>21. CASE MemberSwitches
  BY <1>21 DEF MemberSwitches
<1>22. CASE MemberWrites
  BY <1>22 DEF MemberWrites
<1>23. CASE ReachableChanges
  BY <1>23 DEF ReachableChanges
<1>24. CASE BindingChanges
  BY <1>24 DEF BindingChanges
<1>25. CASE ShellChanges
  BY <1>25 DEF ShellChanges
<1>26. CASE OpenhabDies
  BY <1>26 DEF OpenhabDies, QueueLost
<1>27. CASE OpenhabStarts
  BY <1>27 DEF OpenhabStarts
<1>28. CASE PowerFails
  BY <1>28 DEF PowerFails, QueueLost
<1>29. CASE Boots
  BY <1>29 DEF Boots
<1>30. CASE UNCHANGED vars
  BY <1>30 DEF vars
<1> QED
  BY <1>1, <1>2, <1>3, <1>4, <1>5, <1>6, <1>7, <1>8, <1>9, <1>10,
     <1>11, <1>12, <1>13, <1>14, <1>15, <1>16, <1>17, <1>18, <1>19, <1>20,
     <1>21, <1>22, <1>23, <1>24, <1>25, <1>26, <1>27, <1>28, <1>29, <1>30
     DEF Next, RuleStep, TimerRun, BootRun, Environment

\* Marker, cycle, binding and script keep the promise of Ownership: what lands
\* after the hand-over was decided before it, and a window is left behind, or a
\* reset sent again, only by a fault.
THEOREM RefinesOwnership == Spec => ImplementsOwnership
<1>1. IInv /\ [Next]_vars => [Owned!Next]_(Owned!ownVars)
  BY OwnershipStep
<1> QED
  BY <1>1, OwnershipInit, IInvAlways, PTL DEF Spec, ImplementsOwnership, Owned!Spec

=============================================================================
