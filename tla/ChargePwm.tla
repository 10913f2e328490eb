----------------------------- MODULE ChargePwm -----------------------------
(***************************************************************************)
(* The pulse-width modulation of the charge regulation: an adapter that    *)
(* can only forbid charging approximates a target power by locking a share *)
(* of the 5-minute slots (chargeRegulationPlan of control/core.js, state   *)
(* in item Stromkreis_LADEREGELUNG_STATUS).  The share of a slot ("duty")  *)
(* comes from forecast, battery and sun and is an input here; debts and    *)
(* duties are counted in units of 1/UNIT slot.                             *)
(***************************************************************************)
EXTENDS Integers

CONSTANTS
    UNIT,        \* units of debt in one slot
    MAX_DUTY,    \* REG_MAX_DUTY
    DUTIES,      \* the shares the planner may ask for, zero among them
    HYST_ON,     \* REG_HYST_ON: debt from which a free block is followed by a lock
    HYST_OFF,    \* REG_HYST_OFF: debt below which a locked block is followed by a free one
    DEBT_MAX,    \* REG_DEBT_MAX, the anti-windup
    BLOCK,       \* REG_BLOCK_SLOTS
    MAX_GAP,     \* REG_MAX_GAP_MIN
    GAPS         \* minutes from one cycle of the rule to the next

ASSUME PwmAssumption ==
    /\ UNIT \in Nat /\ MAX_DUTY \in 1..(UNIT - 1)
    /\ DUTIES \subseteq 0..MAX_DUTY
    /\ HYST_ON \in Nat /\ HYST_OFF \in UNIT..HYST_ON
    /\ BLOCK \in Nat \ {0}
    /\ DEBT_MAX \in Nat
    /\ DEBT_MAX >= HYST_ON + BLOCK * MAX_DUTY
    /\ MAX_GAP \in Nat
    /\ GAPS \subseteq Nat \ {0}

VARIABLES
    debt,     \* schuld: locked slots still owed
    lock,     \* sperren: decision of the running block
    rest,     \* restSlots: slots the running block still has
    age,      \* minutes since the state was written (zeit), at most Old
    slot,     \* what the plan of the last cycle said
    run,      \* history: slots locked in a row, at most RUN_MAX + 1
    owed      \* history: duty asked for less slots locked since the state was
              \* set up, at least -OWED_MIN

pwmVars == <<debt, lock, rest, age, slot, run, owed>>

\* An age at which the state is set up anew, and the age of a missing state.
Old == MAX_GAP + 1

\* The largest debt a block decision can meet, and with it the longest lock.
DEBT_TOP == HYST_ON - 1 + BLOCK * MAX_DUTY
RUN_MAX  == DEBT_TOP - UNIT + BLOCK
OWED_MIN == BLOCK * UNIT + 1

SmallerOf(a, b) == IF a < b THEN a ELSE b
LargerOf(a, b)  == IF a < b THEN b ELSE a

PwmTypeOK ==
    /\ debt \in 0..DEBT_MAX
    /\ lock \in BOOLEAN
    /\ rest \in 0..(BLOCK - 1)
    /\ age \in 0..Old
    /\ slot \in {"none", "free", "lock", "crossover"}
    /\ run \in 0..(RUN_MAX + 1)
    /\ owed \in (-OWED_MIN)..DEBT_MAX

PwmInit ==
    /\ debt = 0 /\ lock = FALSE /\ rest = 0 /\ age = Old
    /\ slot = "none" /\ run = 0 /\ owed = 0

-----------------------------------------------------------------------------
\* A state older than the gap (or none) counts as empty.
Fresh(gap) == age + gap <= MAX_GAP
DebtAt(gap) == IF Fresh(gap) THEN debt ELSE 0
LockAt(gap) == Fresh(gap) /\ lock
RestAt(gap) == IF Fresh(gap) THEN rest ELSE 0
OwedAt(gap) == IF Fresh(gap) THEN owed ELSE 0

\* Mutant: the duty is added twice.
MutCharged(d, gap) == SmallerOf(DebtAt(gap) + d + d, DEBT_MAX)

\* The debt a block decision sees, and the decision.
Charged(d, gap) == SmallerOf(DebtAt(gap) + d, DEBT_MAX)

\* Mutant: a lock that no low debt ends.
MutDecides(d, gap) ==
    Charged(d, gap) >= IF LockAt(gap) THEN 0 ELSE HYST_ON

Decides(d, gap) ==
    Charged(d, gap) >= IF LockAt(gap) THEN HYST_OFF ELSE HYST_ON
Locks(d, gap) ==
    /\ d > 0
    /\ IF RestAt(gap) = 0 THEN Decides(d, gap) ELSE LockAt(gap)

\* The rule plans a slot with duty d, gap minutes after its last cycle.
Plan(d, gap) ==
    /\ debt' = IF Locks(d, gap) THEN LargerOf(Charged(d, gap) - UNIT, 0)
                                ELSE Charged(d, gap)
    /\ lock' = Locks(d, gap)
    /\ rest' = IF d = 0 THEN 0
               ELSE (IF RestAt(gap) = 0 THEN BLOCK ELSE RestAt(gap)) - 1
    /\ age' = 0
    /\ slot' = IF Locks(d, gap) THEN "lock" ELSE "free"
    /\ run' = IF Locks(d, gap) THEN SmallerOf(run + 1, RUN_MAX + 1) ELSE 0
    /\ owed' = LargerOf(OwedAt(gap) + d - (IF Locks(d, gap) THEN UNIT ELSE 0),
                        -OWED_MIN)

\* Mutant: the crossover lock keeps the debt.
MutCrossover(gap) ==
    /\ lock' = TRUE /\ rest' = 0 /\ age' = 0
    /\ slot' = "crossover" /\ run' = 0 /\ owed' = 0
    /\ UNCHANGED debt

\* Until the community's morning crossover the lock is hard.
Crossover(gap) ==
    /\ debt' = 0 /\ lock' = TRUE /\ rest' = 0 /\ age' = 0
    /\ slot' = "crossover" /\ run' = 0 /\ owed' = 0

\* The regulation is not in charge: before the window or after the deadline,
\* no estimate, no forecast, overcast, switched off, paused.
NoPlan(gap) ==
    /\ age' = SmallerOf(age + gap, Old)
    /\ slot' = "none" /\ run' = 0
    /\ UNCHANGED <<debt, lock, rest, owed>>

PwmNext ==
    \E gap \in GAPS :
        \/ \E d \in DUTIES : Plan(d, gap)
        \/ Crossover(gap)
        \/ NoPlan(gap)

PwmSpec == PwmInit /\ [][PwmNext]_pwmVars

-----------------------------------------------------------------------------
\* The lock keeps up with the target: the slots locked never fall behind the
\* duty asked for by more than one free block's worth beyond the hysteresis,
\* and the anti-windup, which would forgive debt, never bites.  (schuld,
\* REG_HYST_ON, REG_DEBT_MAX.)
LockKeepsUp == owed <= debt /\ debt <= DEBT_TOP - MAX_DUTY

\* However wrong the estimates are, a lock ends: no more than RUN_MAX slots
\* in a row are locked by the modulation (REG_MAX_DUTY: "ein Schaetzfehler
\* darf das Laden nie ganz wuergen").
LockedRunBounded == run <= RUN_MAX

\* The hard lock before the crossover leaves nothing behind: the modulation
\* that takes over starts with a free block.
CrossoverLeavesNoDebt == [][slot = "crossover" => slot' # "lock"]_pwmVars

\* "gesperrte und freie 15-Minuten-Bloecke im passenden Verhaeltnis ergeben im
\* Mittel die Ziel-Leistung": the locked slots run ahead of the duty asked for
\* by at most one block.
MeanPower == owed >= -(BLOCK * UNIT)

\* What the safety invariants rest on: the debt a free block may still take
\* up, and how far a running lock has paid its debt off.
PwmInv ==
    /\ PwmTypeOK
    /\ ~lock => /\ debt + rest * MAX_DUTY <= DEBT_TOP - MAX_DUTY
                /\ run = 0
    /\ lock => debt <= DEBT_TOP - UNIT
    /\ run > 0 => \/ run - 1 + debt <= DEBT_TOP - UNIT
                  \/ /\ debt = 0
                     /\ run + rest <= RUN_MAX
    /\ owed <= debt
=============================================================================
