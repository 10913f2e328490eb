------------------------------ MODULE Adapters ------------------------------
(***************************************************************************)
(* The Modbus adapters (gateway/openhab/inverters/<profile>/adapter.js):   *)
(* how a reset, a charge lock, a charge limit and a forced discharge become *)
(* register writes, and what the inverter does while they arrive one by one. *)
(*                                                                         *)
(* item.sendCommand hands a write to the Modbus binding and returns; the    *)
(* binding carries the writes to the device in their order, may lose one    *)
(* (the device does not answer), and its poller copies the registers back   *)
(* into the items.  All registers are whole numbers, as on the wire; what   *)
(* they mean is the meaning the heads of the adapters give them.            *)
(***************************************************************************)
EXTENDS Integers, Sequences

CONSTANTS
    ADAPTERS,    \* the profiles of this instance
    WATTS,       \* powers the core commands
    RATED_W,     \* the device's own maximum (WChaMax, 30070, register 143)
    MAX_ACTIVE_W,    \* Sigenergy: the maximum of the plant, PV included (30010)
    SHOWN_ACTIVE_W,  \* Sigenergy: what its item shows of it, 0 when unreadable
    SLOTS,       \* DEYE_SLOT_COUNT
    REMEMBERED,  \* Victron: the values remembered at the installation
    READINGS,    \* adapter -> what its plausibility guard may read
    LEFTOVER     \* adapter -> register contents an earlier owner may have left

VARIABLES
    adapter,   \* the installed profile
    device,    \* the registers of the inverter
    item,      \* the register items of openHAB, as last polled or predicted
    queue,     \* writes the binding has not carried out yet
    phase,     \* where the control rule is: waiting, after the reset, done
    wanted,    \* what the core was told the device does now: kind and appliedW
    before,    \* the same, of the cycle before
    faulty,    \* cycles until a lost write cannot show any more
    missed     \* history: the cycle before was to command a window and did not

vars == <<adapter, device, item, queue, phase, wanted, before, faulty, missed>>

PERCENT     == 100      \* M124_WRTE_RAW_PER_PCT
VOLTAGE_V   == 50       \* VIC_BATTERY_VOLTAGE_V
STEP_W      == 100      \* DEYE_POWER_STEP_W
SOC_FLOOR   == 10       \* DEYE_SOC_FLOOR
UNLIMITED_A == -1       \* VIC_DEFAULT_MAX_CHARGE_A
SETPOINT_W  == 50       \* VIC_DEFAULT_GRID_SETPOINT_W
MAX_SETPOINT_W == 32000 \* VIC_MAX_SETPOINT_W
PV_FALLBACK_W == 100000 \* SIGEN_PV_LIMIT_FALLBACK_W

Smaller(a, b) == IF a < b THEN a ELSE b
Larger(a, b) == IF a > b THEN a ELSE b

\* Math.round(a / b) of two natural numbers
RoundDiv(a, b) == (2 * a + b) \div (2 * b)

Reg(name) == <<name, 0>>
Slots(name) == {<<name, i>> : i \in 1..SLOTS}
Write(name, value) == <<Reg(name), value>>

\* The registers an adapter writes.
Registers(a) ==
    CASE a = "sunspec"   -> {Reg("InWRte"), Reg("OutWRte"), Reg("StorCtl")}
      [] a = "deye"      -> Slots("SellW") \cup Slots("SellSoc") \cup Slots("SellFlag")
                              \cup {Reg("TouEnable")}
      [] a = "sigenergy" -> {Reg("RemoteEnable"), Reg("RemoteMode"),
                             Reg("DischargeLimitW"), Reg("PvLimitW")}
      [] a = "victron"   -> {Reg("GridSetpointW"), Reg("MaxChargeA")}

\* A plant of more than 100 kW whose maximum cannot be read would be limited
\* by the fallback of the adapter: the assumption on SHOWN_ACTIVE_W excludes it.
ASSUME AdaptersAssumption ==
    /\ ADAPTERS \subseteq {"sunspec", "deye", "sigenergy", "victron"}
    /\ WATTS \subseteq Nat
    /\ RATED_W \in Nat \ {0}
    /\ MAX_ACTIVE_W \in Nat
    /\ SHOWN_ACTIVE_W \in {0, MAX_ACTIVE_W}
    /\ SHOWN_ACTIVE_W < 1000 => MAX_ACTIVE_W <= PV_FALLBACK_W
    /\ SLOTS \in Nat \ {0}
    /\ REMEMBERED.setpoint \in Int
    /\ REMEMBERED.amps \in Int \ {0}
    /\ \A a \in ADAPTERS : LEFTOVER[a] \subseteq [Registers(a) -> Int]

Command(k, w) == [kind |-> k, w |-> w]
Factory == Command("factory", 0)
Lock    == Command("lock", 0)

\* What the core may ask of an adapter after the reset.  Only two profiles
\* define gwLimitCharge.
Requests(a) ==
    {Factory, Lock}
      \cup {Command("discharge", w) : w \in WATTS}
      \cup {Command("limit", w) : w \in IF a \in {"sunspec", "victron"} THEN WATTS ELSE {}}

-----------------------------------------------------------------------------
(***************************************************************************)
(* Fronius Symo Hybrid, SunSpec model 124: percent of WChaMax, a bit field *)
(* that says which limit counts.                                           *)
(***************************************************************************)

\* Watts as whole percent of WChaMax, at least 1 and at most 100.
Pct(w) == Smaller(PERCENT, Larger(1, RoundDiv(w * 100, RATED_W)))

\* __gwMbGuard: the storage model must stand at the base address.
SunSpecPlausible(r) == r.model = 124 /\ r.max \in 500..50000

SunSpecReset == <<Write("InWRte", 100 * PERCENT), Write("OutWRte", 100 * PERCENT),
                  Write("StorCtl", 0)>>

SunSpecWrites(c) ==
    CASE c.kind = "lock"      -> <<Write("InWRte", 0), Write("StorCtl", 1)>>
      [] c.kind = "limit"     -> <<Write("InWRte", Pct(c.w) * PERCENT), Write("StorCtl", 1)>>
      [] c.kind = "discharge" -> <<Write("OutWRte", 100 * PERCENT),
                                   Write("InWRte", -(Pct(c.w) * PERCENT)),
                                   Write("StorCtl", 1)>>

SunSpecApplied(c) == RoundDiv(RATED_W * Pct(c.w), 100)

\* InWRte is a charge limit while bit 0 is set: 0 forbids charging, a negative
\* one demands discharging.  Bit 1 would let OutWRte cap the discharge.
SunSpecEffect(d) ==
    LET in  == d[Reg("InWRte")] \div PERCENT
        ctl == d[Reg("StorCtl")]
    IN  CASE ctl \notin {0, 1} -> Command("foreign", 0)
          [] ctl = 1 /\ in = 0 -> Lock
          [] ctl = 1 /\ in < 0 -> Command("discharge", RoundDiv(RATED_W * (-in), 100))
          [] ctl = 1 /\ in > 0 -> Command("limit", RoundDiv(RATED_W * in, 100))
          [] OTHER -> Factory

-----------------------------------------------------------------------------
(***************************************************************************)
(* Deye: the time-of-use plan.  The slot times are the member's, so all    *)
(* slots are written alike and any of them may be the current one.  A      *)
(* register is written only when the item says it differs.                 *)
(***************************************************************************)

\* __gwDyGuard: the register map must look like a Deye.
DeyePlausible(r) == r.mode \in 0..2 /\ r.tou \in 0..255

\* The power in force: not above the maximal sale, in steps of 100 W.
Quantised(w) == RoundDiv(Smaller(w, RATED_W), STEP_W) * STEP_W

\* __gwDyWriteSlots: slot by slot; a charge lock leaves the target charge alone.
SlotWrites(watts, setSoc) ==
    LET columns == IF setSoc THEN <<"SellW", "SellSoc", "SellFlag">> ELSE <<"SellW", "SellFlag">>
        value   == [SellW |-> watts, SellSoc |-> SOC_FLOOR, SellFlag |-> 0]
        name(k) == columns[((k - 1) % Len(columns)) + 1]
    IN  [k \in 1..(Len(columns) * SLOTS) |->
            <<<<name(k), (k - 1) \div Len(columns) + 1>>, value[name(k)]>>]

DeyeReset == <<Write("TouEnable", 0)>>

\* Mutant: a charge lock takes the plan for switched on already.
DeyeAssumesEnabled(c) ==
    IF c.kind = "lock" THEN SlotWrites(0, FALSE)
    ELSE Append(SlotWrites(Quantised(c.w), TRUE), Write("TouEnable", 1))

DeyeWrites(c) ==
    Append(IF c.kind = "lock" THEN SlotWrites(0, FALSE) ELSE SlotWrites(Quantised(c.w), TRUE),
           Write("TouEnable", 1))

\* The members of a sequence at some of its positions, in their order.
AtPositions(s, positions) ==
    LET upto[k \in 0..Len(s)] ==
            IF k = 0 THEN <<>>
            ELSE IF k \in positions THEN Append(upto[k - 1], s[k]) ELSE upto[k - 1]
    IN  upto[Len(s)]

\* __gwDyWrite: a value the item already shows is not sent.
Differing(writes) ==
    AtPositions(writes, {k \in DOMAIN writes : item[writes[k][1]] # writes[k][2]})

DeyeEffects(d) ==
    LET slot(i) == IF d[<<"SellFlag", i>>] # 0 THEN Command("foreign", 0)
                   ELSE IF d[<<"SellW", i>>] = 0 THEN Lock
                   ELSE IF d[<<"SellSoc", i>>] # SOC_FLOOR THEN Command("foreign", 0)
                   ELSE Command("discharge", d[<<"SellW", i>>])
    IN  IF d[Reg("TouEnable")] = 0 THEN {Factory} ELSE {slot(i) : i \in 1..SLOTS}

-----------------------------------------------------------------------------
(***************************************************************************)
(* Sigenergy: a mode that counts only while Remote EMS is enabled.  The PV *)
(* limit counts in every commanded mode.                                   *)
(***************************************************************************)

\* __gwSgGuard
SigenPlausible(r) == r.ems \in 0..10 /\ r.rated \in 100..1000000

\* __gwSgReleasePvLimit: the maximum of the plant, or far more when the item
\* does not tell it.
PvReleasedW == IF SHOWN_ACTIVE_W < 1000 THEN PV_FALLBACK_W ELSE SHOWN_ACTIVE_W

ReleasePvLimit == Write("PvLimitW", PvReleasedW)

SigenReset == <<Write("RemoteEnable", 0)>>

SigenApplied(c) == Smaller(c.w, RATED_W)

\* Mutant: enables first and sets the mode afterwards.
SigenEnablesFirst(c) ==
    <<Write("RemoteEnable", 1), ReleasePvLimit,
      Write("DischargeLimitW", IF c.kind = "lock" THEN 0 ELSE SigenApplied(c)),
      Write("RemoteMode", IF c.kind = "lock" THEN 5 ELSE 6)>>

SigenWrites(c) ==
    <<ReleasePvLimit,
      Write("DischargeLimitW", IF c.kind = "lock" THEN 0 ELSE SigenApplied(c)),
      Write("RemoteMode", IF c.kind = "lock" THEN 5 ELSE 6),
      Write("RemoteEnable", 1)>>

SigenEffect(d) ==
    LET mode == d[Reg("RemoteMode")]
        lim  == d[Reg("DischargeLimitW")]
    IN  IF d[Reg("RemoteEnable")] = 0 THEN Factory
        ELSE IF d[Reg("PvLimitW")] < MAX_ACTIVE_W \/ mode \notin {5, 6} \/ lim < 0
             THEN Command("foreign", 0)
        ELSE IF lim = 0 THEN Lock ELSE Command("discharge", lim)

-----------------------------------------------------------------------------
(***************************************************************************)
(* Victron: a charge current limit and the set point at the grid; a reset  *)
(* writes back the values the installation remembered.                     *)
(***************************************************************************)

\* __gwVicGuard, and the battery life state "keep batteries charged", under
\* which no discharge is commanded.
VictronPlausible(r, c) ==
    r.ess \in {1, 2} /\ r.soc \in 0..100 /\ (c.kind = "discharge" => r.life # 9)

\* Mutant: the reset forgets the charge current.
VictronResetsSetpoint == <<Write("GridSetpointW", REMEMBERED.setpoint)>>

VictronReset == <<Write("GridSetpointW", REMEMBERED.setpoint),
                  Write("MaxChargeA", REMEMBERED.amps)>>

Amps(w) == Larger(1, RoundDiv(w, VOLTAGE_V))

\* The set point goes no lower than VIC_MAX_SETPOINT_W.
VictronApplied(c) == Smaller(c.w, MAX_SETPOINT_W)

VictronWrites(c) ==
    CASE c.kind = "lock"      -> <<Write("MaxChargeA", 0)>>
      [] c.kind = "limit"     -> <<Write("MaxChargeA", Amps(c.w))>>
      [] c.kind = "discharge" -> <<Write("MaxChargeA", REMEMBERED.amps),
                                   Write("GridSetpointW", -VictronApplied(c))>>

VictronEffect(d) ==
    LET sp == d[Reg("GridSetpointW")]
        a  == d[Reg("MaxChargeA")]
    IN  IF sp # REMEMBERED.setpoint
        THEN IF sp <= 0 /\ a = REMEMBERED.amps THEN Command("discharge", -sp)
             ELSE Command("foreign", 0)
        ELSE CASE a = 0 -> Lock
               [] a = REMEMBERED.amps -> Factory
               [] a \notin {0, REMEMBERED.amps} -> Command("limit", a * VOLTAGE_V)

-----------------------------------------------------------------------------
(***************************************************************************)
(* The contract of all adapters, and the rule, the binding and the poller. *)
(***************************************************************************)

ResetOf(a) == CASE a = "sunspec" -> SunSpecReset [] a = "deye" -> Differing(DeyeReset)
                [] a = "sigenergy" -> SigenReset [] a = "victron" -> VictronReset

WritesOf(a, c) == CASE a = "sunspec" -> SunSpecWrites(c) [] a = "deye" -> Differing(DeyeWrites(c))
                    [] a = "sigenergy" -> SigenWrites(c) [] a = "victron" -> VictronWrites(c)

EffectsOn(a, d) == CASE a = "sunspec" -> {SunSpecEffect(d)} [] a = "deye" -> DeyeEffects(d)
                     [] a = "sigenergy" -> {SigenEffect(d)} [] a = "victron" -> {VictronEffect(d)}

\* A charge limit of the device's own maximum limits nothing, and what the
\* installation of a Victron remembered is what it does anyway; a discharge rounded
\* down to no step at all is a charge lock.
Usual(a, c) ==
    \/ c.kind = "limit" /\ c.w >= RATED_W
    \/ a = "victron" /\ c \in {Command("limit", REMEMBERED.amps * VOLTAGE_V),
                               Command("discharge", -REMEMBERED.setpoint)}
Plain(a, c) ==
    IF Usual(a, c) THEN Factory ELSE IF c = Command("discharge", 0) THEN Lock ELSE c

PlainEffects(a, d) == {Plain(a, e) : e \in EffectsOn(a, d)}

Effects == PlainEffects(adapter, device)

PlausibleTo(a, r, c) ==
    CASE a = "sunspec" -> SunSpecPlausible(r) [] a = "deye" -> DeyePlausible(r)
      [] a = "sigenergy" -> SigenPlausible(r) [] a = "victron" -> VictronPlausible(r, c)

\* What the adapter tells the core it has commanded: appliedW.
Told(a, c) ==
    IF c \in {Factory, Lock} THEN c
    ELSE [c EXCEPT !.w = CASE a = "sunspec" -> SunSpecApplied(c)
                           [] a = "deye" -> Quantised(c.w)
                           [] a = "sigenergy" -> SigenApplied(c)
                           [] a = "victron" -> IF c.kind = "limit" THEN Amps(c.w) * VOLTAGE_V
                                               ELSE VictronApplied(c)]

Init ==
    /\ adapter \in ADAPTERS
    /\ device \in LEFTOVER[adapter]
    /\ item = device
    /\ queue = <<>>
    /\ phase = "wait"
    /\ wanted = Factory
    /\ before = Factory
    /\ faulty = 2
    /\ missed = FALSE

\* A cycle begins with gwReset.  The poller has run since the last one
\* (every 10 or 30 s against 5 min) unless the device does not answer.
StartCycle(polled) ==
    /\ phase # "reset"
    /\ queue = <<>>
    /\ UNCHANGED <<adapter, device>>
    /\ phase' = "reset"
    /\ item' = IF polled THEN device ELSE item
    /\ queue' = ResetOf(adapter)'
    /\ faulty' = IF polled THEN Larger(0, faulty - 1) ELSE 2
    /\ before' = wanted
    /\ wanted' = Factory
    /\ missed' = (Plain(adapter, wanted) # Factory /\ Effects = {Factory})

\* The rest of the cycle commands something, or nothing; the plausibility
\* guard of the adapter refuses by writing nothing.
Request(c, reading) ==
    /\ phase = "reset"
    /\ phase' = "done"
    /\ IF c # Factory /\ PlausibleTo(adapter, reading, c)
       THEN /\ queue' = queue \o WritesOf(adapter, c)
            /\ wanted' = Told(adapter, c)
       ELSE UNCHANGED <<queue, wanted>>
    /\ UNCHANGED <<adapter, device, item, before, faulty, missed>>

\* The binding carries the oldest write to the device ...
Land ==
    /\ queue # <<>>
    /\ device' = [device EXCEPT ![Head(queue)[1]] = Head(queue)[2]]
    /\ queue' = Tail(queue)
    /\ UNCHANGED <<adapter, item, phase, wanted, before, faulty, missed>>

\* ... or loses it (no answer in time, or item.sendCommand threw).  A bound
\* of the model: at most one single write is lost in a cycle ...
Lose ==
    /\ queue # <<>>
    /\ faulty < 2
    /\ queue' = Tail(queue)
    /\ faulty' = 2
    /\ UNCHANGED <<adapter, device, item, phase, wanted, before, missed>>

\* ... or else the device is gone and everything that is waiting is lost.
Outage ==
    /\ queue # <<>>
    /\ queue' = <<>>
    /\ faulty' = 2
    /\ UNCHANGED <<adapter, device, item, phase, wanted, before, missed>>

\* openHAB may show a commanded value before the device has it.  Only the
\* Deye adapter reads the registers it writes.
Predict ==
    /\ adapter = "deye"
    /\ queue # <<>>
    /\ item' = [r \in DOMAIN item |->
                  LET sent == {k \in DOMAIN queue : queue[k][1] = r}
                  IN  IF sent = {} THEN item[r]
                      ELSE queue[CHOOSE k \in sent : \A m \in sent : m <= k][2]]
    /\ UNCHANGED <<adapter, device, queue, phase, wanted, before, faulty, missed>>

\* A poll inside the cycle, before the command reads the items.  A bound of
\* the model: after the command only the poll of StartCycle is left.
Poll ==
    /\ adapter = "deye"
    /\ phase = "reset"
    /\ item' = device
    /\ UNCHANGED <<adapter, device, queue, phase, wanted, before, faulty, missed>>

Next ==
    \/ \E polled \in BOOLEAN : StartCycle(polled)
    \/ \E c \in Requests(adapter), r \in READINGS[adapter] : Request(c, r)
    \/ Land
    \/ Lose
    \/ Outage
    \/ Predict
    \/ Poll

Spec == Init /\ [][Next]_vars

-----------------------------------------------------------------------------
TypeOK ==
    /\ adapter \in ADAPTERS
    /\ device \in [Registers(adapter) -> Int]
    /\ item \in [Registers(adapter) -> Int]
    /\ \A k \in DOMAIN queue : queue[k][1] \in Registers(adapter)
    /\ phase \in {"wait", "reset", "done"}
    /\ {wanted, before} \subseteq [kind : {"factory", "lock", "limit", "discharge"}, w : Nat]
    /\ faulty \in 0..2
    /\ missed \in BOOLEAN

CycleOver == phase = "done" /\ queue = <<>>

\* A cycle none of whose writes is lost leaves the inverter doing what the
\* adapter told the core (the same power, on every slot), whatever a lost
\* write, an earlier owner or an earlier command had left in any register.
\* The Deye adapter may leave it at factory behaviour instead: it skips the
\* switching on when the item still shows the window of the cycle before.
CycleEndsAsTold ==
    CycleOver /\ faulty <= 1 =>
        Effects \subseteq {Plain(adapter, wanted)} \cup (IF adapter = "deye" THEN {Factory} ELSE {})

\* While its writes arrive, register by register, the inverter never does a
\* third thing: it is at factory behaviour or does what this cycle or the one
\* before commanded, never an old power, and never charges from the grid.
NoDetour == faulty = 0 => Effects \subseteq {Factory, Plain(adapter, before), Plain(adapter, wanted)}

\* The skipped switching on is made good in the next cycle that asks for a
\* window: no two cycles in a row lose theirs to the item of a register.
WindowTakesHold ==
    CycleOver /\ faulty = 0 /\ missed /\ wanted # Factory =>
        Effects = {Plain(adapter, wanted)}
=============================================================================
