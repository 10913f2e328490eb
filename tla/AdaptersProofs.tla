---------------------------- MODULE AdaptersProofs ----------------------------
(***************************************************************************)
(* Proofs about the Modbus adapters for all powers, any rated power, any   *)
(* number of Deye slots, any remembered values of a Victron and whatever   *)
(* an earlier owner has left in the registers.                             *)
(*                                                                         *)
(* The writes that wait in the queue determine the register contents the   *)
(* device will go through (Leads).  The invariant says of all of them what *)
(* the properties say of the present one: so a write that lands needs no   *)
(* argument, and each adapter has to answer only for its two lists, that   *)
(* of the reset (ResetClears) and that of the command (CommandObeys).      *)
(***************************************************************************)
EXTENDS SetFacts, Adapters

Contents(a) == [Registers(a) -> Int]
Writes(a)   == Seq(Registers(a) \X Int)

\* The contents a device goes through while the writes of q land, one by one.
Leads(a, d, q, path) ==
    /\ path \in [0..Len(q) -> Contents(a)]
    /\ path[0] = d
    /\ \A k \in 1..Len(q) : path[k] = [path[k - 1] EXCEPT ![q[k][1]] = q[k][2]]

\* Where every register is written at most one value, it has the old value until a
\* write to it has landed, and that value afterwards.
Changed(a, d, q, v) ==
    [k \in 0..Len(q) |-> [r \in Registers(a) |->
        IF \E m \in 1..k : q[m][1] = r THEN v[r] ELSE d[r]]]

LEMMA ChangedLeads ==
    ASSUME NEW a, NEW d \in Contents(a), NEW q \in Writes(a), NEW v,
           \A k \in 1..Len(q) : q[k][2] = v[q[k][1]]
    PROVE  Leads(a, d, q, Changed(a, d, q, v))
<1> DEFINE path == Changed(a, d, q, v)
<1>1. Len(q) \in Nat /\ \A k \in 1..Len(q) : q[k][1] \in Registers(a) /\ q[k][2] \in Int
  BY DEF Writes
<1>2. \A k \in 0..Len(q) : path[k] = [r \in Registers(a) |-> IF \E m \in 1..k : q[m][1] = r THEN v[r] ELSE d[r]]
  BY DEF Changed
<1>v. \A k \in 0..Len(q) : \A r \in Registers(a) :
          path[k][r] = IF \E m \in 1..k : q[m][1] = r THEN v[r] ELSE d[r]
  <2> HIDE DEF path
  <2> QED  BY <1>2
<1>3. ASSUME NEW k \in 0..Len(q), NEW r \in Registers(a)
      PROVE  path[k][r] \in Int
  <2>1. path[k][r] = IF \E m \in 1..k : q[m][1] = r THEN v[r] ELSE d[r]
    BY <1>2
  <2>2. d[r] \in Int
    BY DEF Contents
  <2>3. (\E m \in 1..k : q[m][1] = r) => v[r] \in Int
    BY <1>1
  <2> QED  BY <2>1, <2>2, <2>3
<1>4. path \in [0..Len(q) -> Contents(a)]
  <2>1. \A k \in 0..Len(q) : path[k] \in Contents(a)
    BY <1>2, <1>3 DEF Contents
  <2> QED  BY <2>1 DEF Changed
<1>5. path[0] = d
  BY <1>1, <1>2 DEF Contents
<1>6. ASSUME NEW k \in 1..Len(q)
      PROVE  path[k] = [path[k - 1] EXCEPT ![q[k][1]] = q[k][2]]
  <2>1. k - 1 \in 0..Len(q) /\ k \in 0..Len(q)
    BY <1>1
  <2>2. path[k] \in [Registers(a) -> Int] /\ path[k - 1] \in [Registers(a) -> Int]
    BY <1>4, <2>1 DEF Contents
  <2>3. ASSUME NEW r \in Registers(a), r # q[k][1] PROVE path[k][r] = path[k - 1][r]
    <3>1. (\E m \in 1..k : q[m][1] = r) <=> \E m \in 1..(k - 1) : q[m][1] = r
      BY <1>1, <2>3
    <3> HIDE DEF path
    <3>2. path[k][r] = IF \E m \in 1..k : q[m][1] = r THEN v[r] ELSE d[r]
      BY <1>v, <2>1
    <3>3. path[k - 1][r] = IF \E m \in 1..(k - 1) : q[m][1] = r THEN v[r] ELSE d[r]
      BY <1>v, <2>1
    <3> QED  BY <3>1, <3>2, <3>3
  <2>4. path[k][q[k][1]] = q[k][2]
    <3>1. q[k][1] \in Registers(a) /\ \E m \in 1..k : q[m][1] = q[k][1]
      BY <1>1
    <3> HIDE DEF path
    <3>2. path[k][q[k][1]] = v[q[k][1]]
      BY <1>v, <2>1, <3>1
    <3> QED  BY <3>2
  <2> HIDE DEF path
  <2> QED  BY <1>1, <2>2, <2>3, <2>4
<1> QED
  BY <1>4, <1>5, <1>6 DEF Leads

\* One list of writes behind another.
LEMMA Joined ==
    ASSUME NEW a, NEW d, NEW p \in Writes(a), NEW q \in Writes(a), NEW first, NEW second,
           Leads(a, d, p, first), Leads(a, first[Len(p)], q, second)
    PROVE  LET both == [k \in 0..(Len(p) + Len(q)) |->
                          IF k <= Len(p) THEN first[k] ELSE second[k - Len(p)]]
           IN  /\ p \o q \in Writes(a) /\ Len(p \o q) = Len(p) + Len(q)
               /\ Leads(a, d, p \o q, both)
               /\ both[Len(p) + Len(q)] = second[Len(q)]
<1> DEFINE both == [k \in 0..(Len(p) + Len(q)) |->
                      IF k <= Len(p) THEN first[k] ELSE second[k - Len(p)]]
<1>1. Len(p) \in Nat /\ Len(q) \in Nat /\ p \o q \in Writes(a) /\ Len(p \o q) = Len(p) + Len(q)
  BY DEF Writes
<1>2. /\ \A k \in 1..Len(p) : (p \o q)[k] = p[k]
      /\ \A k \in 1..Len(q) : (p \o q)[Len(p) + k] = q[k]
  BY DEF Writes
<1>3. /\ \A k \in 0..Len(p) : first[k] \in Contents(a) /\ both[k] = first[k]
      /\ \A k \in 0..Len(q) : second[k] \in Contents(a) /\ both[Len(p) + k] = second[k]
  <2>1. ASSUME NEW k \in 0..Len(p) PROVE first[k] \in Contents(a) /\ both[k] = first[k]
    BY <1>1 DEF Leads
  <2>2. ASSUME NEW k \in 0..Len(q) PROVE second[k] \in Contents(a) /\ both[Len(p) + k] = second[k]
    <3>1. second[k] \in Contents(a)
      BY DEF Leads
    <3>2. CASE k = 0
      BY <3>1, <3>2, <1>1, <2>1 DEF Leads
    <3>3. CASE k # 0
      BY <3>1, <3>3, <1>1
    <3> QED  BY <3>2, <3>3
  <2> QED  BY <2>1, <2>2
<1>4. both \in [0..(Len(p) + Len(q)) -> Contents(a)]
  <2>1. ASSUME NEW k \in 0..(Len(p) + Len(q)) PROVE both[k] \in Contents(a)
    <3>1. CASE k <= Len(p)
      <4>1. k \in 0..Len(p)
        BY <1>1, <3>1
      <4> HIDE DEF both
      <4> QED  BY <1>3, <4>1
    <3>2. CASE ~(k <= Len(p))
      <4>1. k - Len(p) \in 0..Len(q) /\ Len(p) + (k - Len(p)) = k
        BY <1>1, <3>2
      <4> QED  BY <1>3, <4>1
    <3> QED  BY <3>1, <3>2
  <2> QED  BY <2>1
<1>5. ASSUME NEW k \in 1..(Len(p) + Len(q))
      PROVE  both[k] = [both[k - 1] EXCEPT ![(p \o q)[k][1]] = (p \o q)[k][2]]
  <2>1. CASE k <= Len(p)
    <3>1. k \in 1..Len(p) /\ k \in 0..Len(p) /\ k - 1 \in 0..Len(p)
      BY <1>1, <2>1
    <3>2. first[k] = [first[k - 1] EXCEPT ![p[k][1]] = p[k][2]]
      BY <3>1 DEF Leads
    <3> HIDE DEF both
    <3> QED  BY <1>2, <1>3, <3>1, <3>2
  <2>2. CASE ~(k <= Len(p))
    <3> DEFINE j == k - Len(p)
    <3>1. j \in 1..Len(q) /\ j \in 0..Len(q) /\ j - 1 \in 0..Len(q)
          /\ Len(p) + j = k /\ Len(p) + (j - 1) = k - 1
      BY <1>1, <2>2
    <3>2. second[j] = [second[j - 1] EXCEPT ![q[j][1]] = q[j][2]]
      BY <3>1 DEF Leads
    <3>3. both[k] = second[j] /\ both[k - 1] = second[j - 1] /\ (p \o q)[k] = q[j]
      <4> HIDE DEF both
      <4> QED  BY <1>2, <1>3, <3>1
    <3> HIDE DEF both, j
    <3> QED  BY <3>2, <3>3
  <2> QED  BY <2>1, <2>2
<1>6. both[0] = d
  BY <1>1, <1>3 DEF Leads
<1>7. Leads(a, d, p \o q, both)
  BY <1>1, <1>4, <1>5, <1>6 DEF Leads
<1>8. both[Len(p) + Len(q)] = second[Len(q)]
  BY <1>1, <1>3
<1> QED
  BY <1>1, <1>7, <1>8

\* The oldest write lands.
LEMMA Landed ==
    ASSUME NEW a, NEW d, NEW q \in Writes(a), q # <<>>, NEW path, Leads(a, d, q, path)
    PROVE  \E rest : /\ Len(Tail(q)) = Len(q) - 1
                     /\ Leads(a, [d EXCEPT ![Head(q)[1]] = Head(q)[2]], Tail(q), rest)
                     /\ rest[Len(q) - 1] = path[Len(q)]
                     /\ \A k \in 0..(Len(q) - 1) : rest[k] = path[k + 1]
<1> DEFINE rest == [k \in 0..(Len(q) - 1) |-> path[k + 1]]
<1>1. /\ Len(q) \in Nat /\ Len(q) > 0 /\ Head(q) = q[1]
      /\ Tail(q) \in Writes(a) /\ Len(Tail(q)) = Len(q) - 1
      /\ \A k \in 1..(Len(q) - 1) : Tail(q)[k] = q[k + 1]
  BY DEF Writes
<1>2. path[1] = [d EXCEPT ![Head(q)[1]] = Head(q)[2]] /\ path[1] \in Contents(a)
  <2>1. 1 \in 1..Len(q) /\ 1 \in 0..Len(q) /\ 1 - 1 = 0
    BY <1>1
  <2>2. path[0] = d /\ path[1] = [path[1 - 1] EXCEPT ![q[1][1]] = q[1][2]]
    BY <2>1 DEF Leads
  <2>3. path[1] \in Contents(a)
    BY <2>1 DEF Leads
  <2>4. path[1] = [d EXCEPT ![q[1][1]] = q[1][2]]
    BY <2>1, <2>2
  <2> QED  BY <1>1, <2>3, <2>4
<1>3. rest \in [0..(Len(q) - 1) -> Contents(a)] /\ rest[0] = path[1]
  BY <1>1 DEF Leads
<1>4. ASSUME NEW k \in 1..(Len(q) - 1)
      PROVE  rest[k] = [rest[k - 1] EXCEPT ![Tail(q)[k][1]] = Tail(q)[k][2]]
  <2>1. k + 1 \in 1..Len(q) /\ (k + 1) - 1 = k /\ (k - 1) + 1 = k
        /\ k \in 0..(Len(q) - 1) /\ k - 1 \in 0..(Len(q) - 1)
    BY <1>1
  <2>2. path[k + 1] = [path[k] EXCEPT ![q[k + 1][1]] = q[k + 1][2]]
    BY <2>1 DEF Leads
  <2>3. rest[k] = path[k + 1] /\ rest[k - 1] = path[k]
    BY <2>1
  <2> HIDE DEF rest
  <2> QED  BY <1>1, <2>2, <2>3
<1>5. rest[Len(q) - 1] = path[Len(q)] /\ \A k \in 0..(Len(q) - 1) : rest[k] = path[k + 1]
  BY <1>1
<1>6. Leads(a, path[1], Tail(q), rest)
  <2> HIDE DEF rest
  <2> QED  BY <1>1, <1>3, <1>4 DEF Leads
<1> HIDE DEF rest
<1> QED
  BY <1>1, <1>2, <1>5, <1>6

\* Where no register is written twice, each has the value of its write as soon as
\* that has landed.
LEMMA WrittenOnce ==
    ASSUME NEW a, NEW d \in Contents(a), NEW q \in Writes(a),
           \A m, n \in 1..Len(q) : q[m][1] = q[n][1] => m = n
    PROVE  \E path :
              /\ Leads(a, d, q, path)
              /\ \A k \in 0..Len(q) :
                    /\ \A m \in 1..Len(q) : path[k][q[m][1]] = IF k >= m THEN q[m][2] ELSE d[q[m][1]]
                    /\ \A r \in Registers(a) :
                          (\A m \in 1..Len(q) : q[m][1] # r) => path[k][r] = d[r]
<1> DEFINE v == [r \in Registers(a) |-> q[CHOOSE m \in 1..Len(q) : q[m][1] = r][2]]
           path == Changed(a, d, q, v)
<1>1. Len(q) \in Nat /\ \A k \in 1..Len(q) : q[k][1] \in Registers(a)
  BY DEF Writes
<1>2. ASSUME NEW m \in 1..Len(q) PROVE q[m][2] = v[q[m][1]]
  <2>1. (CHOOSE n \in 1..Len(q) : q[n][1] = q[m][1]) = m
    OBVIOUS
  <2> QED  BY <1>1, <2>1
<1> HIDE DEF v
<1>3. Leads(a, d, q, path)
  BY <1>2, ChangedLeads
<1>4. ASSUME NEW k \in 0..Len(q), NEW r \in Registers(a)
      PROVE  path[k][r] = IF \E m \in 1..k : q[m][1] = r THEN v[r] ELSE d[r]
  BY DEF Changed
<1> HIDE DEF path
<1>5. ASSUME NEW k \in 0..Len(q), NEW m \in 1..Len(q)
      PROVE  path[k][q[m][1]] = IF k >= m THEN q[m][2] ELSE d[q[m][1]]
  <2>1. (\E n \in 1..k : q[n][1] = q[m][1]) <=> k >= m
    BY <1>1
  <2> QED  BY <1>1, <1>2, <1>4, <2>1
<1>6. ASSUME NEW k \in 0..Len(q), NEW r \in Registers(a), \A m \in 1..Len(q) : q[m][1] # r
      PROVE  path[k][r] = d[r]
  BY <1>1, <1>4, <1>6
<1> QED
  BY <1>3, <1>5, <1>6

-----------------------------------------------------------------------------
(***************************************************************************)
(* What the states of a register plan mean.                                *)
(***************************************************************************)
\* The registers as a reset leaves them, as far as they count.
Released(a, d) ==
    /\ a = "sunspec" => d[Reg("InWRte")] = 100 * PERCENT /\ d[Reg("StorCtl")] = 0
    /\ a = "deye" => d[Reg("TouEnable")] = 0
    /\ a = "sigenergy" => d[Reg("RemoteEnable")] = 0
    /\ a = "victron" => /\ d[Reg("GridSetpointW")] = REMEMBERED.setpoint
                        /\ d[Reg("MaxChargeA")] = REMEMBERED.amps

\* The device does what the core was told, and no register is in the way of the
\* next reset.
Settled(a, d, told) ==
    /\ PlainEffects(a, d) \subseteq {Plain(a, told)} \cup (IF a = "deye" THEN {Factory} ELSE {})
    /\ a = "sunspec" => d[Reg("StorCtl")] \in {0, 1}
    /\ a = "victron" => \/ d[Reg("MaxChargeA")] = REMEMBERED.amps
                        \/ d[Reg("GridSetpointW")] = REMEMBERED.setpoint

\* The writes of a reset release the device, and if it did what the core was told
\* it does nothing third on the way.
Clears(a, d, q) ==
    /\ q \in Writes(a)
    /\ \E path :
          /\ Leads(a, d, q, path)
          /\ Released(a, path[Len(q)])
          /\ \A told : Settled(a, d, told) =>
                \A k \in 0..Len(q) : PlainEffects(a, path[k]) \subseteq {Factory, Plain(a, told)}

\* The writes of a command lead a released device to what the adapter told the
\* core, exactly or up to a window that is not switched on.
Obeys(a, d, q, told, exactly) ==
    /\ q \in Writes(a)
    /\ \E path :
          /\ Leads(a, d, q, path)
          /\ Settled(a, path[Len(q)], told)
          /\ exactly => PlainEffects(a, path[Len(q)]) = {Plain(a, told)}
          /\ \A k \in 0..Len(q) : PlainEffects(a, path[k]) \subseteq {Factory, Plain(a, told)}

\* A device that is released is at factory behaviour.
LEMMA FactoryIsPlain == \A a : Plain(a, Factory) = Factory
BY DEF Plain, Usual, Factory, Command

LEMMA ReleasedEffect ==
    ASSUME NEW a \in ADAPTERS, NEW d, Released(a, d)
    PROVE  PlainEffects(a, d) = {Factory} /\ Settled(a, d, Factory)
<1>1. a \in {"sunspec", "deye", "sigenergy", "victron"}
  BY AdaptersAssumption
<1>2. EffectsOn(a, d) = {Factory}
  <2>1. CASE a = "sunspec"
    BY <2>1 DEF EffectsOn, SunSpecEffect, Released
  <2>2. CASE a = "deye"
    BY <2>2 DEF EffectsOn, DeyeEffects, Released
  <2>3. CASE a = "sigenergy"
    BY <2>3 DEF EffectsOn, SigenEffect, Released
  <2>4. CASE a = "victron"
    BY <2>4, AdaptersAssumption DEF EffectsOn, VictronEffect, Released
  <2> QED  BY <1>1, <2>1, <2>2, <2>3, <2>4
<1>3. PlainEffects(a, d) = {Factory}
  BY <1>2, FactoryIsPlain DEF PlainEffects
<1> QED
  BY <1>3, FactoryIsPlain DEF Settled, Released

-----------------------------------------------------------------------------
(***************************************************************************)
(* Fronius, SunSpec model 124.                                             *)
(***************************************************************************)
LEMMA RoundedDown ==
    ASSUME NEW x \in Nat, NEW b \in Nat \ {0}
    PROVE  RoundDiv(x, b) \in Nat
BY DEF RoundDiv

LEMMA Percents == \A w \in WATTS : Pct(w) \in 1..100
<1> SUFFICES ASSUME NEW w \in WATTS PROVE Pct(w) \in 1..100
  OBVIOUS
<1>1. w * 100 \in Nat
  BY AdaptersAssumption
<1>2. RoundDiv(w * 100, RATED_W) \in Nat
  BY <1>1, RoundedDown, AdaptersAssumption
<1> QED
  BY <1>2 DEF Pct, PERCENT, Smaller, Larger

LEMMA SunSpecResets ==
    ASSUME NEW d \in Contents("sunspec")
    PROVE  Clears("sunspec", d, SunSpecReset)
<1> DEFINE q == SunSpecReset
<1>1. /\ Registers("sunspec") = {Reg("InWRte"), Reg("OutWRte"), Reg("StorCtl")}
      /\ Reg("InWRte") # Reg("StorCtl") /\ Reg("OutWRte") # Reg("StorCtl") /\ Reg("InWRte") # Reg("OutWRte")
  BY DEF Registers, Reg
<1>2. /\ Len(q) = 3 /\ q[1] = <<Reg("InWRte"), 100 * PERCENT>>
      /\ q[2] = <<Reg("OutWRte"), 100 * PERCENT>> /\ q[3] = <<Reg("StorCtl"), 0>>
  BY DEF SunSpecReset, Write
<1>3. q \in Writes("sunspec")
  BY <1>1 DEF SunSpecReset, Write, Writes, PERCENT
<1> HIDE DEF q
<1>4. \A m, n \in 1..Len(q) : q[m][1] = q[n][1] => m = n
  BY <1>1, <1>2
<1>5. PICK path : /\ Leads("sunspec", d, q, path)
                  /\ \A k \in 0..Len(q) : \A m \in 1..Len(q) :
                        path[k][q[m][1]] = IF k >= m THEN q[m][2] ELSE d[q[m][1]]
  BY <1>3, <1>4, WrittenOnce
<1>7. \A k \in 0..3 : path[k][Reg("InWRte")] = IF k >= 1 THEN 10000 ELSE d[Reg("InWRte")]
  BY <1>2, <1>5 DEF PERCENT
<1>8. \A k \in 0..3 : path[k][Reg("StorCtl")] = IF k >= 3 THEN 0 ELSE d[Reg("StorCtl")]
  BY <1>2, <1>5
<1>9. path[0] = d
  BY <1>5 DEF Leads
<1>10. Released("sunspec", path[3])
  BY <1>7, <1>8 DEF Released, PERCENT
<1>11. ASSUME NEW told, Settled("sunspec", d, told), NEW k \in 0..3
       PROVE  PlainEffects("sunspec", path[k]) \subseteq {Factory, Plain("sunspec", told)}
  <2>1. CASE k = 0
    BY <2>1, <1>9, <1>11 DEF Settled
  <2>2. CASE k # 0
    <3>1. path[k][Reg("InWRte")] \div PERCENT = 100 /\ path[k][Reg("StorCtl")] \in {0, 1}
      BY <1>7, <1>8, <1>11, <2>2 DEF Settled, PERCENT
    <3>2. RoundDiv(RATED_W * 100, 100) = RATED_W
      BY AdaptersAssumption DEF RoundDiv
    <3>3. SunSpecEffect(path[k]) \in {Factory, Command("limit", RATED_W)}
      BY <3>1, <3>2 DEF SunSpecEffect
    <3>4. Plain("sunspec", Command("limit", RATED_W)) = Factory
      BY AdaptersAssumption DEF Plain, Usual, Command
    <3> QED  BY <3>3, <3>4, FactoryIsPlain DEF PlainEffects, EffectsOn
  <2> QED  BY <2>1, <2>2
<1> QED
  BY <1>2, <1>3, <1>5, <1>10, <1>11 DEF q, Clears

LEMMA SunSpecCommands ==
    ASSUME NEW d \in Contents("sunspec"), Released("sunspec", d),
           NEW c \in Requests("sunspec") \ {Factory}
    PROVE  Obeys("sunspec", d, SunSpecWrites(c), Told("sunspec", c), TRUE)
<1> DEFINE q == SunSpecWrites(c)
           told == Told("sunspec", c)
           in == IF c.kind = "lock" THEN 0 ELSE
                 IF c.kind = "limit" THEN Pct(c.w) * PERCENT ELSE -(Pct(c.w) * PERCENT)
<1>0. \/ c = Lock
      \/ \E w \in WATTS : c = Command("limit", w) \/ c = Command("discharge", w)
  BY DEF Requests
<1>p. c # Lock => Pct(c.w) \in 1..100
  BY <1>0, Percents DEF Command
<1>k. c = Lock <=> c.kind = "lock"
  BY <1>0 DEF Command, Lock
<1>1. /\ Registers("sunspec") = {Reg("InWRte"), Reg("OutWRte"), Reg("StorCtl")}
      /\ Reg("InWRte") # Reg("StorCtl") /\ Reg("OutWRte") # Reg("StorCtl") /\ Reg("InWRte") # Reg("OutWRte")
  BY DEF Registers, Reg
<1>2. in \in Int
  BY <1>p, <1>k DEF PERCENT
<1>3. \/ q = <<Write("InWRte", in), Write("StorCtl", 1)>>
      \/ q = <<Write("OutWRte", 100 * PERCENT), Write("InWRte", in), Write("StorCtl", 1)>>
  BY <1>0, <1>k DEF SunSpecWrites, Command, Lock
<1>4. SunSpecEffect([d EXCEPT ![Reg("InWRte")] = in, ![Reg("StorCtl")] = 1]) = told
  <2> DEFINE e == [d EXCEPT ![Reg("InWRte")] = in, ![Reg("StorCtl")] = 1]
  <2>1. e[Reg("InWRte")] = in /\ e[Reg("StorCtl")] = 1
    BY <1>1 DEF Contents
  <2> HIDE DEF e
  <2>2. ASSUME c = Lock PROVE SunSpecEffect(e) = told
    BY <1>k, <2>1, <2>2 DEF SunSpecEffect, Told, PERCENT
  <2>3. ASSUME \E w \in WATTS : c = Command("limit", w) PROVE SunSpecEffect(e) = told
    <3>1. in \div PERCENT = Pct(c.w) /\ c.kind = "limit" /\ c # Lock /\ c # Factory
      BY <1>p, <2>3 DEF PERCENT, Command, Lock, Factory
    <3>2. told = Command("limit", SunSpecApplied(c))
      BY <2>3, <3>1 DEF Told, Command
    <3> HIDE DEF in, told
    <3> QED  BY <1>p, <2>1, <3>1, <3>2 DEF SunSpecEffect, SunSpecApplied
  <2>4. ASSUME \E w \in WATTS : c = Command("discharge", w) PROVE SunSpecEffect(e) = told
    <3>1. in \div PERCENT = -Pct(c.w) /\ c.kind = "discharge" /\ c # Lock /\ c # Factory
      BY <1>p, <2>4 DEF PERCENT, Command, Lock, Factory
    <3>2. told = Command("discharge", SunSpecApplied(c))
      BY <2>4, <3>1 DEF Told, Command
    <3>3. -(-Pct(c.w)) = Pct(c.w) /\ -Pct(c.w) < 0
      BY <1>p, <3>1
    <3> HIDE DEF in, told
    <3> QED  BY <1>p, <2>1, <3>1, <3>2, <3>3 DEF SunSpecEffect, SunSpecApplied
  <2> QED  BY <1>0, <2>2, <2>3, <2>4 DEF e
<1> HIDE DEF in, told, q
<1>5. /\ q \in Writes("sunspec") /\ Len(q) \in {2, 3}
      /\ q[Len(q)] = Write("StorCtl", 1) /\ q[Len(q) - 1] = Write("InWRte", in)
      /\ \A m, n \in 1..Len(q) : q[m][1] = q[n][1] => m = n
  <2>1. CASE q = <<Write("InWRte", in), Write("StorCtl", 1)>>
    BY <1>1, <1>2, <2>1 DEF Write, Writes
  <2>2. CASE q = <<Write("OutWRte", 100 * PERCENT), Write("InWRte", in), Write("StorCtl", 1)>>
    BY <1>1, <1>2, <2>2 DEF Write, Writes, PERCENT
  <2> QED  BY <1>3, <2>1, <2>2
<1>6. PICK path : /\ Leads("sunspec", d, q, path)
                  /\ \A k \in 0..Len(q) : \A m \in 1..Len(q) :
                        path[k][q[m][1]] = IF k >= m THEN q[m][2] ELSE d[q[m][1]]
  BY <1>5, WrittenOnce
<1>7. path[Len(q)][Reg("InWRte")] = in /\ path[Len(q)][Reg("StorCtl")] = 1
  <2>0. Len(q) = 2 \/ Len(q) = 3
    BY <1>5
  <2>1. /\ Len(q) \in 0..Len(q) /\ Len(q) \in 1..Len(q) /\ Len(q) - 1 \in 1..Len(q)
        /\ Len(q) >= Len(q) - 1 /\ Len(q) >= Len(q)
    BY <2>0
  <2>2. path[Len(q)][q[Len(q)][1]] = q[Len(q)][2] /\ path[Len(q)][q[Len(q) - 1][1]] = q[Len(q) - 1][2]
    BY <1>6, <2>1
  <2> QED  BY <1>5, <2>2 DEF Write
<1>8. \A k \in 0..Len(q) : k # Len(q) => path[k][Reg("StorCtl")] = 0
  BY <1>5, <1>6 DEF Write, Released
<1>9. SunSpecEffect(path[Len(q)]) = told
  BY <1>1, <1>4, <1>7 DEF SunSpecEffect, Contents
<1>10. PlainEffects("sunspec", path[Len(q)]) = {Plain("sunspec", told)}
  BY <1>9 DEF PlainEffects, EffectsOn
<1>11. ASSUME NEW k \in 0..Len(q), k # Len(q)
       PROVE  PlainEffects("sunspec", path[k]) = {Factory}
  <2>1. SunSpecEffect(path[k]) = Factory
    BY <1>8, <1>11 DEF SunSpecEffect
  <2> QED  BY <2>1, FactoryIsPlain DEF PlainEffects, EffectsOn
<1>12. Settled("sunspec", path[Len(q)], told)
  BY <1>7, <1>10 DEF Settled
<1>13. \A k \in 0..Len(q) : PlainEffects("sunspec", path[k]) \subseteq {Factory, Plain("sunspec", told)}
  BY <1>10, <1>11
<1>14. Obeys("sunspec", d, q, told, TRUE)
  BY <1>5, <1>6, <1>10, <1>12, <1>13 DEF Obeys
<1> QED
  BY <1>14 DEF q, told

-----------------------------------------------------------------------------
(***************************************************************************)
(* Victron and Sigenergy.                                                  *)
(***************************************************************************)
LEMMA VictronRegisters ==
    /\ Registers("victron") = {Reg("GridSetpointW"), Reg("MaxChargeA")}
    /\ Reg("GridSetpointW") # Reg("MaxChargeA")
BY DEF Registers, Reg

LEMMA VictronResets ==
    ASSUME NEW d \in Contents("victron")
    PROVE  Clears("victron", d, VictronReset)
<1> DEFINE q == VictronReset
<1>1. Len(q) = 2 /\ q[1] = Write("GridSetpointW", REMEMBERED.setpoint) /\ q[2] = Write("MaxChargeA", REMEMBERED.amps)
  BY DEF VictronReset
<1>2. q \in Writes("victron")
  BY VictronRegisters, AdaptersAssumption DEF VictronReset, Write, Writes
<1> HIDE DEF q
<1>3. \A m, n \in 1..Len(q) : q[m][1] = q[n][1] => m = n
  BY <1>1, VictronRegisters DEF Write
<1>4. PICK path : /\ Leads("victron", d, q, path)
                  /\ \A k \in 0..Len(q) : \A m \in 1..Len(q) :
                        path[k][q[m][1]] = IF k >= m THEN q[m][2] ELSE d[q[m][1]]
  BY <1>2, <1>3, WrittenOnce
<1>5. \A k \in 0..2 : path[k][Reg("GridSetpointW")] = IF k >= 1 THEN REMEMBERED.setpoint ELSE d[Reg("GridSetpointW")]
  BY <1>1, <1>4 DEF Write
<1>6. \A k \in 0..2 : path[k][Reg("MaxChargeA")] = IF k >= 2 THEN REMEMBERED.amps ELSE d[Reg("MaxChargeA")]
  BY <1>1, <1>4 DEF Write
<1>7. Released("victron", path[2])
  BY <1>5, <1>6 DEF Released
<1>8. ASSUME NEW told, Settled("victron", d, told), NEW k \in 0..2
      PROVE  PlainEffects("victron", path[k]) \subseteq {Factory, Plain("victron", told)}
  <2>1. PlainEffects("victron", d) \subseteq {Factory, Plain("victron", told)}
    BY <1>8 DEF Settled
  <2>2. VictronEffect(path[k]) \in {Factory, VictronEffect(d)}
    BY <1>5, <1>6, <1>8, AdaptersAssumption DEF Settled, VictronEffect
  <2> QED  BY <2>1, <2>2, FactoryIsPlain DEF PlainEffects, EffectsOn
<1> QED
  BY <1>1, <1>2, <1>4, <1>7, <1>8 DEF q, Clears

LEMMA SigenRegisters ==
    /\ Registers("sigenergy") = {Reg("RemoteEnable"), Reg("RemoteMode"),
                                 Reg("DischargeLimitW"), Reg("PvLimitW")}
    /\ Reg("RemoteEnable") \notin {Reg("RemoteMode"), Reg("DischargeLimitW"), Reg("PvLimitW")}
    /\ Reg("RemoteMode") \notin {Reg("DischargeLimitW"), Reg("PvLimitW")}
    /\ Reg("DischargeLimitW") # Reg("PvLimitW")
BY DEF Registers, Reg

LEMMA SigenResets ==
    ASSUME NEW d \in Contents("sigenergy")
    PROVE  Clears("sigenergy", d, SigenReset)
<1> DEFINE q == SigenReset
<1>1. Len(q) = 1 /\ q[1] = Write("RemoteEnable", 0)
  BY DEF SigenReset
<1>2. q \in Writes("sigenergy")
  BY SigenRegisters DEF SigenReset, Write, Writes
<1> HIDE DEF q
<1>3. \A m, n \in 1..Len(q) : q[m][1] = q[n][1] => m = n
  BY <1>1
<1>4. PICK path : /\ Leads("sigenergy", d, q, path)
                  /\ \A k \in 0..Len(q) : \A m \in 1..Len(q) :
                        path[k][q[m][1]] = IF k >= m THEN q[m][2] ELSE d[q[m][1]]
  BY <1>2, <1>3, WrittenOnce
<1>5. path[0] = d /\ path[1][Reg("RemoteEnable")] = 0
  BY <1>1, <1>4 DEF Write, Leads
<1>6. Released("sigenergy", path[1])
  BY <1>5 DEF Released
<1>7. ASSUME NEW told, Settled("sigenergy", d, told), NEW k \in 0..1
      PROVE  PlainEffects("sigenergy", path[k]) \subseteq {Factory, Plain("sigenergy", told)}
  <2>1. CASE k = 0
    BY <1>5, <1>7, <2>1 DEF Settled
  <2>2. CASE k = 1
    <3>1. SigenEffect(path[1]) = Factory
      BY <1>5 DEF SigenEffect
    <3> QED  BY <2>2, <3>1, FactoryIsPlain DEF PlainEffects, EffectsOn
  <2> QED  BY <2>1, <2>2
<1> QED
  BY <1>1, <1>2, <1>4, <1>6, <1>7 DEF q, Clears

LEMMA SigenCommands ==
    ASSUME NEW d \in Contents("sigenergy"), Released("sigenergy", d),
           NEW c \in Requests("sigenergy") \ {Factory}
    PROVE  Obeys("sigenergy", d, SigenWrites(c), Told("sigenergy", c), TRUE)
<1> DEFINE q == SigenWrites(c)
           told == Told("sigenergy", c)
           lim == IF c.kind = "lock" THEN 0 ELSE SigenApplied(c)
           mode == IF c.kind = "lock" THEN 5 ELSE 6
<1>0. c = Lock \/ \E w \in WATTS : c = Command("discharge", w)
  BY DEF Requests
<1>1. lim \in Nat /\ mode \in {5, 6}
  BY <1>0, AdaptersAssumption DEF SigenApplied, Smaller, Command, Lock
<1>2. Plain("sigenergy", IF lim = 0 THEN Lock ELSE Command("discharge", lim)) = Plain("sigenergy", told)
  BY <1>0 DEF Told, Plain, Usual, Command, Lock, Factory
<1> HIDE DEF lim, mode, told
<1>3. q = <<ReleasePvLimit, Write("DischargeLimitW", lim), Write("RemoteMode", mode), Write("RemoteEnable", 1)>>
  BY DEF SigenWrites, lim, mode
<1>4. /\ Len(q) = 4 /\ q[1] = Write("PvLimitW", PvReleasedW) /\ q[2] = Write("DischargeLimitW", lim)
      /\ q[3] = Write("RemoteMode", mode) /\ q[4] = Write("RemoteEnable", 1)
  BY <1>3 DEF ReleasePvLimit
<1>p. PvReleasedW \in Nat /\ PvReleasedW >= MAX_ACTIVE_W
  BY AdaptersAssumption DEF PvReleasedW, PV_FALLBACK_W
<1>5. q \in Writes("sigenergy")
  BY <1>1, <1>3, <1>p, SigenRegisters DEF ReleasePvLimit, Write, Writes
<1> HIDE DEF q
<1>6. \A m, n \in 1..Len(q) : q[m][1] = q[n][1] => m = n
  BY <1>4, SigenRegisters DEF Write
<1>7. PICK path : /\ Leads("sigenergy", d, q, path)
                  /\ \A k \in 0..Len(q) : \A m \in 1..Len(q) :
                        path[k][q[m][1]] = IF k >= m THEN q[m][2] ELSE d[q[m][1]]
  BY <1>5, <1>6, WrittenOnce
<1>8. /\ path[4][Reg("PvLimitW")] = PvReleasedW /\ path[4][Reg("DischargeLimitW")] = lim
      /\ path[4][Reg("RemoteMode")] = mode /\ path[4][Reg("RemoteEnable")] = 1
  BY <1>4, <1>7 DEF Write
<1>9. \A k \in 0..3 : path[k][Reg("RemoteEnable")] = 0
  BY <1>4, <1>7 DEF Write, Released
<1>10. SigenEffect(path[4]) = IF lim = 0 THEN Lock ELSE Command("discharge", lim)
  BY <1>1, <1>8, <1>p, AdaptersAssumption DEF SigenEffect
<1>11. PlainEffects("sigenergy", path[4]) = {Plain("sigenergy", told)}
  BY <1>2, <1>10 DEF PlainEffects, EffectsOn
<1>12. ASSUME NEW k \in 0..3 PROVE PlainEffects("sigenergy", path[k]) = {Factory}
  <2>1. SigenEffect(path[k]) = Factory
    BY <1>9 DEF SigenEffect
  <2> QED  BY <2>1, FactoryIsPlain DEF PlainEffects, EffectsOn
<1>13. \A k \in 0..4 : PlainEffects("sigenergy", path[k]) \subseteq {Factory, Plain("sigenergy", told)}
  BY <1>11, <1>12
<1>14. Obeys("sigenergy", d, q, told, TRUE)
  BY <1>4, <1>5, <1>7, <1>11, <1>13 DEF Obeys, Settled
<1> QED
  BY <1>14 DEF q, told

LEMMA VictronCommands ==
    ASSUME NEW d \in Contents("victron"), Released("victron", d),
           NEW c \in Requests("victron") \ {Factory}
    PROVE  Obeys("victron", d, VictronWrites(c), Told("victron", c), TRUE)
<1> DEFINE q == VictronWrites(c)
           told == Told("victron", c)
           w == VictronApplied(c)
           amps == IF c.kind = "lock" THEN 0 ELSE
                   IF c.kind = "limit" THEN Amps(c.w) ELSE REMEMBERED.amps
<1>0. \/ c = Lock
      \/ \E v \in WATTS : c = Command("limit", v) \/ c = Command("discharge", v)
  BY DEF Requests
<1>k. /\ c = Lock <=> c.kind = "lock"
      /\ c.kind \in {"limit", "discharge"} => c.w \in Nat
      /\ c.kind \in {"lock", "limit", "discharge"}
  BY <1>0, AdaptersAssumption DEF Command, Lock
<1>w. c.kind = "discharge" => w \in Nat
  BY <1>k DEF VictronApplied, Smaller, MAX_SETPOINT_W
<1>1. c.kind = "limit" => Amps(c.w) \in Nat \ {0}
  <2>1. c.kind = "limit" => RoundDiv(c.w, VOLTAGE_V) \in Nat
    BY <1>k, RoundedDown DEF VOLTAGE_V
  <2> QED  BY <2>1 DEF Amps, Larger
<1>2. amps \in Int
  BY <1>1, AdaptersAssumption
<1>d. d[Reg("GridSetpointW")] = REMEMBERED.setpoint /\ d[Reg("MaxChargeA")] = REMEMBERED.amps
  BY DEF Released
<1>3. \/ /\ c.kind # "discharge" /\ q = <<Write("MaxChargeA", amps)>>
      \/ /\ c.kind = "discharge"
         /\ q = <<Write("MaxChargeA", amps), Write("GridSetpointW", -w)>>
  BY <1>k DEF VictronWrites
<1>4. ASSUME NEW e, c.kind # "discharge",
             e[Reg("MaxChargeA")] = amps, e[Reg("GridSetpointW")] = REMEMBERED.setpoint
      PROVE  PlainEffects("victron", e) = {Plain("victron", told)}
  <2>1. CASE c.kind = "lock"
    <3>1. VictronEffect(e) = Lock /\ told = Lock
      BY <1>k, <1>4, <2>1, AdaptersAssumption DEF VictronEffect, Told
    <3> QED  BY <3>1 DEF PlainEffects, EffectsOn
  <2>2. CASE c.kind = "limit"
    <3>1. told = Command("limit", Amps(c.w) * VOLTAGE_V)
      BY <1>0, <2>2 DEF Told, Command, Lock, Factory
    <3>2. CASE Amps(c.w) = REMEMBERED.amps
      <4>1. VictronEffect(e) = Factory
        BY <1>1, <1>4, <2>2, <3>2 DEF VictronEffect
      <4>2. Plain("victron", told) = Factory
        BY <3>1, <3>2 DEF Plain, Usual
      <4> QED  BY <4>1, <4>2, FactoryIsPlain DEF PlainEffects, EffectsOn
    <3>3. CASE Amps(c.w) # REMEMBERED.amps
      <4>1. amps = Amps(c.w) /\ amps # 0 /\ amps # REMEMBERED.amps
        BY <1>1, <2>2, <3>3
      <4> HIDE DEF amps
      <4>2. VictronEffect(e) = Command("limit", amps * VOLTAGE_V)
        BY <1>4, <4>1 DEF VictronEffect
      <4> QED  BY <3>1, <4>1, <4>2 DEF PlainEffects, EffectsOn
    <3> QED  BY <3>2, <3>3
  <2> QED  BY <1>k, <1>4, <2>1, <2>2
<1>5. ASSUME NEW e, c.kind = "discharge",
             e[Reg("MaxChargeA")] = REMEMBERED.amps, e[Reg("GridSetpointW")] = -w
      PROVE  PlainEffects("victron", e) = {Plain("victron", told)}
  <2>1. told = Command("discharge", w) /\ -(-w) = w /\ -w <= 0
    BY <1>0, <1>5, <1>w DEF Told, Command, Lock, Factory
  <2>2. CASE -w = REMEMBERED.setpoint
    <3>1. VictronEffect(e) = Factory
      BY <1>5, <2>2, AdaptersAssumption DEF VictronEffect
    <3>2. Plain("victron", told) = Factory
      BY <2>1, <2>2, AdaptersAssumption DEF Plain, Usual
    <3> QED  BY <3>1, <3>2, FactoryIsPlain DEF PlainEffects, EffectsOn
  <2>3. CASE -w # REMEMBERED.setpoint
    <3>1. VictronEffect(e) = Command("discharge", w)
      BY <1>5, <2>1, <2>3 DEF VictronEffect
    <3> QED  BY <2>1, <3>1 DEF PlainEffects, EffectsOn
  <2> QED  BY <2>2, <2>3
<1> HIDE DEF amps, told, q, w
<1>6. /\ q \in Writes("victron") /\ Len(q) \in {1, 2} /\ q[1] = Write("MaxChargeA", amps)
      /\ Len(q) = 2 <=> c.kind = "discharge"
      /\ Len(q) = 2 => q[2] = Write("GridSetpointW", -w)
      /\ \A m, n \in 1..Len(q) : q[m][1] = q[n][1] => m = n
  <2>1. CASE q = <<Write("MaxChargeA", amps)>> /\ c.kind # "discharge"
    BY <1>2, <2>1, VictronRegisters DEF Write, Writes
  <2>2. CASE q = <<Write("MaxChargeA", amps), Write("GridSetpointW", -w)>> /\ c.kind = "discharge"
    <3>1. -w \in Int
      BY <1>w, <2>2
    <3> QED  BY <1>2, <2>2, <3>1, VictronRegisters DEF Write, Writes
  <2> QED  BY <1>3, <2>1, <2>2
<1>7. PICK path : /\ Leads("victron", d, q, path)
                  /\ \A k \in 0..Len(q) :
                        /\ \A m \in 1..Len(q) : path[k][q[m][1]] = IF k >= m THEN q[m][2] ELSE d[q[m][1]]
                        /\ \A r \in Registers("victron") :
                              (\A m \in 1..Len(q) : q[m][1] # r) => path[k][r] = d[r]
  BY <1>6, WrittenOnce
<1>8. path[0] = d
  BY <1>7 DEF Leads
<1>9. PlainEffects("victron", d) = {Factory}
  <2>1. VictronEffect(d) = Factory
    BY <1>d, AdaptersAssumption DEF VictronEffect
  <2> QED  BY <2>1, FactoryIsPlain DEF PlainEffects, EffectsOn
<1>10. CASE c.kind # "discharge"
  <2>1. Len(q) = 1
    BY <1>6, <1>10
  <2>2. path[1][Reg("MaxChargeA")] = amps
    BY <1>6, <1>7, <2>1 DEF Write
  <2>3. path[1][Reg("GridSetpointW")] = REMEMBERED.setpoint
    BY <1>6, <1>7, <1>d, <2>1, VictronRegisters DEF Write
  <2>4. PlainEffects("victron", path[1]) = {Plain("victron", told)}
    BY <1>4, <1>10, <2>2, <2>3
  <2>5. \A k \in 0..1 : PlainEffects("victron", path[k]) \subseteq {Factory, Plain("victron", told)}
    BY <1>8, <1>9, <2>4
  <2>6. Obeys("victron", d, q, told, TRUE)
    BY <1>6, <1>7, <2>1, <2>3, <2>4, <2>5 DEF Obeys, Settled
  <2> QED  BY <2>6 DEF q, told
<1>11. CASE c.kind = "discharge"
  <2>1. Len(q) = 2 /\ amps = REMEMBERED.amps
    BY <1>6, <1>11 DEF amps
  <2>2. \A k \in 1..2 : path[k][Reg("MaxChargeA")] = REMEMBERED.amps
    BY <1>6, <1>7, <2>1 DEF Write
  <2>3. path[1][Reg("GridSetpointW")] = REMEMBERED.setpoint /\ path[2][Reg("GridSetpointW")] = -w
    BY <1>6, <1>7, <1>d, <2>1 DEF Write
  <2>4. PlainEffects("victron", path[2]) = {Plain("victron", told)}
    BY <1>5, <1>11, <2>2, <2>3
  <2>5. PlainEffects("victron", path[1]) = {Factory}
    <3>1. VictronEffect(path[1]) = Factory
      BY <2>2, <2>3, AdaptersAssumption DEF VictronEffect
    <3> QED  BY <3>1, FactoryIsPlain DEF PlainEffects, EffectsOn
  <2>6. \A k \in 0..2 : PlainEffects("victron", path[k]) \subseteq {Factory, Plain("victron", told)}
    BY <1>8, <1>9, <2>4, <2>5
  <2>7. Obeys("victron", d, q, told, TRUE)
    BY <1>6, <1>7, <2>1, <2>2, <2>4, <2>6 DEF Obeys, Settled
  <2> QED  BY <2>7 DEF q, told
<1> QED
  BY <1>10, <1>11

-----------------------------------------------------------------------------
(***************************************************************************)
(* Deye.  Which members of a sequence AtPositions picks, by the least      *)
(* position where that would go wrong.                                     *)
(***************************************************************************)
AtPositionsUpto(s, positions, f) ==
    [k \in 0..Len(s) |->
        IF k = 0 THEN <<>>
        ELSE IF k \in positions THEN Append(f[k - 1], s[k]) ELSE f[k - 1]]

LEMMA AtPositionsIsLast ==
    ASSUME NEW s, NEW positions
    PROVE  AtPositions(s, positions) = (CHOOSE f : f = AtPositionsUpto(s, positions, f))[Len(s)]
BY DEF AtPositions, AtPositionsUpto

LEMMA AtPositionsDefined ==
    ASSUME NEW S, NEW s \in Seq(S), NEW positions
    PROVE  \E f : f = AtPositionsUpto(s, positions, f)
<1> DEFINE Upto(n, f) == /\ f \in [0..Len(s) -> Seq(S)] /\ f[0] = <<>>
                         /\ \A k \in 1..n :
                               f[k] = IF k \in positions THEN Append(f[k - 1], s[k]) ELSE f[k - 1]
           Bad == {n \in 0..Len(s) : ~\E f : Upto(n, f)}
<1>1. Len(s) \in Nat /\ \A k \in 1..Len(s) : s[k] \in S
  OBVIOUS
<1>2. Bad = {}
  <2> SUFFICES ASSUME Bad # {} PROVE FALSE
    OBVIOUS
  <2>1. PICK n \in Bad : \A m \in Bad : n <= m
    <3>1. Bad \in SUBSET Nat
      OBVIOUS
    <3> HIDE DEF Bad
    <3> QED  BY <3>1, LeastNatural
  <2>2. n \in 0..Len(s) /\ ~\E f : Upto(n, f)
    OBVIOUS
  <2>3. Upto(0, [k \in 0..Len(s) |-> <<>>])
    BY <1>1
  <2>4. n - 1 \in 0..Len(s) /\ n - 1 \notin Bad /\ n \in 1..Len(s)
    <3>1. n # 0
      BY <2>2, <2>3
    <3> HIDE DEF Bad
    <3> QED  BY <1>1, <2>1, <2>2, <3>1
  <2>5. PICK f : Upto(n - 1, f)
    BY <2>4
  <2> DEFINE here == IF n \in positions THEN Append(f[n - 1], s[n]) ELSE f[n - 1]
             g == [f EXCEPT ![n] = here]
  <2>6. f[n - 1] \in Seq(S) /\ s[n] \in S
    BY <1>1, <2>4, <2>5
  <2>7. here \in Seq(S)
    BY <2>6
  <2> HIDE DEF here, Bad
  <2>8. /\ g \in [0..Len(s) -> Seq(S)] /\ g[n] = here
        /\ \A k \in 0..Len(s) : k # n => g[k] = f[k]
    BY <2>2, <2>5, <2>7
  <2> HIDE DEF g
  <2>9. g[0] = <<>>
    BY <1>1, <2>4, <2>5, <2>8
  <2>10. ASSUME NEW k \in 1..n
         PROVE  g[k] = IF k \in positions THEN Append(g[k - 1], s[k]) ELSE g[k - 1]
    <3>1. k \in 0..Len(s) /\ k - 1 \in 0..Len(s) /\ k - 1 # n
      BY <1>1, <2>4
    <3>2. g[k - 1] = f[k - 1]
      BY <2>8, <3>1
    <3>3. CASE k = n
      BY <2>8, <3>2, <3>3 DEF here
    <3>4. CASE k # n
      <4>1. k \in 1..(n - 1) /\ g[k] = f[k]
        BY <1>1, <2>4, <2>8, <3>1, <3>4
      <4> QED  BY <2>5, <3>2, <4>1
    <3> QED  BY <3>3, <3>4
  <2>11. Upto(n, g)
    BY <2>8, <2>9, <2>10
  <2> QED  BY <2>2, <2>11
<1>3. PICK f : Upto(Len(s), f)
  <2>1. Len(s) \in 0..Len(s)
    BY <1>1
  <2>2. Len(s) \notin Bad
    <3> HIDE DEF Bad
    <3> QED  BY <1>2
  <2> QED  BY <2>1, <2>2
<1>4. f = AtPositionsUpto(s, positions, f)
  <2>1. f = [k \in 0..Len(s) |-> f[k]]
    BY <1>3
  <2>2. \A k \in 0..Len(s) : f[k] = IF k = 0 THEN <<>>
                    ELSE IF k \in positions THEN Append(f[k - 1], s[k]) ELSE f[k - 1]
    <3>1. f[0] = <<>> /\ \A k \in 1..Len(s) :
              f[k] = IF k \in positions THEN Append(f[k - 1], s[k]) ELSE f[k - 1]
      BY <1>3
    <3>2. \A k \in 0..Len(s) : k = 0 \/ k \in 1..Len(s)
      BY <1>1
    <3>3. \A k \in 1..Len(s) : k # 0
      OBVIOUS
    <3> QED  BY <3>1, <3>2, <3>3
  <2> QED  BY <2>1, <2>2 DEF AtPositionsUpto
<1> QED
  BY <1>4

\* f holds the members of s at the positions up to n.
Holds(s, positions, n, f) ==
    /\ \A j \in 1..Len(f) : \E k \in 1..n : k \in positions /\ f[j] = s[k]
    /\ \A k \in 1..n : k \in positions => \E j \in 1..Len(f) : f[j] = s[k]

LEMMA AtPositionsHolds ==
    ASSUME NEW S, NEW s \in Seq(S), NEW positions
    PROVE  /\ AtPositions(s, positions) \in Seq(S)
           /\ Holds(s, positions, Len(s), AtPositions(s, positions))
           /\ Len(s) > 0 /\ Len(s) \in positions =>
                \E front \in Seq(S) :
                    /\ AtPositions(s, positions) = Append(front, s[Len(s)])
                    /\ Holds(s, positions, Len(s) - 1, front)
<1> DEFINE f == CHOOSE g : g = AtPositionsUpto(s, positions, g)
<1>1. f = AtPositionsUpto(s, positions, f)
  BY AtPositionsDefined
<1>2. AtPositions(s, positions) = f[Len(s)]
  BY AtPositionsIsLast
<1> HIDE DEF f
<1>3. Len(s) \in Nat /\ \A k \in 1..Len(s) : s[k] \in S
  OBVIOUS
<1>4. /\ f[0] = <<>>
      /\ \A k \in 1..Len(s) : f[k] = IF k \in positions THEN Append(f[k - 1], s[k]) ELSE f[k - 1]
  <2>1. \A k \in 0..Len(s) : AtPositionsUpto(s, positions, f)[k] = IF k = 0 THEN <<>>
                    ELSE IF k \in positions THEN Append(f[k - 1], s[k]) ELSE f[k - 1]
    BY DEF AtPositionsUpto
  <2> QED  BY <1>1, <1>3, <2>1
<1> DEFINE Right(n) == f[n] \in Seq(S) /\ Holds(s, positions, n, f[n])
           Bad == {n \in 0..Len(s) : ~Right(n)}
<1>5. Bad = {}
  <2> SUFFICES ASSUME Bad # {} PROVE FALSE
    OBVIOUS
  <2>1. PICK n \in Bad : \A m \in Bad : n <= m
    <3>1. Bad \in SUBSET Nat
      OBVIOUS
    <3> HIDE DEF Bad
    <3> QED  BY <3>1, LeastNatural
  <2>2. n \in 0..Len(s) /\ ~Right(n)
    OBVIOUS
  <2>3. Right(0)
    BY <1>4 DEF Holds
  <2>4. n \in 1..Len(s) /\ n - 1 \in 0..Len(s) /\ n - 1 \notin Bad
    <3>1. n # 0
      BY <2>2, <2>3
    <3> HIDE DEF Bad
    <3> QED  BY <1>3, <2>1, <2>2, <3>1
  <2>5. f[n - 1] \in Seq(S) /\ Holds(s, positions, n - 1, f[n - 1])
    BY <2>4
  <2>6. f[n] = IF n \in positions THEN Append(f[n - 1], s[n]) ELSE f[n - 1]
    BY <1>4, <2>4
  <2>7. s[n] \in S /\ n \in Nat /\ \A k \in 1..(n - 1) : k \in 1..n
    BY <1>3, <2>4
  <2>8. \A k \in 1..n : k = n \/ k \in 1..(n - 1)
    BY <2>7
  <2> HIDE DEF Bad
  <2>9. CASE n \in positions
    <3> DEFINE before0 == f[n - 1]
               upto == f[n]
    <3>1. upto = Append(before0, s[n])
      BY <2>6, <2>9
    <3>2. before0 \in Seq(S)
      BY <2>5
    <3>3. upto \in Seq(S) /\ Len(upto) = Len(before0) + 1 /\ upto[Len(before0) + 1] = s[n]
          /\ (\A j \in 1..Len(before0) : upto[j] = before0[j]) /\ Len(before0) \in Nat
      <4> HIDE DEF upto, before0
      <4> QED  BY <2>7, <3>1, <3>2
    <3>h. /\ \A j \in 1..Len(before0) : \E k \in 1..(n - 1) : k \in positions /\ before0[j] = s[k]
          /\ \A k \in 1..(n - 1) : k \in positions => \E j \in 1..Len(before0) : before0[j] = s[k]
      BY <2>5 DEF Holds
    <3> HIDE DEF upto, before0
    <3>4. ASSUME NEW j \in 1..Len(upto) PROVE \E k \in 1..n : k \in positions /\ upto[j] = s[k]
      <4>1. j = Len(before0) + 1 \/ j \in 1..Len(before0)
        BY <3>3
      <4>2. CASE j = Len(before0) + 1
        BY <2>4, <2>7, <2>9, <3>3, <4>2
      <4>3. CASE j \in 1..Len(before0)
        BY <2>7, <3>3, <3>h, <4>3
      <4> QED  BY <4>1, <4>2, <4>3
    <3>5. ASSUME NEW k \in 1..n, k \in positions PROVE \E j \in 1..Len(upto) : upto[j] = s[k]
      <4>1. CASE k = n
        BY <3>3, <4>1
      <4>2. CASE k \in 1..(n - 1)
        <5>1. PICK j \in 1..Len(before0) : before0[j] = s[k]
          BY <3>h, <3>5, <4>2
        <5> QED  BY <3>3, <5>1
      <4> QED  BY <2>8, <4>1, <4>2
    <3>6. Right(n)
      <4>1. Holds(s, positions, n, upto)
        BY <3>4, <3>5 DEF Holds
      <4> QED  BY <3>3, <4>1 DEF upto
    <3> QED  BY <2>2, <3>6
  <2>10. CASE n \notin positions
    <3>1. f[n] = f[n - 1]
      BY <2>6, <2>10
    <3>2. Holds(s, positions, n, f[n - 1])
      BY <2>5, <2>7, <2>8, <2>10 DEF Holds
    <3>3. Right(n)
      BY <2>5, <3>1, <3>2
    <3> QED  BY <2>2, <3>3
  <2> QED  BY <2>9, <2>10
<1>6. \A n \in 0..Len(s) : Right(n)
  BY <1>5
<1> HIDE DEF Bad
<1>7. Right(Len(s))
  BY <1>3, <1>6
<1>8. ASSUME Len(s) > 0, Len(s) \in positions
      PROVE  \E front \in Seq(S) : /\ AtPositions(s, positions) = Append(front, s[Len(s)])
                                   /\ Holds(s, positions, Len(s) - 1, front)
  <2>1. Len(s) - 1 \in 0..Len(s) /\ Len(s) \in 1..Len(s)
    BY <1>3, <1>8
  <2>2. f[Len(s)] = Append(f[Len(s) - 1], s[Len(s)])
    BY <1>4, <1>8, <2>1
  <2>3. Right(Len(s) - 1)
    BY <1>6, <2>1
  <2> QED  BY <1>2, <2>2, <2>3
<1> QED
  BY <1>2, <1>7, <1>8

\* What the adapter sends where the items show it: Differing, whatever they show.
Unlike(shown, writes) ==
    AtPositions(writes, {k \in DOMAIN writes : shown[writes[k][1]] # writes[k][2]})

LEMMA DifferingFromItems ==
    ASSUME NEW writes
    PROVE  Differing(writes) = Unlike(item, writes)
BY DEF Differing, Unlike

LEMMA DeyeRegisters ==
    /\ Registers("deye") = Slots("SellW") \cup Slots("SellSoc") \cup Slots("SellFlag") \cup {Reg("TouEnable")}
    /\ \A i : Reg("TouEnable") \notin {<<"SellW", i>>, <<"SellSoc", i>>, <<"SellFlag", i>>}
BY DEF Registers, Reg

\* The reset sends its one write where the item shows the plan switched on.
LEMMA DeyeResetQueue ==
    ASSUME NEW shown
    PROVE  Unlike(shown, DeyeReset) = IF shown[Reg("TouEnable")] = 0 THEN <<>> ELSE DeyeReset
<1> DEFINE s == DeyeReset
           P == {k \in DOMAIN s : shown[s[k][1]] # s[k][2]}
           q == AtPositions(s, P)
           S == Registers("deye") \X Int
<1>1. Len(s) = 1 /\ DOMAIN s = 1..1 /\ s[1][1] = Reg("TouEnable") /\ s[1][2] = 0 /\ s = <<s[1]>>
  BY DEF DeyeReset, Write
<1>2. s \in Seq(S)
  BY DeyeRegisters DEF DeyeReset, Write
<1>3. 1 \in P <=> shown[Reg("TouEnable")] # 0
  BY <1>1
<1>4. Unlike(shown, DeyeReset) = q
  BY DEF Unlike
<1> HIDE DEF P, s, q
<1>5. /\ q \in Seq(S) /\ Holds(s, P, 1, q)
      /\ 1 \in P => \E front \in Seq(S) : q = Append(front, s[1]) /\ Holds(s, P, 0, front)
  <2>1. /\ AtPositions(s, P) \in Seq(S) /\ Holds(s, P, Len(s), AtPositions(s, P))
        /\ Len(s) > 0 /\ Len(s) \in P =>
             \E front \in Seq(S) : /\ AtPositions(s, P) = Append(front, s[Len(s)])
                                   /\ Holds(s, P, Len(s) - 1, front)
    <3> HIDE DEF S
    <3> QED  BY <1>2, AtPositionsHolds
  <2> QED  BY <1>1, <2>1 DEF q
<1> HIDE DEF S
<1>6. CASE 1 \in P
  <2>1. PICK front \in Seq(S) : q = Append(front, s[1]) /\ Holds(s, P, 0, front)
    BY <1>5, <1>6
  <2>2. Len(front) \in Nat /\ ~(1 \in 1..Len(front))
    BY <2>1 DEF Holds
  <2>3. front = <<>>
    BY <2>2
  <2>4. q = s
    BY <1>1, <2>1, <2>3
  <2> QED  BY <1>3, <1>4, <1>6, <2>4 DEF s
<1>7. CASE 1 \notin P
  <2>1. Len(q) \in Nat /\ ~(1 \in 1..Len(q))
    BY <1>5, <1>7 DEF Holds
  <2>2. q = <<>>
    BY <1>5, <2>1
  <2> QED  BY <1>3, <1>4, <1>7, <2>2
<1> QED
  BY <1>6, <1>7

LEMMA DeyeResets ==
    ASSUME NEW d \in Contents("deye"), NEW q \in {<<>>, DeyeReset},
           q = <<>> => d[Reg("TouEnable")] = 0
    PROVE  Clears("deye", d, q)
<1>1. q \in Writes("deye") /\ Len(q) \in {0, 1} /\ (Len(q) = 0 <=> q = <<>>)
      /\ (Len(q) = 1 => q[1][1] = Reg("TouEnable") /\ q[1][2] = 0)
  <2>1. DeyeReset \in Writes("deye") /\ <<>> \in Writes("deye")
    BY DeyeRegisters DEF DeyeReset, Write, Writes
  <2>2. Len(DeyeReset) = 1 /\ DeyeReset[1][1] = Reg("TouEnable") /\ DeyeReset[1][2] = 0
    BY DEF DeyeReset, Write
  <2>3. CASE q = <<>>
    BY <2>1, <2>3
  <2>4. CASE q = DeyeReset
    BY <2>1, <2>2, <2>4
  <2> QED  BY <2>3, <2>4
<1>2. \A m, n \in 1..Len(q) : q[m][1] = q[n][1] => m = n
  BY <1>1
<1>3. PICK path : /\ Leads("deye", d, q, path)
                  /\ \A k \in 0..Len(q) : \A m \in 1..Len(q) :
                        path[k][q[m][1]] = IF k >= m THEN q[m][2] ELSE d[q[m][1]]
  BY <1>1, <1>2, WrittenOnce
<1>4. path[0] = d
  BY <1>3 DEF Leads
<1>5. path[Len(q)][Reg("TouEnable")] = 0
  BY <1>1, <1>3, <1>4
<1>6. Released("deye", path[Len(q)])
  BY <1>5 DEF Released
<1>7. PlainEffects("deye", path[Len(q)]) = {Factory}
  BY <1>5, FactoryIsPlain DEF PlainEffects, EffectsOn, DeyeEffects
<1>8. ASSUME NEW told, Settled("deye", d, told), NEW k \in 0..Len(q)
      PROVE  PlainEffects("deye", path[k]) \subseteq {Factory, Plain("deye", told)}
  <2>0. Len(q) = 0 \/ Len(q) = 1
    BY <1>1
  <2>1. k = 0 \/ k = Len(q)
    <3>1. CASE Len(q) = 0
      <4>1. k \in 0..0
        BY <3>1
      <4> QED  BY <4>1
    <3>2. CASE Len(q) = 1
      <4>1. k \in 0..1
        BY <3>2
      <4> QED  BY <3>2, <4>1
    <3> QED  BY <2>0, <3>1, <3>2
  <2>2. PlainEffects("deye", d) \subseteq {Factory, Plain("deye", told)}
    BY <1>8 DEF Settled
  <2> QED  BY <1>4, <1>7, <2>1, <2>2
<1> QED
  BY <1>1, <1>3, <1>6, <1>8 DEF Clears

\* The writes of a command are those of every slot.
LEMMA WritesOfSlots ==
    ASSUME NEW watts \in Nat, NEW setSoc \in BOOLEAN
    PROVE  LET s == SlotWrites(watts, setSoc)
           IN  /\ s \in Writes("deye")
               /\ \A k \in 1..Len(s) : \E i \in 1..SLOTS :
                     \/ s[k] = <<<<"SellW", i>>, watts>>
                     \/ setSoc /\ s[k] = <<<<"SellSoc", i>>, SOC_FLOOR>>
                     \/ s[k] = <<<<"SellFlag", i>>, 0>>
               /\ \A i \in 1..SLOTS :
                     /\ \E k \in 1..Len(s) : s[k] = <<<<"SellW", i>>, watts>>
                     /\ setSoc => \E k \in 1..Len(s) : s[k] = <<<<"SellSoc", i>>, SOC_FLOOR>>
                     /\ \E k \in 1..Len(s) : s[k] = <<<<"SellFlag", i>>, 0>>
<1> DEFINE s == SlotWrites(watts, setSoc)
<1>0. SLOTS \in Nat \ {0}
  BY AdaptersAssumption
<1>1. CASE setSoc = TRUE
  <2>1. s = [k \in 1..(3 * SLOTS) |->
              <<<<(<<"SellW", "SellSoc", "SellFlag">>)[((k - 1) % 3) + 1], (k - 1) \div 3 + 1>>,
                [SellW |-> watts, SellSoc |-> SOC_FLOOR, SellFlag |-> 0]
                   [(<<"SellW", "SellSoc", "SellFlag">>)[((k - 1) % 3) + 1]]>>]
    BY <1>1 DEF SlotWrites
  <2>2. Len(s) = 3 * SLOTS /\ DOMAIN s = 1..Len(s)
    BY <1>0, <2>1
  <2>3. \A k \in 1..(3 * SLOTS) :
            s[k] = <<<<(<<"SellW", "SellSoc", "SellFlag">>)[((k - 1) % 3) + 1], (k - 1) \div 3 + 1>>,
                     [SellW |-> watts, SellSoc |-> SOC_FLOOR, SellFlag |-> 0]
                        [(<<"SellW", "SellSoc", "SellFlag">>)[((k - 1) % 3) + 1]]>>
    BY <2>1
  <2>4. \A k \in 1..(3 * SLOTS) :
            /\ (k - 1) % 3 = 0 => s[k] = <<<<"SellW", (k - 1) \div 3 + 1>>, watts>>
            /\ (k - 1) % 3 = 1 => s[k] = <<<<"SellSoc", (k - 1) \div 3 + 1>>, SOC_FLOOR>>
            /\ (k - 1) % 3 = 2 => s[k] = <<<<"SellFlag", (k - 1) \div 3 + 1>>, 0>>
    BY <2>3
  <2> HIDE DEF s
  <2>5. \A k \in 1..(3 * SLOTS) : (k - 1) % 3 \in 0..2 /\ (k - 1) \div 3 + 1 \in 1..SLOTS
    BY <1>0
  <2>6. ASSUME NEW k \in 1..(3 * SLOTS)
        PROVE  \E i \in 1..SLOTS : \/ s[k] = <<<<"SellW", i>>, watts>>
                                   \/ s[k] = <<<<"SellSoc", i>>, SOC_FLOOR>>
                                   \/ s[k] = <<<<"SellFlag", i>>, 0>>
    BY <2>4, <2>5
  <2>7. ASSUME NEW i \in 1..SLOTS
        PROVE  /\ \E k \in 1..(3 * SLOTS) : s[k] = <<<<"SellW", i>>, watts>>
               /\ \E k \in 1..(3 * SLOTS) : s[k] = <<<<"SellSoc", i>>, SOC_FLOOR>>
               /\ \E k \in 1..(3 * SLOTS) : s[k] = <<<<"SellFlag", i>>, 0>>
    <3>1. /\ 3 * i - 2 \in 1..(3 * SLOTS) /\ ((3 * i - 2) - 1) % 3 = 0 /\ ((3 * i - 2) - 1) \div 3 + 1 = i
          /\ 3 * i - 1 \in 1..(3 * SLOTS) /\ ((3 * i - 1) - 1) % 3 = 1 /\ ((3 * i - 1) - 1) \div 3 + 1 = i
          /\ 3 * i \in 1..(3 * SLOTS) /\ (3 * i - 1) % 3 = 2 /\ (3 * i - 1) \div 3 + 1 = i
      BY <1>0
    <3>2. s[3 * i - 2] = <<<<"SellW", i>>, watts>>
      BY <2>4, <3>1
    <3>3. s[3 * i - 1] = <<<<"SellSoc", i>>, SOC_FLOOR>>
      BY <2>4, <3>1
    <3>4. s[3 * i] = <<<<"SellFlag", i>>, 0>>
      BY <2>4, <3>1
    <3> QED  BY <3>1, <3>2, <3>3, <3>4
  <2>8. s \in Writes("deye")
    <3>1. \A k \in 1..(3 * SLOTS) : s[k] \in Registers("deye") \X Int
      BY <2>6, DeyeRegisters DEF Slots, SOC_FLOOR
    <3>2. s = [k \in 1..(3 * SLOTS) |-> s[k]]
      BY <2>1 DEF s
    <3> QED  BY <1>0, <3>1, <3>2 DEF Writes
  <2>9. \A k \in 1..Len(s) : \E i \in 1..SLOTS : \/ s[k] = <<<<"SellW", i>>, watts>>
                                               \/ s[k] = <<<<"SellSoc", i>>, SOC_FLOOR>>
                                               \/ s[k] = <<<<"SellFlag", i>>, 0>>
    BY <2>2, <2>6
  <2>10. \A i \in 1..SLOTS :
            /\ \E k \in 1..Len(s) : s[k] = <<<<"SellW", i>>, watts>>
            /\ \E k \in 1..Len(s) : s[k] = <<<<"SellSoc", i>>, SOC_FLOOR>>
            /\ \E k \in 1..Len(s) : s[k] = <<<<"SellFlag", i>>, 0>>
    BY <2>2, <2>7
  <2> QED  BY <1>1, <2>8, <2>9, <2>10, Zenon DEF s
<1>2. CASE setSoc = FALSE
  <2>1. s = [k \in 1..(2 * SLOTS) |->
              <<<<(<<"SellW", "SellFlag">>)[((k - 1) % 2) + 1], (k - 1) \div 2 + 1>>,
                [SellW |-> watts, SellSoc |-> SOC_FLOOR, SellFlag |-> 0]
                   [(<<"SellW", "SellFlag">>)[((k - 1) % 2) + 1]]>>]
    BY <1>2 DEF SlotWrites
  <2>2. Len(s) = 2 * SLOTS /\ DOMAIN s = 1..Len(s)
    BY <1>0, <2>1
  <2>3. \A k \in 1..(2 * SLOTS) :
            s[k] = <<<<(<<"SellW", "SellFlag">>)[((k - 1) % 2) + 1], (k - 1) \div 2 + 1>>,
                     [SellW |-> watts, SellSoc |-> SOC_FLOOR, SellFlag |-> 0]
                        [(<<"SellW", "SellFlag">>)[((k - 1) % 2) + 1]]>>
    BY <2>1
  <2>4. \A k \in 1..(2 * SLOTS) :
            /\ (k - 1) % 2 = 0 => s[k] = <<<<"SellW", (k - 1) \div 2 + 1>>, watts>>
            /\ (k - 1) % 2 = 1 => s[k] = <<<<"SellFlag", (k - 1) \div 2 + 1>>, 0>>
    BY <2>3
  <2> HIDE DEF s
  <2>5. \A k \in 1..(2 * SLOTS) : (k - 1) % 2 \in 0..1 /\ (k - 1) \div 2 + 1 \in 1..SLOTS
    BY <1>0
  <2>6. ASSUME NEW k \in 1..(2 * SLOTS)
        PROVE  \E i \in 1..SLOTS : \/ s[k] = <<<<"SellW", i>>, watts>>
                                   \/ s[k] = <<<<"SellFlag", i>>, 0>>
    BY <2>4, <2>5
  <2>7. ASSUME NEW i \in 1..SLOTS
        PROVE  /\ \E k \in 1..(2 * SLOTS) : s[k] = <<<<"SellW", i>>, watts>>
               /\ \E k \in 1..(2 * SLOTS) : s[k] = <<<<"SellFlag", i>>, 0>>
    <3>1. /\ 2 * i - 1 \in 1..(2 * SLOTS) /\ ((2 * i - 1) - 1) % 2 = 0 /\ ((2 * i - 1) - 1) \div 2 + 1 = i
          /\ 2 * i \in 1..(2 * SLOTS) /\ (2 * i - 1) % 2 = 1 /\ (2 * i - 1) \div 2 + 1 = i
      BY <1>0
    <3>2. s[2 * i - 1] = <<<<"SellW", i>>, watts>>
      BY <2>4, <3>1
    <3>3. s[2 * i] = <<<<"SellFlag", i>>, 0>>
      BY <2>4, <3>1
    <3> QED  BY <3>1, <3>2, <3>3
  <2>8. s \in Writes("deye")
    <3>1. \A k \in 1..(2 * SLOTS) : s[k] \in Registers("deye") \X Int
      BY <2>6, DeyeRegisters DEF Slots
    <3>2. s = [k \in 1..(2 * SLOTS) |-> s[k]]
      BY <2>1 DEF s
    <3> QED  BY <1>0, <3>1, <3>2 DEF Writes
  <2>9. \A k \in 1..Len(s) : \E i \in 1..SLOTS : \/ s[k] = <<<<"SellW", i>>, watts>>
                                               \/ s[k] = <<<<"SellFlag", i>>, 0>>
    BY <2>2, <2>6
  <2>10. \A i \in 1..SLOTS :
            /\ \E k \in 1..Len(s) : s[k] = <<<<"SellW", i>>, watts>>
            /\ \E k \in 1..Len(s) : s[k] = <<<<"SellFlag", i>>, 0>>
    BY <2>2, <2>7
  <2> QED  BY <1>2, <2>8, <2>9, <2>10, Zenon DEF s
<1> QED
  BY <1>1, <1>2

\* The value a window of so many watts gives a register of the plan.
Goal(watts) ==
    [r \in Registers("deye") |->
        IF r = Reg("TouEnable") THEN 1
        ELSE IF \E i \in 1..SLOTS : r = <<"SellW", i>> THEN watts
        ELSE IF \E i \in 1..SLOTS : r = <<"SellSoc", i>> THEN SOC_FLOOR ELSE 0]

LEMMA GoalOfSlots ==
    ASSUME NEW watts \in Nat
    PROVE  /\ Goal(watts)[Reg("TouEnable")] = 1
           /\ \A i \in 1..SLOTS : /\ Goal(watts)[<<"SellW", i>>] = watts
                                  /\ Goal(watts)[<<"SellSoc", i>>] = SOC_FLOOR
                                  /\ Goal(watts)[<<"SellFlag", i>>] = 0
<1>1. Reg("TouEnable") \in Registers("deye")
  BY DeyeRegisters
<1>2. \A i \in 1..SLOTS : {<<"SellW", i>>, <<"SellSoc", i>>, <<"SellFlag", i>>} \subseteq Registers("deye")
  BY DeyeRegisters DEF Slots
<1> QED
  BY <1>1, <1>2, DeyeRegisters DEF Goal

\* Where the items show the registers, apart from the one that switches the plan
\* on: the writes that are not skipped make every slot the window, and none of
\* them counts before the last.
LEMMA DeyeCommands ==
    ASSUME NEW d \in Contents("deye"), Released("deye", d), NEW shown,
           \A r \in Registers("deye") \ {Reg("TouEnable")} : shown[r] = d[r],
           NEW c \in Requests("deye") \ {Factory}
    PROVE  Obeys("deye", d, Unlike(shown, DeyeWrites(c)), Told("deye", c),
                 shown[Reg("TouEnable")] # 1)
<1> DEFINE watts == IF c.kind = "lock" THEN 0 ELSE Quantised(c.w)
           soc == c.kind # "lock"
           told == Told("deye", c)
           W == SlotWrites(watts, soc)
           s == DeyeWrites(c)
           P == {k \in DOMAIN s : shown[s[k][1]] # s[k][2]}
           q == Unlike(shown, s)
           S == Registers("deye") \X Int
<1>0. c = Lock \/ \E w \in WATTS : c = Command("discharge", w)
  BY DEF Requests
<1>1. watts \in Nat /\ soc \in BOOLEAN
  <2>1. CASE c.kind = "lock"
    BY <2>1
  <2>2. CASE c.kind # "lock"
    <3>1. c.w \in Nat
      BY <1>0, <2>2, AdaptersAssumption DEF Command, Lock
    <3>2. Smaller(c.w, RATED_W) \in Nat
      BY <3>1, AdaptersAssumption DEF Smaller
    <3>3. RoundDiv(Smaller(c.w, RATED_W), STEP_W) \in Nat
      <4> DEFINE x == Smaller(c.w, RATED_W)
      <4> HIDE DEF x
      <4>1. x \in Nat
        BY <3>2 DEF x
      <4>2. RoundDiv(x, STEP_W) \in Nat
        BY <4>1 DEF RoundDiv, STEP_W
      <4> QED  BY <4>2 DEF x
    <3>4. Quantised(c.w) \in Nat
      BY <3>3 DEF Quantised, STEP_W
    <3> QED  BY <2>2, <3>4
  <2> QED  BY <2>1, <2>2
<1>2. told = IF soc THEN Command("discharge", watts) ELSE Lock
  BY <1>0 DEF Told, Command, Lock, Factory
<1>3. s = Append(W, Write("TouEnable", 1))
  BY DEF DeyeWrites
<1> HIDE DEF watts, soc, told, s
<1>4. /\ W \in Writes("deye")
      /\ \A k \in 1..Len(W) : \E i \in 1..SLOTS :
            \/ W[k] = <<<<"SellW", i>>, watts>>
            \/ soc /\ W[k] = <<<<"SellSoc", i>>, SOC_FLOOR>>
            \/ W[k] = <<<<"SellFlag", i>>, 0>>
      /\ \A i \in 1..SLOTS :
            /\ \E k \in 1..Len(W) : W[k] = <<<<"SellW", i>>, watts>>
            /\ soc => \E k \in 1..Len(W) : W[k] = <<<<"SellSoc", i>>, SOC_FLOOR>>
            /\ \E k \in 1..Len(W) : W[k] = <<<<"SellFlag", i>>, 0>>
  BY <1>1, WritesOfSlots
<1> HIDE DEF W
<1>5. /\ s \in Seq(S) /\ Len(W) \in Nat /\ Len(s) = Len(W) + 1
      /\ s[Len(s)] = Write("TouEnable", 1)
      /\ \A k \in 1..Len(W) : s[k] = W[k]
      /\ DOMAIN s = 1..Len(s)
  <2>1. Write("TouEnable", 1) \in S
    BY DeyeRegisters DEF Write
  <2>2. W \in Seq(S)
    BY <1>4 DEF Writes
  <2> HIDE DEF S
  <2> QED  BY <1>3, <2>1, <2>2
<1>6. \A k \in 1..Len(W) : s[k][1] # Reg("TouEnable") /\ s[k][2] = Goal(watts)[s[k][1]]
  <2> TAKE k \in 1..Len(W)
  <2>0. s[k] = W[k]
    BY <1>5
  <2>1. PICK i \in 1..SLOTS : \/ W[k] = <<<<"SellW", i>>, watts>>
                              \/ W[k] = <<<<"SellSoc", i>>, SOC_FLOOR>>
                              \/ W[k] = <<<<"SellFlag", i>>, 0>>
    BY <1>4
  <2>2. /\ Goal(watts)[<<"SellW", i>>] = watts
        /\ Goal(watts)[<<"SellSoc", i>>] = SOC_FLOOR
        /\ Goal(watts)[<<"SellFlag", i>>] = 0
    BY <1>1, GoalOfSlots
  <2>3. CASE s[k] = <<<<"SellW", i>>, watts>>
    BY <2>2, <2>3, DeyeRegisters
  <2>4. CASE s[k] = <<<<"SellSoc", i>>, SOC_FLOOR>>
    BY <2>2, <2>4, DeyeRegisters
  <2>5. CASE s[k] = <<<<"SellFlag", i>>, 0>>
    BY <2>2, <2>5, DeyeRegisters
  <2> QED  BY <2>0, <2>1, <2>3, <2>4, <2>5
<1>7. \A k \in 1..Len(s) : s[k][2] = Goal(watts)[s[k][1]]
  <2> TAKE k \in 1..Len(s)
  <2>1. k \in 1..Len(W) \/ k = Len(s)
    BY <1>5
  <2>2. Write("TouEnable", 1)[2] = Goal(watts)[Write("TouEnable", 1)[1]]
    BY <1>1, GoalOfSlots DEF Write
  <2> QED  BY <1>5, <1>6, <2>1, <2>2
<1>8. /\ q \in Seq(S) /\ Holds(s, P, Len(s), q)
      /\ Len(s) > 0 /\ Len(s) \in P =>
            \E front \in Seq(S) : q = Append(front, s[Len(s)]) /\ Holds(s, P, Len(s) - 1, front)
  <2>1. q = AtPositions(s, P)
    BY DEF Unlike
  <2> HIDE DEF q, P, S
  <2> QED  BY <1>5, <2>1, AtPositionsHolds
<1>9. q \in Writes("deye") /\ Len(q) \in Nat
  BY <1>8 DEF Writes
<1>10. /\ \A j \in 1..Len(q) : \E k \in 1..Len(s) : k \in P /\ q[j] = s[k]
       /\ \A k \in 1..Len(s) : k \in P => \E j \in 1..Len(q) : q[j] = s[k]
  BY <1>8 DEF Holds
<1>11. \A k \in 1..Len(s) : k \notin P => shown[s[k][1]] = s[k][2]
  BY <1>5
<1>p. Len(s) \in P <=> shown[Reg("TouEnable")] # 1
  BY <1>5 DEF Write
<1> HIDE DEF q, P, S
<1> DEFINE path == Changed("deye", d, q, Goal(watts))
<1>12. Leads("deye", d, q, path)
  <2>1. \A k \in 1..Len(q) : q[k][2] = Goal(watts)[q[k][1]]
    <3> TAKE j \in 1..Len(q)
    <3>1. PICK k \in 1..Len(s) : q[j] = s[k]
      BY <1>10
    <3> QED  BY <1>7, <3>1
  <2> QED  BY <1>9, <2>1, ChangedLeads
<1>13. \A k \in 0..Len(q) : \A r \in Registers("deye") :
          path[k][r] = IF \E m \in 1..k : q[m][1] = r THEN Goal(watts)[r] ELSE d[r]
  BY DEF Changed
<1> HIDE DEF path
<1>d. d[Reg("TouEnable")] = 0
  BY DEF Released
\* When all have landed, every register of the list has its value.
<1>14. ASSUME NEW k \in 1..Len(W)
       PROVE  path[Len(q)][s[k][1]] = s[k][2]
  <2>1. s[k][1] \in Registers("deye") \ {Reg("TouEnable")} /\ s[k][2] = Goal(watts)[s[k][1]] /\ k \in 1..Len(s)
    <3>1. k \in 1..Len(s)
      BY <1>5
    <3>2. s[k] \in Registers("deye") \X Int
      BY <1>5, <3>1 DEF S
    <3> QED  BY <1>6, <3>1, <3>2
  <2>2. Len(q) \in 0..Len(q)
    BY <1>9
  <2>3. CASE k \in P
    <3>1. \E m \in 1..Len(q) : q[m][1] = s[k][1]
      BY <1>10, <2>1, <2>3
    <3> QED  BY <1>13, <2>1, <2>2, <3>1
  <2>4. CASE k \notin P
    <3>1. d[s[k][1]] = s[k][2]
      BY <1>11, <2>1, <2>4
    <3> QED  BY <1>13, <2>1, <2>2, <3>1
  <2> QED  BY <2>3, <2>4
<1>15. \A i \in 1..SLOTS : /\ path[Len(q)][<<"SellW", i>>] = watts
                           /\ soc => path[Len(q)][<<"SellSoc", i>>] = SOC_FLOOR
                           /\ path[Len(q)][<<"SellFlag", i>>] = 0
  <2> TAKE i \in 1..SLOTS
  <2>1. PICK k \in 1..Len(W) : s[k] = <<<<"SellW", i>>, watts>>
    BY <1>4, <1>5
  <2>2. path[Len(q)][<<"SellW", i>>] = watts
    BY <1>14, <2>1
  <2>3. PICK m \in 1..Len(W) : s[m] = <<<<"SellFlag", i>>, 0>>
    BY <1>4, <1>5
  <2>4. path[Len(q)][<<"SellFlag", i>>] = 0
    BY <1>14, <2>3
  <2>5. ASSUME soc PROVE path[Len(q)][<<"SellSoc", i>>] = SOC_FLOOR
    <3>1. PICK n \in 1..Len(W) : s[n] = <<<<"SellSoc", i>>, SOC_FLOOR>>
      BY <1>4, <1>5, <2>5
    <3> QED  BY <1>14, <3>1
  <2> QED  BY <2>2, <2>4, <2>5
<1>16. path[Len(q)][Reg("TouEnable")] # 0 => PlainEffects("deye", path[Len(q)]) = {Plain("deye", told)}
  <2> SUFFICES ASSUME path[Len(q)][Reg("TouEnable")] # 0
               PROVE  PlainEffects("deye", path[Len(q)]) = {Plain("deye", told)}
    OBVIOUS
  <2> DEFINE e == path[Len(q)]
             does == IF watts = 0 THEN Lock ELSE Command("discharge", watts)
  <2>1. \A i \in 1..SLOTS : e[<<"SellW", i>>] = watts /\ (soc => e[<<"SellSoc", i>>] = SOC_FLOOR)
                            /\ e[<<"SellFlag", i>>] = 0
    BY <1>15
  <2>2. ~soc => watts = 0
    BY DEF watts, soc
  <2>3. e[Reg("TouEnable")] # 0
    OBVIOUS
  <2> HIDE DEF e
  <2>4. DeyeEffects(e) = {IF e[<<"SellFlag", i>>] # 0 THEN Command("foreign", 0)
                          ELSE IF e[<<"SellW", i>>] = 0 THEN Lock
                          ELSE IF e[<<"SellSoc", i>>] # SOC_FLOOR THEN Command("foreign", 0)
                          ELSE Command("discharge", e[<<"SellW", i>>]) : i \in 1..SLOTS}
    BY <2>3 DEF DeyeEffects
  <2>5. \A i \in 1..SLOTS : (IF e[<<"SellFlag", i>>] # 0 THEN Command("foreign", 0)
                             ELSE IF e[<<"SellW", i>>] = 0 THEN Lock
                             ELSE IF e[<<"SellSoc", i>>] # SOC_FLOOR THEN Command("foreign", 0)
                             ELSE Command("discharge", e[<<"SellW", i>>])) = does
    BY <2>1, <2>2
  <2>6. 1 \in 1..SLOTS
    BY AdaptersAssumption
  <2> HIDE DEF does
  <2>7. DeyeEffects(e) = {does}
    BY <2>4, <2>5, <2>6
  <2>8. Plain("deye", does) = Plain("deye", told)
    BY <1>2, <2>2 DEF does, Plain, Usual, Command, Lock, Factory
  <2> QED  BY <2>7, <2>8 DEF e, PlainEffects, EffectsOn
<1>17. \A k \in 0..Len(q) : path[k][Reg("TouEnable")] = 0 => PlainEffects("deye", path[k]) = {Factory}
  BY FactoryIsPlain DEF PlainEffects, EffectsOn, DeyeEffects
<1>t. Reg("TouEnable") \in Registers("deye")
  BY DeyeRegisters
<1>18. ASSUME Len(s) \in P
       PROVE  /\ path[Len(q)][Reg("TouEnable")] = 1
              /\ \A k \in 0..Len(q) : k # Len(q) => path[k][Reg("TouEnable")] = 0
  <2>1. PICK front \in Seq(S) : q = Append(front, s[Len(s)]) /\ Holds(s, P, Len(s) - 1, front)
    BY <1>5, <1>8, <1>18
  <2>2. Len(q) = Len(front) + 1 /\ Len(front) \in Nat /\ q[Len(q)] = s[Len(s)]
        /\ \A j \in 1..Len(front) : q[j] = front[j]
    BY <2>1
  <2>3. \A j \in 1..Len(front) : q[j][1] # Reg("TouEnable")
    <3> TAKE j \in 1..Len(front)
    <3>1. PICK k \in 1..(Len(s) - 1) : front[j] = s[k]
      BY <2>1 DEF Holds
    <3>2. k \in 1..Len(W)
      BY <1>5, <3>1
    <3> QED  BY <1>6, <2>2, <3>1, <3>2
  <2>4. q[Len(q)][1] = Reg("TouEnable")
    BY <1>5, <2>2 DEF Write
  <2>5. Len(q) \in 0..Len(q) /\ Len(q) \in 1..Len(q)
    BY <2>2
  <2>6. path[Len(q)][Reg("TouEnable")] = 1
    <3>1. \E m \in 1..Len(q) : q[m][1] = Reg("TouEnable")
      BY <2>4, <2>5
    <3>2. Goal(watts)[Reg("TouEnable")] = 1
      BY <1>1, GoalOfSlots
    <3> QED  BY <1>13, <1>t, <2>5, <3>1, <3>2
  <2>7. ASSUME NEW k \in 0..Len(q), k # Len(q) PROVE path[k][Reg("TouEnable")] = 0
    <3>1. \A m \in 1..k : m \in 1..Len(front)
      BY <2>2, <2>7
    <3>2. ~\E m \in 1..k : q[m][1] = Reg("TouEnable")
      BY <2>3, <3>1
    <3> QED  BY <1>13, <1>d, <1>t, <3>2
  <2> QED  BY <2>6, <2>7
<1>19. ASSUME Len(s) \notin P
       PROVE  \A k \in 0..Len(q) : path[k][Reg("TouEnable")] = 0
  <2>1. \A j \in 1..Len(q) : q[j][1] # Reg("TouEnable")
    <3> TAKE j \in 1..Len(q)
    <3>1. PICK k \in 1..Len(s) : k \in P /\ q[j] = s[k]
      BY <1>10
    <3>2. k \in 1..Len(W)
      <4>1. k # Len(s)
        BY <1>19, <3>1
      <4> QED  BY <1>5, <4>1
    <3> QED  BY <1>6, <3>1, <3>2
  <2> TAKE k \in 0..Len(q)
  <2>2. \A m \in 1..k : m \in 1..Len(q)
    BY <1>9
  <2>3. ~\E m \in 1..k : q[m][1] = Reg("TouEnable")
    BY <2>1, <2>2
  <2> QED  BY <1>13, <1>d, <1>t, <2>3
<1>20. /\ PlainEffects("deye", path[Len(q)]) \subseteq {Plain("deye", told), Factory}
       /\ shown[Reg("TouEnable")] # 1 => PlainEffects("deye", path[Len(q)]) = {Plain("deye", told)}
       /\ \A k \in 0..Len(q) : PlainEffects("deye", path[k]) \subseteq {Factory, Plain("deye", told)}
  <2>1. Len(q) \in 0..Len(q)
    BY <1>9
  <2>2. CASE Len(s) \in P
    <3>1. PlainEffects("deye", path[Len(q)]) = {Plain("deye", told)}
      <4>1. path[Len(q)][Reg("TouEnable")] # 0
        BY <1>18, <2>2
      <4> QED  BY <1>16, <4>1
    <3>2. ASSUME NEW k \in 0..Len(q)
          PROVE  PlainEffects("deye", path[k]) \subseteq {Factory, Plain("deye", told)}
      <4>1. CASE k = Len(q)
        BY <3>1, <4>1
      <4>2. CASE k # Len(q)
        BY <1>17, <1>18, <2>2, <4>2
      <4> QED  BY <4>1, <4>2
    <3> QED  BY <3>1, <3>2
  <2>3. CASE Len(s) \notin P
    BY <1>17, <1>19, <1>p, <2>1, <2>3
  <2> QED  BY <2>2, <2>3
<1>21. Settled("deye", path[Len(q)], told)
  BY <1>20 DEF Settled
<1>22. Obeys("deye", d, q, told, shown[Reg("TouEnable")] # 1)
  BY <1>9, <1>12, <1>20, <1>21 DEF Obeys
<1> QED
  BY <1>22 DEF q, told, s

-----------------------------------------------------------------------------
(***************************************************************************)
(* The contract of all adapters.                                           *)
(***************************************************************************)
ResetFrom(a, shown) ==
    CASE a = "sunspec" -> SunSpecReset [] a = "deye" -> Unlike(shown, DeyeReset)
      [] a = "sigenergy" -> SigenReset [] a = "victron" -> VictronReset

WritesFrom(a, shown, c) ==
    CASE a = "sunspec" -> SunSpecWrites(c) [] a = "deye" -> Unlike(shown, DeyeWrites(c))
      [] a = "sigenergy" -> SigenWrites(c) [] a = "victron" -> VictronWrites(c)

\* Only the switch of the plan may be shown otherwise than it is.
ShownAsIs(a, shown, d) ==
    a = "deye" => \A r \in Registers("deye") \ {Reg("TouEnable")} : shown[r] = d[r]

LEMMA FourAdapters == ADAPTERS \subseteq {"sunspec", "deye", "sigenergy", "victron"}
BY AdaptersAssumption

LEMMA ResetClears ==
    ASSUME NEW a \in ADAPTERS, NEW d \in Contents(a), NEW shown,
           a = "deye" /\ shown[Reg("TouEnable")] = 0 => d[Reg("TouEnable")] = 0
    PROVE  Clears(a, d, ResetFrom(a, shown))
<1>1. CASE a = "sunspec"
  BY <1>1, SunSpecResets DEF ResetFrom
<1>2. CASE a = "deye"
  <2>1. Unlike(shown, DeyeReset) = IF shown[Reg("TouEnable")] = 0 THEN <<>> ELSE DeyeReset
    BY DeyeResetQueue
  <2>2. DeyeReset # <<>>
    BY DEF DeyeReset
  <2>3. ResetFrom(a, shown) \in {<<>>, DeyeReset}
        /\ (ResetFrom(a, shown) = <<>> => d[Reg("TouEnable")] = 0)
    BY <1>2, <2>1, <2>2 DEF ResetFrom
  <2> QED  BY <1>2, <2>3, DeyeResets
<1>3. CASE a = "sigenergy"
  BY <1>3, SigenResets DEF ResetFrom
<1>4. CASE a = "victron"
  BY <1>4, VictronResets DEF ResetFrom
<1> QED
  BY <1>1, <1>2, <1>3, <1>4, FourAdapters

LEMMA CommandObeys ==
    ASSUME NEW a \in ADAPTERS, NEW d \in Contents(a), Released(a, d), NEW shown,
           ShownAsIs(a, shown, d), NEW c \in Requests(a) \ {Factory}
    PROVE  Obeys(a, d, WritesFrom(a, shown, c), Told(a, c),
                 a # "deye" \/ shown[Reg("TouEnable")] # 1)
<1> DEFINE exactly == a # "deye" \/ shown[Reg("TouEnable")] # 1
<1>1. CASE a = "sunspec"
  <2>1. Obeys(a, d, SunSpecWrites(c), Told(a, c), TRUE)
    BY <1>1, SunSpecCommands
  <2>2. WritesFrom(a, shown, c) = SunSpecWrites(c)
    BY <1>1 DEF WritesFrom
  <2> QED  BY <2>1, <2>2 DEF Obeys
<1>2. CASE a = "deye"
  <2>1. Obeys(a, d, Unlike(shown, DeyeWrites(c)), Told(a, c), shown[Reg("TouEnable")] # 1)
    BY <1>2, DeyeCommands DEF ShownAsIs
  <2>2. WritesFrom(a, shown, c) = Unlike(shown, DeyeWrites(c))
    BY <1>2 DEF WritesFrom
  <2> QED  BY <1>2, <2>1, <2>2 DEF Obeys
<1>3. CASE a = "sigenergy"
  <2>1. Obeys(a, d, SigenWrites(c), Told(a, c), TRUE)
    BY <1>3, SigenCommands
  <2>2. WritesFrom(a, shown, c) = SigenWrites(c)
    BY <1>3 DEF WritesFrom
  <2> QED  BY <2>1, <2>2 DEF Obeys
<1>4. CASE a = "victron"
  <2>1. Obeys(a, d, VictronWrites(c), Told(a, c), TRUE)
    BY <1>4, VictronCommands
  <2>2. WritesFrom(a, shown, c) = VictronWrites(c)
    BY <1>4 DEF WritesFrom
  <2> QED  BY <2>1, <2>2 DEF Obeys
<1> QED
  BY <1>1, <1>2, <1>3, <1>4, FourAdapters

\* Whatever the items show, they could show it of a released device: so the writes
\* are well formed even where nothing is known of the device.
LEMMA SomeReleased ==
    ASSUME NEW a \in ADAPTERS, NEW shown \in Contents(a)
    PROVE  \E d \in Contents(a) : Released(a, d) /\ ShownAsIs(a, shown, d)
<1>1. CASE a = "sunspec"
  <2> DEFINE d == [r \in Registers(a) |-> IF r = Reg("StorCtl") THEN 0 ELSE 100 * PERCENT]
  <2>1. d \in Contents(a)
    BY DEF Contents, PERCENT
  <2>2. Released(a, d)
    BY <1>1 DEF Released, Registers, Reg
  <2> QED  BY <1>1, <2>1, <2>2 DEF ShownAsIs
<1>2. CASE a = "deye"
  <2> DEFINE d == [shown EXCEPT ![Reg("TouEnable")] = 0]
  <2>1. d \in Contents(a) /\ d[Reg("TouEnable")] = 0
        /\ \A r \in Registers("deye") \ {Reg("TouEnable")} : shown[r] = d[r]
    BY <1>2, DeyeRegisters DEF Contents
  <2> QED  BY <1>2, <2>1 DEF ShownAsIs, Released
<1>3. CASE a = "sigenergy"
  <2> DEFINE d == [r \in Registers(a) |-> 0]
  <2>1. d \in Contents(a)
    BY DEF Contents
  <2>2. Released(a, d)
    BY <1>3 DEF Released, Registers
  <2> QED  BY <1>3, <2>1, <2>2 DEF ShownAsIs
<1>4. CASE a = "victron"
  <2> DEFINE d == [r \in Registers(a) |-> IF r = Reg("MaxChargeA") THEN REMEMBERED.amps ELSE REMEMBERED.setpoint]
  <2>1. d \in Contents(a)
    BY AdaptersAssumption DEF Contents
  <2>2. Released(a, d)
    BY <1>4 DEF Released, Registers, Reg
  <2> QED  BY <1>4, <2>1, <2>2 DEF ShownAsIs
<1> QED
  BY <1>1, <1>2, <1>3, <1>4, FourAdapters

LEMMA WritesFromType ==
    ASSUME NEW a \in ADAPTERS, NEW shown \in Contents(a)
    PROVE  /\ ResetFrom(a, shown) \in Writes(a)
           /\ \A c \in Requests(a) \ {Factory} : WritesFrom(a, shown, c) \in Writes(a)
<1>1. ResetFrom(a, shown) \in Writes(a)
  <2>1. Clears(a, shown, ResetFrom(a, shown))
    BY ResetClears
  <2> QED  BY <2>1 DEF Clears
<1>2. ASSUME NEW c \in Requests(a) \ {Factory} PROVE WritesFrom(a, shown, c) \in Writes(a)
  <2>1. PICK d \in Contents(a) : Released(a, d) /\ ShownAsIs(a, shown, d)
    BY SomeReleased
  <2>2. Obeys(a, d, WritesFrom(a, shown, c), Told(a, c), a # "deye" \/ shown[Reg("TouEnable")] # 1)
    BY <2>1, CommandObeys
  <2> QED  BY <2>2 DEF Obeys
<1> QED
  BY <1>1, <1>2

Kinds == {"factory", "lock", "limit", "discharge"}

LEMMA ToldType ==
    ASSUME NEW a \in ADAPTERS, NEW c \in Requests(a)
    PROVE  Told(a, c) \in [kind : Kinds, w : Nat]
<1>1. \/ c = Factory \/ c = Lock
      \/ \E w \in WATTS : c = Command("discharge", w)
      \/ a \in {"sunspec", "victron"} /\ \E w \in WATTS : c = Command("limit", w)
  BY DEF Requests
<1>2. Factory \in [kind : Kinds, w : Nat] /\ Lock \in [kind : Kinds, w : Nat]
  BY DEF Factory, Lock, Command, Kinds
<1>3. CASE c \in {Factory, Lock}
  BY <1>2, <1>3 DEF Told
<1>4. CASE c \notin {Factory, Lock}
  <2>1. c \in [kind : Kinds, w : WATTS]
    BY <1>1, <1>4 DEF Command, Kinds
  <2>2. c.w \in Nat /\ c.w \in WATTS /\ RATED_W \in Nat
    BY <2>1, AdaptersAssumption
  <2>3. SunSpecApplied(c) \in Nat
    <3>1. Pct(c.w) \in Nat
      BY <2>2, Percents
    <3>2. RATED_W * Pct(c.w) \in Nat
      BY <2>2, <3>1
    <3> QED  BY <3>2, RoundedDown DEF SunSpecApplied
  <2>4. Quantised(c.w) \in Nat
    <3>1. Smaller(c.w, RATED_W) \in Nat
      BY <2>2 DEF Smaller
    <3>2. RoundDiv(Smaller(c.w, RATED_W), STEP_W) \in Nat
      BY <3>1, RoundedDown DEF STEP_W
    <3> QED  BY <3>2 DEF Quantised, STEP_W
  <2>5. SigenApplied(c) \in Nat
    BY <2>2 DEF SigenApplied, Smaller
  <2>6. Amps(c.w) * VOLTAGE_V \in Nat
    <3>1. RoundDiv(c.w, VOLTAGE_V) \in Nat
      BY <2>2, RoundedDown DEF VOLTAGE_V
    <3> QED  BY <3>1 DEF Amps, Larger, VOLTAGE_V
  <2>v. VictronApplied(c) \in Nat
    BY <2>2 DEF VictronApplied, Smaller, MAX_SETPOINT_W
  <2>7. PICK w \in Nat : Told(a, c) = [c EXCEPT !.w = w]
    <3>1. CASE a = "sunspec"
      BY <1>4, <2>3, <3>1 DEF Told
    <3>2. CASE a = "deye"
      BY <1>4, <2>4, <3>2 DEF Told
    <3>3. CASE a = "sigenergy"
      BY <1>4, <2>5, <3>3 DEF Told
    <3>4. CASE a = "victron"
      BY <1>4, <2>6, <2>v, <3>4 DEF Told
    <3> QED  BY <3>1, <3>2, <3>3, <3>4, FourAdapters
  <2> QED  BY <2>1, <2>7
<1> QED
  BY <1>3, <1>4

\* A device whose effects are factory behaviour alone has its plan switched off.
LEMMA FactoryIsOff ==
    ASSUME NEW d, PlainEffects("deye", d) = {Factory}
    PROVE  d[Reg("TouEnable")] = 0
<1> SUFFICES ASSUME d[Reg("TouEnable")] # 0 PROVE FALSE
  OBVIOUS
<1>1. 1 \in 1..SLOTS
  BY AdaptersAssumption
<1>2. PICK e \in DeyeEffects(d) : e.kind \in {"foreign", "lock", "discharge"}
  <2>1. \A x : Command("foreign", x).kind = "foreign" /\ Command("discharge", x).kind = "discharge"
        /\ Lock.kind = "lock"
    BY DEF Command, Lock
  <2> QED  BY <1>1, <2>1 DEF DeyeEffects
<1>3. Plain("deye", e).kind \in {"foreign", "lock", "discharge"}
  BY <1>2 DEF Plain, Usual, Command, Lock
<1>4. Plain("deye", e) = Factory
  BY <1>2 DEF PlainEffects, EffectsOn
<1> QED
  BY <1>3, <1>4 DEF Factory, Command

-----------------------------------------------------------------------------
(***************************************************************************)
(* The invariant.  While no write is missing (faulty <= 1), the queue leads *)
(* the device where the rule wants it; when the cycle before was complete  *)
(* as well (faulty = 0), without a detour.                                 *)
(***************************************************************************)
Types ==
    /\ adapter \in ADAPTERS
    /\ device \in Contents(adapter)
    /\ item \in Contents(adapter)
    /\ queue \in Writes(adapter)
    /\ phase \in {"wait", "reset", "done"}
    /\ {wanted, before} \subseteq [kind : Kinds, w : Nat]
    /\ faulty \in 0..2
    /\ missed \in BOOLEAN
    /\ phase = "reset" => wanted = Factory

\* Where a path ends.
Arrives(path) ==
    LET end == path[Len(queue)]
    IN  /\ phase = "reset" => Released(adapter, end)
        /\ phase = "done" => Settled(adapter, end, wanted)
        /\ phase = "done" /\ missed /\ wanted # Factory => PlainEffects(adapter, end) = {Plain(adapter, wanted)}

\* What the device does along a path.
Straight(path) ==
    \A k \in 0..Len(queue) :
        PlainEffects(adapter, path[k]) \subseteq {Factory, Plain(adapter, before), Plain(adapter, wanted)}

Course ==
    faulty <= 1 =>
        /\ phase # "wait"
        /\ \E path : /\ Leads(adapter, device, queue, path)
                     /\ Arrives(path)
                     /\ faulty = 0 => Straight(path)

\* Between the reset and the command, the items of a Deye show its registers, up
\* to the switch of the plan; and if the cycle before lost its window to an item,
\* that one no longer shows the plan switched on.
DeyeItems ==
    adapter = "deye" /\ phase = "reset" /\ faulty <= 1 =>
        /\ ShownAsIs(adapter, item, device)
        /\ queue \in {<<>>, DeyeReset}
        /\ missed => queue = <<>> /\ item[Reg("TouEnable")] # 1

AdaptersInv == Types /\ Course /\ DeyeItems

\* The path of an empty queue.
LEMMA Standing ==
    ASSUME NEW a, NEW d, NEW path, Leads(a, d, <<>>, path)
    PROVE  path[0] = d /\ Len(<<>>) = 0
BY DEF Leads

LEMMA AdaptersStarts == Init => AdaptersInv
<1> SUFFICES ASSUME Init PROVE AdaptersInv
  OBVIOUS
<1>1. device \in Contents(adapter) /\ adapter \in ADAPTERS /\ item = device
  BY AdaptersAssumption DEF Init, Contents
<1>2. queue \in Writes(adapter)
  BY DEF Init, Writes
<1>3. Types
  <2>1. {wanted, before} \subseteq [kind : Kinds, w : Nat]
    BY DEF Init, Kinds, Factory, Command
  <2>2. phase = "wait" /\ faulty = 2 /\ missed \in BOOLEAN
    <3>1. missed \in BOOLEAN
      BY Zenon DEF Init
    <3> QED  BY <3>1 DEF Init
  <2>3. device \in Contents(adapter) /\ item \in Contents(adapter)
    BY <1>1, Zenon
  <2>4. adapter \in ADAPTERS
    BY <1>1
  <2>5. phase \in {"wait", "reset", "done"} /\ faulty \in 0..2 /\ missed \in BOOLEAN
        /\ (phase = "reset" => wanted = Factory)
    BY <2>2
  <2> QED  BY <1>2, <2>1, <2>3, <2>4, <2>5, Zenon DEF Types
<1>4. Course /\ DeyeItems
  BY DEF Init, Course, DeyeItems
<1> QED
  BY <1>3, <1>4 DEF AdaptersInv

LEMMA StartCycleKeeps ==
    ASSUME AdaptersInv, NEW polled \in BOOLEAN, StartCycle(polled)
    PROVE  AdaptersInv'
<1>1. /\ adapter' = adapter /\ device' = device /\ phase' = "reset" /\ phase # "reset" /\ queue = <<>>
      /\ before' = wanted /\ wanted' = Factory /\ adapter \in ADAPTERS
      /\ device \in Contents(adapter) /\ item' \in Contents(adapter)
      /\ item' = IF polled THEN device ELSE item
      /\ faulty' = IF polled THEN Larger(0, faulty - 1) ELSE 2
  BY DEF AdaptersInv, Types, StartCycle
<1>2. queue' = ResetFrom(adapter, item')
  <2>1. ResetOf(adapter)' = ResetFrom(adapter, item')
    BY <1>1 DEF ResetOf, ResetFrom, Differing, Unlike
  <2> QED  BY <2>1 DEF StartCycle
<1>3. faulty \in 0..2
  BY DEF AdaptersInv, Types
<1>4. Types'
  <2>1. queue' \in Writes(adapter)
    BY <1>1, <1>2, WritesFromType
  <2>2. faulty' \in 0..2
    BY <1>1, <1>3 DEF Larger
  <2>3. {wanted', before'} \subseteq [kind : Kinds, w : Nat]
    BY <1>1 DEF AdaptersInv, Types, Factory, Command, Kinds
  <2>4. missed' \in BOOLEAN
    BY DEF StartCycle
  <2> QED  BY <1>1, <2>1, <2>2, <2>3, <2>4 DEF Types
<1>5. ASSUME faulty' <= 1 PROVE Course' /\ DeyeItems'
  <2>1. polled /\ item' = device /\ (faulty' = 0 => faulty <= 1)
    BY <1>1, <1>3, <1>5 DEF Larger
  <2>2. Clears(adapter, device, queue')
    BY <1>1, <1>2, <2>1, ResetClears
  <2>3. PICK path : /\ Leads(adapter, device, queue', path)
                    /\ Released(adapter, path[Len(queue')])
                    /\ \A told : Settled(adapter, device, told) =>
                          \A k \in 0..Len(queue') :
                              PlainEffects(adapter, path[k]) \subseteq {Factory, Plain(adapter, told)}
    BY <2>2 DEF Clears
  <2>4. Arrives(path)'
    BY <1>1, <2>3 DEF Arrives
  <2>5. faulty' = 0 => Straight(path)'
    <3> SUFFICES ASSUME faulty' = 0 PROVE Straight(path)'
      OBVIOUS
    <3>1. phase = "done"
      BY <1>1, <2>1 DEF AdaptersInv, Types, Course
    <3>2. PICK old : Leads(adapter, device, queue, old) /\ Arrives(old)
      BY <2>1 DEF AdaptersInv, Course
    <3>3. old[Len(queue)] = device
      BY <1>1, <3>2, Standing
    <3>4. Settled(adapter, device, wanted)
      BY <3>1, <3>2, <3>3 DEF Arrives
    <3>5. \A k \in 0..Len(queue') : PlainEffects(adapter, path[k]) \subseteq {Factory, Plain(adapter, wanted)}
      BY <2>3, <3>4
    <3> QED  BY <1>1, <3>5 DEF Straight
  <2>6. Course'
    BY <1>1, <2>3, <2>4, <2>5 DEF Course
  <2>7. ASSUME adapter = "deye" PROVE DeyeItems'
    <3>1. queue' = IF device[Reg("TouEnable")] = 0 THEN <<>> ELSE DeyeReset
      BY <1>2, <2>1, <2>7, DeyeResetQueue DEF ResetFrom
    <3>2. missed' => device[Reg("TouEnable")] = 0
      <4>1. missed' => PlainEffects("deye", device) = {Factory}
        BY <2>7 DEF StartCycle, Effects
      <4> QED  BY <4>1, FactoryIsOff
    <3>3. ShownAsIs(adapter', item', device')
      BY <1>1, <2>1 DEF ShownAsIs
    <3> QED  BY <1>1, <2>1, <3>1, <3>2, <3>3 DEF DeyeItems
  <2> QED  BY <1>1, <2>6, <2>7 DEF DeyeItems
<1>6. CASE ~(faulty' <= 1)
  BY <1>4, <1>6 DEF AdaptersInv, Course, DeyeItems
<1> QED
  BY <1>4, <1>5, <1>6 DEF AdaptersInv

LEMMA RequestKeeps ==
    ASSUME AdaptersInv, NEW c \in Requests(adapter), NEW reading, Request(c, reading)
    PROVE  AdaptersInv'
<1>1. /\ adapter' = adapter /\ device' = device /\ item' = item /\ before' = before /\ faulty' = faulty
      /\ missed' = missed /\ phase = "reset" /\ phase' = "done" /\ wanted = Factory
      /\ adapter \in ADAPTERS /\ device \in Contents(adapter) /\ item \in Contents(adapter)
      /\ queue \in Writes(adapter) /\ faulty \in 0..2
  BY DEF AdaptersInv, Types, Request
<1>2. DeyeItems'
  BY <1>1 DEF DeyeItems
<1>3. CASE queue' = queue /\ wanted' = wanted
  <2>1. Types'
    BY <1>1, <1>3 DEF AdaptersInv, Types
  <2>2. ASSUME faulty <= 1 PROVE Course'
    <3>1. PICK path : /\ Leads(adapter, device, queue, path)
                      /\ Arrives(path)
                      /\ faulty = 0 => Straight(path)
      BY <2>2 DEF AdaptersInv, Course
    <3>2. Settled(adapter, path[Len(queue)], Factory)
      BY <1>1, <3>1, ReleasedEffect DEF Arrives
    <3>3. Arrives(path)'
      BY <1>1, <1>3, <3>2 DEF Arrives
    <3>4. faulty' = 0 => Straight(path)'
      BY <1>1, <1>3, <3>1 DEF Straight
    <3> QED  BY <1>1, <1>3, <3>1, <3>3, <3>4 DEF Course
  <2> QED  BY <1>1, <1>2, <2>1, <2>2 DEF AdaptersInv, Course
<1>4. CASE c # Factory /\ queue' = queue \o WritesOf(adapter, c) /\ wanted' = Told(adapter, c)
  <2> DEFINE more == WritesFrom(adapter, item, c)
             told == Told(adapter, c)
  <2>1. queue' = queue \o more
    BY <1>4 DEF WritesOf, WritesFrom, Differing, Unlike
  <2>2. more \in Writes(adapter) /\ c \in Requests(adapter) \ {Factory}
    BY <1>1, <1>4, WritesFromType
  <2>3. told \in [kind : Kinds, w : Nat]
    BY <1>1, ToldType
  <2>4. queue' \in Writes(adapter)
    <3> HIDE DEF more
    <3> QED  BY <1>1, <2>1, <2>2 DEF Writes
  <2>5. Types'
    BY <1>1, <1>4, <2>3, <2>4 DEF AdaptersInv, Types
  <2>6. ASSUME faulty <= 1 PROVE Course'
    <3>1. PICK path : /\ Leads(adapter, device, queue, path)
                      /\ Arrives(path)
                      /\ faulty = 0 => Straight(path)
      BY <2>6 DEF AdaptersInv, Course
    <3> DEFINE released == path[Len(queue)]
    <3>2. Released(adapter, released) /\ released \in Contents(adapter)
      <4>1. Len(queue) \in 0..Len(queue)
        BY <1>1 DEF Writes
      <4> QED  BY <1>1, <3>1, <4>1 DEF Arrives, Leads
    <3>3. ShownAsIs(adapter, item, released)
      <4> SUFFICES ASSUME adapter = "deye", NEW r \in Registers("deye") \ {Reg("TouEnable")}
                   PROVE  item[r] = released[r]
        BY DEF ShownAsIs
      <4>1. item[r] = device[r] /\ queue \in {<<>>, DeyeReset}
        BY <1>1, <2>6 DEF AdaptersInv, DeyeItems, ShownAsIs
      <4>2. CASE queue = <<>>
        <5>1. path[0] = device /\ Len(queue) = 0
          BY <3>1, <4>2, Standing
        <5> QED  BY <4>1, <5>1
      <4>3. CASE queue = DeyeReset
        <5>1. Len(queue) = 1 /\ queue[1][1] = Reg("TouEnable") /\ queue[1][2] = 0
          BY <4>3 DEF DeyeReset, Write
        <5>2. path[0] = device /\ path[1] = [path[1 - 1] EXCEPT ![queue[1][1]] = queue[1][2]]
          BY <3>1, <5>1 DEF Leads
        <5>3. path[1] = [device EXCEPT ![Reg("TouEnable")] = 0]
          BY <5>1, <5>2
        <5> QED  BY <1>1, <4>1, <5>1, <5>3 DEF Contents
      <4> QED  BY <4>1, <4>2, <4>3
    <3>4. missed => adapter # "deye" \/ item[Reg("TouEnable")] # 1
      BY <1>1, <2>6 DEF AdaptersInv, DeyeItems
    <3>5. Obeys(adapter, released, more, told, adapter # "deye" \/ item[Reg("TouEnable")] # 1)
      BY <1>1, <2>2, <3>2, <3>3, CommandObeys
    <3> HIDE DEF more, told
    <3>6. PICK next :
            /\ Leads(adapter, released, more, next)
            /\ Settled(adapter, next[Len(more)], told)
            /\ missed => PlainEffects(adapter, next[Len(more)]) = {Plain(adapter, told)}
            /\ \A k \in 0..Len(more) : PlainEffects(adapter, next[k]) \subseteq {Factory, Plain(adapter, told)}
      BY <3>4, <3>5 DEF Obeys
    <3>7. PICK both :
            /\ Len(queue') = Len(queue) + Len(more) /\ Leads(adapter, device, queue', both)
            /\ both[Len(queue) + Len(more)] = next[Len(more)]
            /\ \A k \in 0..(Len(queue) + Len(more)) :
                  both[k] = IF k <= Len(queue) THEN path[k] ELSE next[k - Len(queue)]
      <4> DEFINE b == [k \in 0..(Len(queue) + Len(more)) |->
                        IF k <= Len(queue) THEN path[k] ELSE next[k - Len(queue)]]
      <4>1. /\ Len(queue \o more) = Len(queue) + Len(more)
            /\ Leads(adapter, device, queue \o more, b)
            /\ b[Len(queue) + Len(more)] = next[Len(more)]
        BY <1>1, <2>2, <3>1, <3>6, Joined
      <4>2. \A k \in 0..(Len(queue) + Len(more)) :
                b[k] = IF k <= Len(queue) THEN path[k] ELSE next[k - Len(queue)]
        OBVIOUS
      <4> HIDE DEF b
      <4> QED  BY <2>1, <4>1, <4>2 DEF more
    <3>9. Arrives(both)'
      BY <1>1, <1>4, <3>6, <3>7 DEF Arrives, told
    <3>10. ASSUME faulty = 0, NEW k \in 0..(Len(queue) + Len(more))
           PROVE  PlainEffects(adapter, both[k])
                   \subseteq {Factory, Plain(adapter, before), Plain(adapter, told)}
      <4>1. Len(queue) \in Nat /\ Len(more) \in Nat
        BY <1>1, <2>2 DEF Writes
      <4>2. CASE k <= Len(queue)
        <5>1. k \in 0..Len(queue) /\ both[k] = path[k]
          BY <3>7, <4>1, <4>2
        <5>2. PlainEffects(adapter, path[k])
                  \subseteq {Factory, Plain(adapter, before), Plain(adapter, wanted)}
          BY <3>1, <3>10, <5>1 DEF Straight
        <5> QED  BY <1>1, <5>1, <5>2, FactoryIsPlain
      <4>3. CASE ~(k <= Len(queue))
        <5>1. k - Len(queue) \in 0..Len(more) /\ both[k] = next[k - Len(queue)]
          BY <3>7, <4>1, <4>3
        <5> QED  BY <3>6, <5>1
      <4> QED  BY <4>2, <4>3
    <3>11. faulty' = 0 => Straight(both)'
      BY <1>1, <1>4, <3>7, <3>10 DEF Straight, told
    <3> QED  BY <1>1, <3>7, <3>9, <3>11 DEF Course
  <2> QED  BY <1>1, <1>2, <2>5, <2>6 DEF AdaptersInv, Course
<1> QED
  BY <1>3, <1>4 DEF Request

LEMMA LandKeeps ==
    ASSUME AdaptersInv, Land
    PROVE  AdaptersInv'
<1>1. /\ adapter' = adapter /\ item' = item /\ phase' = phase /\ wanted' = wanted /\ before' = before
      /\ faulty' = faulty /\ missed' = missed /\ queue # <<>> /\ queue' = Tail(queue)
      /\ device' = [device EXCEPT ![Head(queue)[1]] = Head(queue)[2]]
      /\ device \in Contents(adapter) /\ queue \in Writes(adapter)
  BY DEF AdaptersInv, Types, Land
<1>2. queue' \in Writes(adapter) /\ device' \in Contents(adapter)
  <2>1. /\ Head(queue)[1] \in Registers(adapter) /\ Head(queue)[2] \in Int /\ Tail(queue) \in Writes(adapter)
    BY <1>1 DEF Writes
  <2> QED  BY <1>1, <2>1 DEF Contents
<1>3. Types'
  BY <1>1, <1>2 DEF AdaptersInv, Types
<1>4. ASSUME faulty <= 1 PROVE Course'
  <2>1. PICK path : /\ Leads(adapter, device, queue, path)
                    /\ Arrives(path)
                    /\ faulty = 0 => Straight(path)
    BY <1>4 DEF AdaptersInv, Course
  <2>2. PICK rest :
          /\ Len(queue') = Len(queue) - 1 /\ Leads(adapter, device', queue', rest)
          /\ rest[Len(queue) - 1] = path[Len(queue)]
          /\ \A k \in 0..(Len(queue) - 1) : rest[k] = path[k + 1]
    <3>1. queue \in Writes(adapter) /\ queue # <<>> /\ Leads(adapter, device, queue, path)
      BY <1>1, <2>1
    <3>2. \E rest : /\ Len(Tail(queue)) = Len(queue) - 1
                    /\ Leads(adapter, [device EXCEPT ![Head(queue)[1]] = Head(queue)[2]], Tail(queue), rest)
                    /\ rest[Len(queue) - 1] = path[Len(queue)]
                    /\ \A k \in 0..(Len(queue) - 1) : rest[k] = path[k + 1]
      BY <3>1, Landed
    <3> QED  BY <1>1, <3>2
  <2>3. \A k \in 0..Len(queue') : k + 1 \in 0..Len(queue) /\ rest[k] = path[k + 1]
    <3>1. Len(queue) \in Nat
      BY <1>1 DEF Writes
    <3> QED  BY <2>2, <3>1
  <2>4. Arrives(rest)'
    BY <1>1, <2>1, <2>2 DEF Arrives
  <2>5. faulty' = 0 => Straight(rest)'
    BY <1>1, <2>1, <2>3 DEF Straight
  <2>6. phase # "wait"
    BY <1>4 DEF AdaptersInv, Course
  <2> QED  BY <1>1, <2>2, <2>4, <2>5, <2>6 DEF Course
<1>5. ASSUME adapter = "deye", phase = "reset", faulty <= 1 PROVE DeyeItems'
  <2>1. queue = DeyeReset /\ ShownAsIs(adapter, item, device) /\ ~missed
    BY <1>1, <1>5 DEF AdaptersInv, DeyeItems, Types
  <2>2. queue' = <<>> /\ device' = [device EXCEPT ![Reg("TouEnable")] = 0]
    <3>1. Tail(DeyeReset) = <<>> /\ Head(DeyeReset)[1] = Reg("TouEnable") /\ Head(DeyeReset)[2] = 0
      BY DEF DeyeReset, Write
    <3> QED  BY <1>1, <2>1, <3>1
  <2>3. ShownAsIs(adapter, item, device')
    BY <1>1, <1>5, <2>1, <2>2 DEF ShownAsIs, Contents
  <2> QED  BY <1>1, <2>1, <2>2, <2>3 DEF DeyeItems
<1> QED
  BY <1>1, <1>3, <1>4, <1>5 DEF AdaptersInv, Course, DeyeItems

\* Whatever else may happen to a queue, the flaw is known.
LEMMA LossKeeps ==
    ASSUME AdaptersInv, Lose \/ Outage
    PROVE  AdaptersInv'
<1>1. /\ adapter' = adapter /\ device' = device /\ item' = item /\ phase' = phase /\ wanted' = wanted
      /\ before' = before /\ missed' = missed /\ faulty' = 2 /\ queue' \in {Tail(queue), <<>>}
      /\ queue # <<>> /\ queue \in Writes(adapter)
  BY DEF AdaptersInv, Types, Lose, Outage
<1>2. queue' \in Writes(adapter)
  <2> DEFINE S == Registers(adapter) \X Int
  <2>1. queue \in Seq(S)
    BY <1>1 DEF Writes
  <2> HIDE DEF S
  <2>2. Tail(queue) \in Seq(S) /\ <<>> \in Seq(S)
    BY <1>1, <2>1
  <2> QED  BY <1>1, <2>2 DEF S, Writes
<1>3. Types'
  BY <1>1, <1>2 DEF AdaptersInv, Types
<1> QED
  BY <1>1, <1>3 DEF AdaptersInv, Course, DeyeItems

LEMMA ItemsKeep ==
    ASSUME AdaptersInv, Predict \/ Poll
    PROVE  AdaptersInv'
<1>1. /\ adapter = "deye" /\ UNCHANGED <<adapter, device, queue, phase, wanted, before, faulty, missed>>
      /\ device \in Contents(adapter) /\ item \in Contents(adapter) /\ queue \in Writes(adapter)
  BY DEF AdaptersInv, Types, Predict, Poll
<1>2. Course'
  BY <1>1 DEF AdaptersInv, Course, Arrives, Straight
<1>3. CASE Poll
  <2>1. item' = device
    BY <1>3 DEF Poll
  <2>2. Types'
    BY <1>1, <2>1 DEF AdaptersInv, Types
  <2>3. ASSUME phase = "reset", faulty <= 1 PROVE DeyeItems'
    <3>1. ShownAsIs(adapter, item', device)
      BY <2>1 DEF ShownAsIs
    <3>2. queue \in {<<>>, DeyeReset} /\ (missed => queue = <<>>)
      BY <1>1, <2>3 DEF AdaptersInv, DeyeItems
    <3>3. missed => device[Reg("TouEnable")] = 0
      <4>1. PICK path : Leads(adapter, device, queue, path) /\ Arrives(path)
        BY <2>3 DEF AdaptersInv, Course
      <4>2. queue = <<>> => path[Len(queue)] = device
        BY <4>1, Standing
      <4> QED  BY <1>1, <2>3, <3>2, <4>1, <4>2 DEF Arrives, Released
    <3> QED  BY <1>1, <2>1, <3>1, <3>2, <3>3 DEF DeyeItems
  <2> QED  BY <1>1, <1>2, <2>2, <2>3 DEF AdaptersInv, DeyeItems
<1>4. CASE Predict
  <2> DEFINE sent(r) == {k \in DOMAIN queue : queue[k][1] = r}
             first(r) == CHOOSE k \in sent(r) : \A m \in sent(r) : m <= k
  <2>1. item' = [r \in Registers(adapter) |-> IF sent(r) = {} THEN item[r] ELSE queue[first(r)][2]]
    BY <1>1, <1>4 DEF Predict, Contents
  <2>2. \A r : sent(r) # {} => first(r) \in sent(r)
    <3> TAKE r
    <3> SUFFICES ASSUME sent(r) # {} PROVE first(r) \in sent(r)
      OBVIOUS
    <3>1. sent(r) \in SUBSET Int /\ \A k \in sent(r) : k <= Len(queue)
      BY <1>1 DEF Writes
    <3>2. Len(queue) \in Int
      BY <1>1 DEF Writes
    <3> HIDE DEF sent
    <3>3. \E k \in sent(r) : \A m \in sent(r) : m <= k
      <4>1. Max(sent(r)) \in sent(r) /\ \A m \in sent(r) : m <= Max(sent(r))
        BY <3>1, <3>2, MaxFact
      <4> QED  BY <4>1
    <3> QED  BY <3>3
  <2>3. item' \in Contents(adapter)
    <3>1. \A k \in DOMAIN queue : queue[k][2] \in Int
      BY <1>1 DEF Writes
    <3>2. \A r : sent(r) # {} => queue[first(r)][2] \in Int
      <4> TAKE r
      <4>1. sent(r) # {} => first(r) \in DOMAIN queue
        BY <2>2
      <4> HIDE DEF first, sent
      <4> QED  BY <3>1, <4>1
    <3> HIDE DEF first, sent
    <3> QED  BY <1>1, <2>1, <3>2 DEF Contents
  <2>4. Types'
    BY <1>1, <2>3 DEF AdaptersInv, Types
  <2>5. ASSUME phase = "reset", faulty <= 1 PROVE DeyeItems'
    <3>1. queue = DeyeReset /\ ShownAsIs(adapter, item, device) /\ ~missed
      BY <1>1, <1>4, <2>5 DEF AdaptersInv, DeyeItems, Types, Predict
    <3>2. \A r \in Registers("deye") \ {Reg("TouEnable")} : sent(r) = {}
      BY <3>1 DEF DeyeReset, Write
    <3>3. ShownAsIs(adapter, item', device)
      <4>1. \A r \in Registers("deye") \ {Reg("TouEnable")} : item'[r] = item[r]
        <5> HIDE DEF first, sent
        <5> QED  BY <1>1, <2>1, <3>2
      <4> QED  BY <3>1, <4>1 DEF ShownAsIs
    <3> QED  BY <1>1, <3>1, <3>3 DEF DeyeItems
  <2> QED  BY <1>1, <1>2, <2>4, <2>5 DEF AdaptersInv, DeyeItems
<1> QED
  BY <1>3, <1>4

THEOREM AdaptersInvariant == Spec => []AdaptersInv
<1>1. ASSUME AdaptersInv, [Next]_vars PROVE AdaptersInv'
  <2>1. ASSUME NEW polled \in BOOLEAN, StartCycle(polled) PROVE AdaptersInv'
    BY <1>1, <2>1, StartCycleKeeps
  <2>2. ASSUME NEW c \in Requests(adapter), NEW r \in READINGS[adapter], Request(c, r) PROVE AdaptersInv'
    BY <1>1, <2>2, RequestKeeps
  <2>3. CASE Land
    BY <1>1, <2>3, LandKeeps
  <2>4. CASE Lose \/ Outage
    BY <1>1, <2>4, LossKeeps
  <2>5. CASE Predict \/ Poll
    BY <1>1, <2>5, ItemsKeep
  <2>6. CASE UNCHANGED vars
    BY <1>1, <2>6 DEF vars, AdaptersInv, Types, Course, Arrives, Straight, DeyeItems
  <2> QED  BY <1>1, <2>1, <2>2, <2>3, <2>4, <2>5, <2>6 DEF Next
<1> QED
  BY <1>1, AdaptersStarts, PTL DEF Spec

\* Where nothing waits, the path is the device as it stands.
LEMMA AtRest ==
    ASSUME AdaptersInv, faulty <= 1, CycleOver
    PROVE  /\ Settled(adapter, device, wanted)
           /\ missed /\ wanted # Factory => Effects = {Plain(adapter, wanted)}
<1>1. PICK path : Leads(adapter, device, queue, path) /\ Arrives(path)
  BY DEF AdaptersInv, Course
<1>2. path[Len(queue)] = device
  BY <1>1, Standing DEF CycleOver
<1> QED
  BY <1>1, <1>2 DEF Arrives, CycleOver, Effects

-----------------------------------------------------------------------------
\* Registers hold numbers, the queue writes them, and the powers the core is told
\* are natural numbers.
THEOREM TypeCorrect == Spec => []TypeOK
<1>1. AdaptersInv => TypeOK
  <2> SUFFICES ASSUME AdaptersInv PROVE TypeOK
    OBVIOUS
  <2>1. \A k \in DOMAIN queue : queue[k][1] \in Registers(adapter)
    BY DEF AdaptersInv, Types, Writes
  <2> QED  BY <2>1 DEF AdaptersInv, Types, TypeOK, Contents, Kinds
<1> QED
  BY <1>1, AdaptersInvariant, PTL

\* A cycle none of whose writes is lost ends with the inverter doing what the
\* adapter told the core, with every profile, power and earlier register content.
THEOREM EndsAsTold == Spec => []CycleEndsAsTold
<1>1. AdaptersInv => CycleEndsAsTold
  BY AtRest DEF CycleEndsAsTold, Settled, Effects
<1> QED
  BY <1>1, AdaptersInvariant, PTL

\* While the writes of a cycle arrive, the inverter is at factory behaviour or does
\* what this cycle or the one before commanded, never a third thing.
THEOREM NothingThird == Spec => []NoDetour
<1>1. AdaptersInv => NoDetour
  <2> SUFFICES ASSUME AdaptersInv, faulty = 0
               PROVE  Effects \subseteq {Factory, Plain(adapter, before), Plain(adapter, wanted)}
    BY DEF NoDetour
  <2>1. PICK path : Leads(adapter, device, queue, path) /\ Straight(path)
    BY DEF AdaptersInv, Course
  <2>2. 0 \in 0..Len(queue) /\ path[0] = device
    BY <2>1 DEF AdaptersInv, Types, Writes, Leads
  <2> QED  BY <2>1, <2>2 DEF Straight, Effects
<1> QED
  BY <1>1, AdaptersInvariant, PTL

\* After a cycle that lost its window to a stale item, the next one that asks for a
\* window gets it.
THEOREM WindowsHold == Spec => []WindowTakesHold
<1>1. AdaptersInv => WindowTakesHold
  BY AtRest DEF WindowTakesHold
<1> QED
  BY <1>1, AdaptersInvariant, PTL

=============================================================================
