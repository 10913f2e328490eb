----------------------------- MODULE MCAdapters -----------------------------
(* All four Modbus profiles in one instance: every one starts with the     *)
(* registers of an earlier owner, at no power, below a percent or a step,  *)
(* and above the maximum of every device.                                  *)
EXTENDS Adapters

MCWatts == {0, 49, 40000}

MCRemembered == [setpoint |-> SETPOINT_W, amps |-> UNLIMITED_A]

\* One plausible reading and one of the wrong device for each profile.
MCReadings == [a \in ADAPTERS |->
    CASE a = "sunspec"   -> {[model |-> 124, max |-> 2350], [model |-> 103, max |-> 2350]}
      [] a = "deye"      -> {[mode |-> 0, tou |-> 255], [mode |-> 3, tou |-> 0]}
      [] a = "sigenergy" -> {[ems |-> 7, rated |-> 2350], [ems |-> 7, rated |-> 0]}
      [] a = "victron"   -> {[ess |-> 1, soc |-> 80, life |-> 9], [ess |-> 2, soc |-> 80, life |-> 2],
                             [ess |-> 3, soc |-> 80, life |-> 2]}]

Regs(a, value(_)) == [r \in Registers(a) |-> value(r[1])]

MCLeftover == [a \in ADAPTERS |->
    CASE a = "sunspec" ->
           {Regs(a, LAMBDA n : CASE n = "InWRte" -> i [] n = "OutWRte" -> 3000 [] n = "StorCtl" -> c) :
              i \in {10000, -5000}, c \in {0, 3}}
      [] a = "deye" ->
           {Regs(a, LAMBDA n : CASE n = "SellW" -> 700 [] n = "SellSoc" -> 50
                                 [] n = "SellFlag" -> 1 [] n = "TouEnable" -> t) : t \in {0, 255}}
      [] a = "sigenergy" ->
           {Regs(a, LAMBDA n : CASE n = "RemoteEnable" -> e [] n = "RemoteMode" -> m
                                 [] n = "DischargeLimitW" -> 700 [] n = "PvLimitW" -> 10) :
              e \in {0, 1}, m \in {3, 6}}
      [] a = "victron" ->
           {Regs(a, LAMBDA n : CASE n = "GridSetpointW" -> s [] n = "MaxChargeA" -> 0) :
              s \in {50, -700}}]

=============================================================================
