----------------------------- MODULE AttrTables -----------------------------
(***************************************************************************)
(* The register tables of src/module.c: which bits of which MCU register   *)
(* each I2C attribute is.  A register, a mask and a value are sets of bit  *)
(* positions; an attribute is named <<device, file>>.                      *)
(*                                                                         *)
(* An entry gives what the show function reads (reg, mask, shift, sign and *)
(* vals), what the store function writes (storeReg, storeMask, storeShift, *)
(* masked, storeVals: the regSpecsStore of the code when it has one), the  *)
(* pair of functions that convert the text (codec), and the texts the      *)
(* README documents for it.                                                *)
(***************************************************************************)
EXTENDS Integers, Sequences, FiniteSets, FiniteSetsExt, TLC

Word16 == 0 .. 15
Ones(width) == 0 .. (width - 1)

BitsOf(n) == {i \in 0 .. 23 : (n \div 2^i) % 2 = 1}
NumOf(bits) == MapThenSumSet(LAMBDA i : 2^i, bits)

\* Texts of an enumerated attribute, by index; a numeric text is the number.
Digits == <<>>
ValsOutput == <<0, 1, "F", "S">>
ValsWatchdogMode == <<"D", "A">>
ValsDownMode == <<"I", "A">>
ValsUpMode == <<"M", "A">>
ValsRouting == <<"A", "B">>
ValsAnalogOutMode == <<"I", "V">>

Entry(codec, reg, mask, shift, vals, documented) ==
  [codec |-> codec, reg |-> reg, mask |-> mask, shift |-> shift,
   sign |-> FALSE, vals |-> vals,
   storeReg |-> reg, storeMask |-> mask, storeShift |-> shift,
   masked |-> FALSE, storeVals |-> vals, documented |-> documented]

Switch == {0, 1}
ReadOnly == {}

Flag(reg, shift) == Entry("plain", reg, Ones(1), shift, Digits, Switch)
Choice(reg, shift, vals) ==
  Entry("plain", reg, Ones(1), shift, vals, {vals[i] : i \in DOMAIN vals})
Whole(reg, documented) == Entry("plain", reg, Ones(16), 0, Digits, documented)
Status(reg, width, shift) == Entry("plain", reg, Ones(width), shift, Digits, ReadOnly)

\* Words used as samples of the wide parameters.
Level == {0, 1, 255}
Seconds == {0, 1, 65535}

-----------------------------------------------------------------------------
Led ==
  LET channel == <<"r", "g", "b", "br">>
  IN  [k \in {<<"led", n, channel[c]>> : n \in 1 .. 5, c \in 1 .. 4} |->
         LET c == CHOOSE i \in 1 .. 4 : channel[i] = k[3]
         IN  Whole(99 + 5 * k[2] + c, Level)]

AnalogInSetup ==
  [k \in {<<"analog_in", "enabled">>, <<"analog_in", "hsf">>} |->
     Flag(69, IF k[2] = "enabled" THEN 0 ELSE 1)]

AvMode == [k \in {<<"analog_in", "av_mode", n>> : n \in 1 .. 4} |->
             Entry("ax", 69, Ones(1), 3 + k[3], Digits, {"0", "U", "B"})]
AiMode == [k \in {<<"analog_in", "ai_mode", n>> : n \in 1 .. 4} |->
             Entry("ax", 69, Ones(1), 7 + k[3], Digits, {"0", "U", "B"})]
AtMode == [k \in {<<"analog_in", "at_mode", n>> : n \in 1 .. 2} |->
             Entry("plain", 69, Ones(2), 10 + 2 * k[3], Digits, {0, 1, 2})]

\* Three byte signed readings.
Reading(reg) == [Entry("plain", reg, 0 .. 23, 0, Digits, ReadOnly) EXCEPT !.sign = TRUE]
AvValue == [k \in {<<"analog_in", "av", n>> : n \in 1 .. 4} |-> Reading(70 + k[3])]
AiValue == [k \in {<<"analog_in", "ai", n>> : n \in 1 .. 4} |-> Reading(74 + k[3])]
AtValue == [k \in {<<"analog_in", "at", n>> : n \in 1 .. 2} |-> Reading(78 + k[3])]

\* Outputs are commanded in one, masked, register and read back in another.
Output(command, status, n) ==
  [Entry("plain", status, Ones(2), 2 * (n - 1), ValsOutput, Switch)
     EXCEPT !.storeReg = command, !.storeMask = Ones(1), !.storeShift = n - 1,
            !.masked = TRUE, !.storeVals = Digits]
Relay == [k \in {<<"digital_out", "o", n>> : n \in 1 .. 4} |-> Output(84, 85, k[3])]
OpenCollector ==
  [k \in {<<"digital_out", "oc", n>> : n \in 1 .. 4} |-> Output(89, 90, k[3])]
OcPwm ==
  LET what == <<"freq", "duty", "cycles">>
  IN  [k \in {<<"digital_out", what[w], n>> : w \in 1 .. 3, n \in 1 .. 4} |->
         LET w == CHOOSE i \in 1 .. 3 : what[i] = k[2]
         IN  Whole(52 + 3 * k[3] + w, Level)]
Pulldown == [k \in {<<"digital_out", "pdc">>} |-> Flag(137, 4)]

PowerIn == [k \in {<<"power_in", "mon_v">>, <<"power_in", "mon_i">>} |->
              Status(IF k[2] = "mon_v" THEN 145 ELSE 146, 16, 0)]
SysTemp == [k \in {<<"sys_temp", "top">>, <<"sys_temp", "bottom">>} |->
              [Status(IF k[2] = "top" THEN 155 ELSE 156, 16, 0) EXCEPT !.sign = TRUE]]

Watchdog ==
  LET file == <<"enable_mode", "timeout", "down_delay", "sd_switch">>
  IN  [k \in {<<"watchdog", file[i]>> : i \in 1 .. 4} |->
         IF k[2] = "enable_mode"
           THEN Entry("plain", 29, Ones(16), 0, ValsWatchdogMode, {"D", "A"})
           ELSE Whole(28 + (CHOOSE i \in 1 .. 4 : file[i] = k[2]), Seconds)]

PowerMode ==
  [k \in {<<"power", f>> : f \in {"down_enable_mode", "up_mode", "sd_switch"}} |->
     CASE k[2] = "down_enable_mode" -> Choice(36, 0, ValsDownMode)
       [] k[2] = "up_mode" -> Choice(36, 1, ValsUpMode)
       [] k[2] = "sd_switch" -> Flag(36, 2)]
PowerTime ==
  LET file == <<"down_delay", "off_time", "up_delay">>
  IN  [k \in {<<"power", file[i]>> : i \in 1 .. 3} |->
         Whole(36 + (CHOOSE i \in 1 .. 3 : file[i] = k[2]), Seconds)]

UpsSetup ==
  LET file == <<"battery_capacity", "battery_i_max", "power_delay">>
  IN  [k \in {<<"ups", "enabled">>, <<"ups", "battery_v">>}
             \cup {<<"ups", file[i]>> : i \in 1 .. 3} |->
         CASE k[2] = "enabled" -> Flag(43, 0)
           [] k[2] = "battery_v" ->
                Entry("batteryV", 43, Ones(1), 1, Digits, {12000, 24000})
           [] OTHER -> Whole(43 + (CHOOSE i \in 1 .. 3 : file[i] = k[2]), Seconds)]
UpsStatus ==
  [k \in {<<"ups", f>> : f \in {"battery", "battery_charge", "status",
                                "charger_mon_v", "charger_mon_i"}} |->
     CASE k[2] = "battery" -> Status(48, 1, 7)
       [] k[2] = "battery_charge" -> Status(48, 8, 8)
       [] k[2] = "status" -> Status(48, 4, 0)
       [] k[2] = "charger_mon_v" -> Status(147, 16, 0)
       [] k[2] = "charger_mon_i" -> Status(148, 16, 0)]

\* Two bits a byte apart: the state, and that it lasts until the next power
\* cycle only.
Sd ==
  [k \in {<<"sd", f>> : f \in {"sdx_enabled", "sd1_enabled", "sdx_default",
                               "sdx_routing"}} |->
     CASE k[2] = "sdx_enabled" -> Entry("sd", 52, {0, 8}, 0, Digits, {0, 1, 2})
       [] k[2] = "sd1_enabled" -> Entry("sd", 52, {0, 8}, 1, Digits, {0, 1, 2})
       [] k[2] = "sdx_default" -> Choice(52, 2, ValsRouting)
       [] k[2] = "sdx_routing" -> Choice(52, 3, ValsRouting)]

AnalogOut ==
  [k \in {<<"analog_out", f, n>> : f \in {"enabled", "mode", "value", "err"}, n \in 1 .. 2} |->
     LET base == 89 + 5 * k[3]
     IN  CASE k[2] = "enabled" -> Flag(base, 0)
           [] k[2] = "mode" -> Choice(base, 1, ValsAnalogOutMode)
           [] k[2] = "value" -> Whole(base + 1, Level)
           [] k[2] = "err" -> Status(base + 2, 3, 0)]

PowerOut ==
  [k \in {<<"power_out", f>> : f \in {"vso_enabled", "vso", "vso_mon_v", "vso_mon_i",
                                      "5vo_enabled"}} |->
     CASE k[2] = "vso_enabled" -> Whole(132, Switch)
       [] k[2] = "vso" -> Whole(133, {11500, 24500})
       [] k[2] = "vso_mon_v" -> Status(149, 16, 0)
       [] k[2] = "vso_mon_i" -> Status(150, 16, 0)
       [] k[2] = "5vo_enabled" -> Flag(137, 1)]

Fan == [k \in {<<"fan", "always_on">>, <<"fan", "status">>} |->
          IF k[2] = "always_on" THEN Flag(137, 0) ELSE Status(140, 1, 0)]
ExpBus ==
  [k \in {<<"expbus", f>> : f \in {"enabled", "aux", "5vx"}} |->
     CASE k[2] = "enabled" -> Flag(137, 3)
       [] k[2] = "5vx" -> Flag(137, 2)
       [] k[2] = "aux" -> Status(140, 1, 3)]

SysState ==
  LET flag == <<"fan_status", "5vo_prot", "5vx_prot", "expbus_aux", "vso_prot",
                "ao1_prot", "ao2_prot", "vso_err", "ad4112_err", "ups_err", "led_err",
                "sys_temp_err", "rs232_err", "rs485_err">>
  IN  [k \in {<<"sys_state", "status_all">>}
             \cup {<<"sys_state", flag[i]>> : i \in DOMAIN flag} |->
         IF k[2] = "status_all" THEN Status(140, 16, 0)
           ELSE Status(140, 1, (CHOOSE i \in DOMAIN flag : flag[i] = k[2]) - 1)]

\* The parameters of the automatic transmit-enable line: baud rate (the ends
\* of the list), data bits, parity and stop bits.
Frame == {1200, 115200} \X {7, 8} \X {"N", "O", "E"} \X {1, 2}
SerialPort ==
  [k \in {<<"serial", "rs232_rs485_inv">>, <<"serial", "rs485_txe">>} |->
     IF k[2] = "rs485_txe" THEN Flag(27, 0)
       ELSE Entry("serial", 26, Ones(16), 0, Digits, {<<0>>, <<1>>} \cup Frame)]

\* devices[]
Devices ==
  [led |-> Led,
   analog_in |-> AnalogInSetup @@ AvMode @@ AiMode @@ AtMode @@ AvValue @@ AiValue @@ AtValue,
   digital_out |-> Relay @@ OpenCollector @@ OcPwm @@ Pulldown,
   power_in |-> PowerIn, sys_temp |-> SysTemp, watchdog |-> Watchdog,
   power |-> PowerMode @@ PowerTime, ups |-> UpsSetup @@ UpsStatus, sd |-> Sd,
   analog_out |-> AnalogOut, power_out |-> PowerOut, fan |-> Fan, expbus |-> ExpBus,
   sys_state |-> SysState, serial |-> SerialPort]

Attrs == UNION {DOMAIN Devices[d] : d \in DOMAIN Devices}
Specs(a) == Devices[a[1]][a]
=============================================================================
