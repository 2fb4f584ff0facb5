---------------------------- MODULE MCAttributes ----------------------------
(***************************************************************************)
(* Every register of the tables, one group at a time: the output commands  *)
(* with the registers their state is read back from, the analog input      *)
(* modes with the enable bits, the watchdog mode with the SD switch, every *)
(* other register by itself.  The MCU starts with all bits clear or all    *)
(* bits set.                                                               *)
(***************************************************************************)
EXTENDS Attributes

MCLinked == {{84, 85}, {89, 90}, {69, 70}, {29, 32}}
MCGroups ==
  MCLinked \cup {{r} : r \in {Specs(a).reg : a \in Attrs} \ UNION MCLinked}

MCModes == DOMAIN AvMode \cup DOMAIN AiMode \cup DOMAIN AtMode
MCStored ==
  (Attrs \ (MCModes \cup {<<"analog_in", "enabled">>}))
    \cup {<<"analog_in", "av_mode", 4>>, <<"analog_in", "ai_mode", 1>>,
          <<"analog_in", "at_mode", 1>>}

MCContents == {{}, Word16}
MCUnexpected == {-1, 2, 65535, 65537}
=============================================================================
