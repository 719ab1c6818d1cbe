---------------------------- MODULE ChannelLayout ----------------------------
(***************************************************************************)
(* How the lines of a capture are named: the capture width, the byte       *)
(* groups that --analog-groups asks for, the layout that LAYOUT? and       *)
(* CHANS? report, and the byte and bit that a channel name stands for when *)
(* a trigger names it.  A name is its letter and its number; a token of    *)
(* the option is its prefix and its number, None where it has none.        *)
(***************************************************************************)
EXTENDS Naturals, FiniteSets

CONSTANT None

MainWidths == {8, 16, 32}

\* The capture width, or None where main or open gives up.
Width(max_channels, hw_logic_count) ==
  LET w == IF max_channels = None THEN hw_logic_count ELSE max_channels
  IN IF (max_channels # None => max_channels \in MainWidths) /\ w > 0 /\ w % 8 = 0
       THEN w ELSE None

\* One leading A or a is taken off; what then is no number is skipped.
AnalogGroups(spec) == {t.index : t \in {u \in spec : u.prefix \in {"A", "a", ""} /\ u.index # None}}

\* Variant: a digital group is named after its number.
NameByGroup(g, analog) == IF analog THEN <<"A", g>> ELSE <<"D", g>>

Name(g, analog) == IF analog THEN <<"A", g>> ELSE <<"D", 8 * g>>

Groups(width) == 0 .. (width \div 8) - 1

Layout(width, analog) ==
  [g \in Groups(width) |-> [analog |-> g \in analog, byte_offset |-> g,
                            name |-> Name(g, g \in analog)]]

AnalogCount(layout)  == Cardinality({g \in DOMAIN layout : layout[g].analog})
DigitalCount(layout) == 8 * Cardinality({g \in DOMAIN layout : ~layout[g].analog})

\* The byte of a sample, and the bit of it, that the trigger scan looks at.
ScannedByte(name) == IF name[1] = "A" THEN name[2] ELSE name[2] \div 8
ScannedBit(name)  == IF name[1] = "A" THEN None ELSE name[2] % 8
=============================================================================
