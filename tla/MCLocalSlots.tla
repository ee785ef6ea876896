---------------------------- MODULE MCLocalSlots ----------------------------
EXTENDS LocalSlots

CONSTANTS a, b, c

MCSlots == {a, b, c}
MCOrder == <<a, b, c, Legacy>>
MCSlot == {a}
MCOrderOfOne == <<a, Legacy>>
=============================================================================
