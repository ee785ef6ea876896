--------------------------- MODULE MCDesktopLocks ---------------------------
EXTENDS LockOrder

CONSTANTS a, b

(* The programs of the desktop, for the constants of LockOrder. *)
Desk == INSTANCE DesktopLocks WITH SlotOrder <- <<a, b>>
MCReservation == Desk!LocalControl
MCLocks == Desk!Mutexes
MCRank == Desk!RankOf
MCProgram == Desk!ProgramOf
MCCommands == Desk!AllCommands
MCUnordered == Desk!OutOfOrder
=============================================================================
