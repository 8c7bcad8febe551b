-------------------------------- MODULE Days ---------------------------------
(***************************************************************************)
(* Days and slots, as the rewards endpoints count them. Days are numbered  *)
(* and DayLen slots long. Midnight falls inside a slot: on mainnet the     *)
(* slot of 23:59:59 is also the slot of the next 00:00:00 (conftest.py,    *)
(* 19: the initial balance of April 12 is that of slot 6_202_798,          *)
(* "Apr-11-2023 23:59:59 UTC").                                            *)
(***************************************************************************)
EXTENDS Integers, FiniteSetsExt

CONSTANTS
    DayLen,     \* slots per day (7200)
    Today       \* number of the current day; the days before are over

ASSUME DaysAssumption == DayLen \in Nat \ {0} /\ Today \in Nat \ {0}

\* BeaconNode.slot_for_datetime at 00:00:00 and at 23:59:59 of a day.
StartSlot(day) == DayLen * day
EodSlot_SameMidnight(day) == StartSlot(day)
EodSlot(day) == DayLen * (day + 1)

\* BeaconNode.datetime_for_slot(slot).date(): slot StartSlot(d) begins at
\* 23:59:59 of the day before.
DateOf(slot) == (slot - 1) \div DayLen

Slots == 0 .. StartSlot(Today)

\* What a function of some set adds up to over S.
SumOver(f, S) == MapThenSumSet(LAMBDA s : f[s], S)

\* The end of a request is capped at yesterday.
CappedEnd(end) == IF end > Today - 1 THEN Today - 1 ELSE end
=============================================================================
