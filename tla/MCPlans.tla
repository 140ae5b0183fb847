------------------------------ MODULE MCPlans ------------------------------
EXTENDS Plans

\* Months of three, two and three days.
Calendar == <<1, 4, 6, 9>>

Monthly == [unit |-> "MONTH", count |-> 1]
Daily == [unit |-> "DAY", count |-> 2]

Seat == [model |-> "PER_SEAT", amount |-> 4, interval |-> Monthly,
         active |-> TRUE, supersedes |-> 0]
Flat == [Seat EXCEPT !.model = "FLAT", !.amount = 5]

PriceList == <<Seat, Flat>>
EditedIntervals == {Monthly, Daily}
============================================================================
