----------------------------- MODULE MCMetering -----------------------------
EXTENDS Metering

CONSTANTS p1, e1, volume, newer, other

MCUnits == [k \in Keys |-> IF k = p1 THEN 3 ELSE 2]
MCMetersOf == [s \in Enrolments |-> IF s = 1 THEN {volume, newer} ELSE {other}]
MCFirstMeter == [s \in Enrolments |-> IF s = 1 THEN volume ELSE other]
MCRating == [included |-> 1, unitAmount |-> 5, unitSize |-> 2, cap |-> 8]
MCMeterOf == [k \in Tracked |-> volume]
=============================================================================
