CONSTANTS
    LastDay = 146100
    MaxSerial = 255
SPECIFICATION ConversionsSpec
CHECK_DEADLOCK FALSE
INVARIANT ReadingIsCast
INVARIANT StopsAtTen
INVARIANT LeafSerialIsRows
INVARIANT CivilIsCalendar
INVARIANT DaysRoundTrip
INVARIANT InstantRoundTrip
INVARIANT EkuReadsBack
PROPERTY TextOrderIsTimeOrder
