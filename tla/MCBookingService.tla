-------------------------- MODULE MCBookingService --------------------------
(***************************************************************************)
(* An instance of BookingService for TLC.  It is Monday, shortly before a  *)
(* slot and at the very second of it, and then Saturday, at the last slot  *)
(* of the week.  The requests sit on every edge of the calendar: the       *)
(* present, the lunch break, closing time, Saturday evening with the       *)
(* Sunday behind it, minutes and seconds off the half hour, midnight, and  *)
(* a date a week back.                                                     *)
(***************************************************************************)
EXTENDS BookingService

CONSTANTS s1, s2, r1, r2

At(day, hour, minute) == day * Day + hour * Hour + minute * Minute

MCSessions == {s1, s2}
MCReferences == {r1, r2}

MCStart == At(7, 10, 29) + 40
MCInstants == {MCStart, At(7, 10, 30), At(12, 16, 30)}

MCUnavailable == {At(7, 11, 0), At(14, 10, 0)}

MCRequests ==
    {Malformed,
     At(7, 10, 30), At(7, 10, 30) + 20,  \* on the half hour, and just after
     At(7, 11, 15),                      \* off the half hour
     At(7, 13, 30),                      \* over lunch
     At(7, 16, 30), At(7, 17, 0),        \* the last slot, closing time
     At(12, 16, 30), At(13, 11, 0),      \* Saturday evening, Sunday
     At(8, 0, 0),                        \* midnight
     At(0, 9, 30)}                       \* a week ago, before opening

=============================================================================
