---------------------------- MODULE CustomerText ----------------------------
(***************************************************************************)
(* What the service sees of a customer's message.  The regular expressions *)
(* are abstract: a message carries what they find.  What is made of a day  *)
(* and a time of day found in it (_extract_date and _extract_time of       *)
(* app/infrastructure/demo_provider.py) is computed here.                  *)
(***************************************************************************)
EXTENDS BookingRules, LeadRules

(* The patterns the demo provider looks for in the normalised message.     *)
Patterns == {"stop", "injection", "goodbye", "busy", "call", "not_interested",
             "human", "visit", "unknown", "expensive", "price", "location",
             "greeting"}

(* A day as it is spoken of: a word; a weekday (on: 0 for Monday); a date  *)
(* (on: its number, None when there is no such date); a day and a month    *)
(* (on and again: its number in this year and in the next).                *)
SpokenDays ==
    [word : {"weekday"}, on : 0..6]
        \cup [word : {"today", "tomorrow", "day_after", "date", "day_month"},
              on : Nat \cup {None}, again : Nat \cup {None}]

(* A time as it is spoken of: 3 pm, 11:30 am, 3 baje ("at 3").             *)
SpokenTimes == [hour : Nat, minute : Nat, marker : {"am", "pm", "baje"}]

(* Whether it matches the do-not-contact pattern, the values and the       *)
(* amounts of money it literally mentions, the text kept of it when it is  *)
(* an unanswered question; and for the demo provider the patterns, the     *)
(* lead, the day and the time it finds.                                    *)
Message == [stop : BOOLEAN, mentions : Mentions, amounts : SUBSET Values,
            question : Questions,
            patterns : SUBSET Patterns, extracts : Lead,
            day : SpokenDays \cup {None}, time : SpokenTimes \cup {None}]

-----------------------------------------------------------------------------
Today(now) == now \div Day

(* _extract_date: a weekday is one of the next seven days, today excepted; *)
(* a day and a month that have passed this year are meant for the next.    *)
SaidDay(day, today) ==
    CASE day.word = "today" -> today
      [] day.word = "tomorrow" -> today + 1
      [] day.word = "day_after" -> today + 2
      [] day.word = "weekday" ->
             LET ahead == (day.on - today) % 7
             IN  today + (IF ahead = 0 THEN 7 ELSE ahead)
      [] day.word = "date" -> day.on
      [] day.word = "day_month" ->
             IF day.on # None /\ day.on < today THEN day.again ELSE day.on

(* The hour on the clock: 12 am is midnight, and one to six o'clock        *)
(* without am or pm is in the afternoon.                                   *)
HourMeant(time) ==
    CASE time.marker = "pm" /\ time.hour < 12 -> time.hour + 12
      [] time.marker = "am" /\ time.hour = 12 -> 0
      [] time.marker = "baje" /\ time.hour \in 1..6 -> time.hour + 12
      [] OTHER -> time.hour

(* _extract_time, in seconds of the day. *)
SaidTime(time) ==
    IF time.hour > 23 \/ time.minute > 59 THEN None
    ELSE HourMeant(time) * Hour + time.minute * Minute

(* The instant a message names when it is read now, None without a day and *)
(* a time that exist.                                                      *)
NamedAt(m, now) ==
    IF \/ m.day = None \/ m.time = None
       \/ SaidDay(m.day, Today(now)) = None \/ SaidTime(m.time) = None
    THEN None
    ELSE SaidDay(m.day, Today(now)) * Day + SaidTime(m.time)

=============================================================================
