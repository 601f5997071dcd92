----------------------------- MODULE DateStamp -----------------------------
(***************************************************************************)
(* The date of a file: __makeDateStamp of source/shared/dos_handler.cpp    *)
(* turns the date the service gives, which is text, into the days, minutes *)
(* and ticks of AmigaDOS.                                                  *)
(***************************************************************************)
EXTENDS Integers

(* What sscanf finds in a text of at least 19 characters.                  *)
Instant ==
  [year : 1978..2099, month : 1..12, day : 1..31,
   hour : 0..23, minute : 0..59, second : 0..59]

DayAccum == <<0, 31, 59, 90, 120, 151, 181, 212, 243, 273, 304, 334>>

(* int(_year * 365.25f), which a float holds exactly.                      *)
YearDays(years) == (1461 * years) \div 4
Days(i) == YearDays(i.year - 1978) + DayAccum[i.month] + (i.day - 1)

Stamp(i) == [days |-> Days(i), minute |-> i.hour * 60 + i.minute, tick |-> i.second * 50]

(* A shorter text, as the folders of Dropbox have none, leaves the stamp   *)
(* that was in the client's block.                                         *)
MakeDateStamp(date, before) == IF date \in Instant THEN Stamp(date) ELSE before

(* CompareDates of dos.library                                             *)
StampEarlier(s, t) ==
  \/ s.days < t.days
  \/ s.days = t.days /\ s.minute < t.minute
  \/ s.days = t.days /\ s.minute = t.minute /\ s.tick < t.tick
=============================================================================
