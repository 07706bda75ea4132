--------------------------- MODULE MCAnnouncements ---------------------------
(* Days of four minutes.  One announcement plays at a minute of the day,    *)
(* the other at two minutes in a row but not on the second day.             *)
EXTENDS Announcements, TLC

AtOne ==
  [enabled |-> TRUE, days |-> 0..6, mode |-> "at", at |-> 1, first |-> 0, last |-> 0,
   every |-> 0, source |-> "folder", cycle |-> 0, played |-> NoTime]

EveryMinute ==
  [enabled |-> TRUE, days |-> {0, 2, 3}, mode |-> "every", at |-> 0, first |-> 1, last |-> 2,
   every |-> 1, source |-> "file", cycle |-> 0, played |-> NoTime]

MCTable == (1 :> AtOne) @@ (2 :> EveryMinute)
MCRows == {AtOne, [AtOne EXCEPT !.source = "file"]}
MCFileCount == [folder |-> 2, file |-> 1]
=============================================================================
