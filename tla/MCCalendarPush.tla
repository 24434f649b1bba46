---------------------------- MODULE MCCalendarPush ----------------------------
(* A small instance of CalendarPush for TLC: one reservation, a sweeper, a  *)
(* consumer and one request of an operator.                                 *)
EXTENDS CalendarPush

CONSTANTS s1, sweeper, consumer, o1
=============================================================================
