---------------------------- MODULE MCSchedules ----------------------------
(* Instances of Schedules for TLC: one schedule for every minute, one for  *)
(* the odd ones.                                                           *)
EXTENDS Schedules, TLC

EachMinute == 1 :> 0..MaxMinute @@ 2 :> {m \in 0..MaxMinute : m % 2 = 1}
OnlyOne    == 1 :> 0..MaxMinute
=============================================================================
