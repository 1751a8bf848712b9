----------------------------- MODULE MCDailyPoll -----------------------------
(* Instances of DailyPoll for TLC: two days, so that a poll is closed.     *)
EXTENDS DailyPoll, TLC
=============================================================================
