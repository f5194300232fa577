----------------------------- MODULE MCTimerQueue -----------------------------
(* Instances of TimerQueue for TLC: six timers are the least with which an *)
(* entry that fills a gap has to go up.                                    *)
EXTENDS TimerQueue
=============================================================================
