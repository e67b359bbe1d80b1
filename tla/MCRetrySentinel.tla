-------------------------- MODULE MCRetrySentinel --------------------------
(* RetrySentinel for TLC: chats, signals, timers and continuations by name. *)
EXTENDS RetrySentinel
CONSTANTS c1, c2, net, quota, t1, t2, t3, a1, a2
OneChat == {c1}
TwoChats == {c1, c2}
OneSignal == {net}
TwoSignals == {net, quota}
TwoTimers == {t1, t2}
ThreeTimers == {t1, t2, t3}
TwoAutos == {a1, a2}
=============================================================================
