----------------------------- MODULE MCJobLanes -----------------------------
(* Chats for TLC: tools t1, t2, t3 and job_kill calls k1, k2.               *)
EXTENDS JobLanes

CONSTANTS s1, s2, t1, t2, t3, k1, k2

OneChat == [c \in Call |-> s1]

\* Only a job_kill from the other chat can reach a chat at its guard.
TwoChats == [c \in Call |-> IF c \in KillCall THEN s2 ELSE s1]
=============================================================================
