----------------------------- MODULE MCSupervisor -----------------------------
(* Supervisor with one preflight and two attempts, two accepted            *)
(* configurations, one refused, and one upgrade of docker.                 *)
EXTENDS Supervisor
=============================================================================
