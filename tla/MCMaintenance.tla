--------------------------- MODULE MCMaintenance ---------------------------
(* Model-checking definitions for Maintenance.                              *)
EXTENDS Maintenance

CONSTANTS s1, s2, c1, c2

Requests == {<<s1, "request">>, <<s1, "watch">>}

\* What ddcore jobs work runs with a scheduler.
Workers == {<<s1, "worker">>, <<s1, "cron">>}

\* A server and a command; workers and a command; and two schedulers.
Sites ==
  {[threads |-> Requests, commands |-> {c1}, switches |-> 2],
   [threads |-> Workers, commands |-> {c1}, switches |-> 1],
   [threads |-> {<<s1, "cron">>, <<s2, "cron">>}, commands |-> {}, switches |-> 1]}

WorkersOnly == {[threads |-> Workers, commands |-> {}, switches |-> 1]}

Schedulers == {[threads |-> {<<s1, "cron">>, <<s2, "cron">>}, commands |-> {}, switches |-> 0]}

TwoCommands == {[threads |-> Requests, commands |-> {c1, c2}, switches |-> 1]}
=============================================================================
