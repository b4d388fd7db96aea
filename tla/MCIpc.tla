------------------------------- MODULE MCIpc -------------------------------
(***************************************************************************)
(* The applications and symmetries for checking Ipc.                       *)
(***************************************************************************)
EXTENDS Ipc, TLC

CONSTANTS t1, t2, t3, m1, m2

MCPriority == (t1 :> 1) @@ (t2 :> 2) @@ (t3 :> 3)
Symmetry == Permutations(Mail)

App(uses, mutexes, threads, timeouts) ==
    [uses |-> uses, mutexes |-> mutexes, threads |-> threads, timeouts |-> timeouts]

SafeApps ==
    { App({"sem"}, {}, {t1, t2, t3}, Timeouts),
      App({"sem", "detach"}, {}, {t1, t2, t3}, {"none", "forever"}),
      App({"mutex", "detach"}, {m1}, {t1, t2, t3}, {"forever"}),
      App({"event", "detach"}, {}, {t1, t2}, {"forever"}),
      App({"mb", "detach"}, {}, {t1}, {"forever"}),
      App({"mq", "detach"}, {}, {t1}, {"forever"}),
      App({"mp", "detach"}, {}, {t1, t2, t3}, {"forever"}),
      App({"mutex"}, {m1}, {t1, t2, t3}, Timeouts),
      App({"mutex"}, {m1, m2}, {t1, t2}, Timeouts),
      App({"event"}, {}, {t1, t2}, {"none", "timed"}),
      App({"mb"}, {}, {t1, t2}, Timeouts),
      App({"mb"}, {}, {t1, t2, t3}, {"forever"}),
      App({"mq"}, {}, {t1, t2}, {"none", "timed"}),
      App({"mp"}, {}, {t1, t2, t3}, {"none", "forever"}) }

\* Applications whose waits end.
ServedApps ==
    { App({"sem"}, {}, {t1, t2, t3}, {"none", "forever"}),
      App({"mutex"}, {m1}, {t1, t2, t3}, {"forever"}),
      App({"mb"}, {}, {t1, t2}, Timeouts) }

\* rt_sem_detach while timed waits run out.
DetachApps == { App({"sem", "detach"}, {}, {t1, t2}, Timeouts) }

\* A thread that holds two mutexes.
TwoMutexes == { App({"mutex"}, {m1, m2}, {t1, t2, t3}, {"forever"}) }

\* A memory pool with timed waits.
TimedPool == { App({"mp"}, {}, {t1, t2}, Timeouts) }

=============================================================================
