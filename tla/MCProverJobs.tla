--------------------------- MODULE MCProverJobs ---------------------------
(* One job and two workers, in which a crash may be followed by a takeover, *)
(* a second crash and the last attempt. Jobs share nothing but the workers' *)
(* time; the theorems hold for any number of them.                          *)
EXTENDS ProverJobs

CONSTANTS j1, w1, w2

MCJob == {j1}
MCWorker == {w1, w2}
=============================================================================
