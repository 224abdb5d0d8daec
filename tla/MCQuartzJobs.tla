---------------------------- MODULE MCQuartzJobs ----------------------------
(* Instances of QuartzJobs for TLC. *)
EXTENDS QuartzJobs

CONSTANTS t1, k1, k2

\* One administrator who does everything, on a server that may crash.
Alone == [ops |-> Op \union {"rename", "bad", "unset", "import"}, threads |-> {t1},
          keys |-> {k1, k2}, crashes |-> 1]

\* The same one, who never changes the class of a job, without crashes.
Tidy == [ops |-> Op \union {"bad", "unset", "import"}, threads |-> {t1},
         keys |-> {k1, k2}, crashes |-> 0]

\* Several who add and pause jobs at once.
Together == [ops |-> {"add", "pause"}, threads |-> Threads, keys |-> Keys,
             crashes |-> 0]

AloneAndTogether == {Alone, Tidy, Together}
=============================================================================
