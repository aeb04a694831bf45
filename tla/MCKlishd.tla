------------------------------ MODULE MCKlishd ------------------------------
EXTENDS Klishd

Private == {"db_open", "db_init", "db_load", "db_fini", "plugins", "fini",
            "free", "dlclose", "exit"}

\* Bound: while a process loads, or clears what it has loaded and ends, only
\* it takes steps.  They touch nothing that another process sees, so their
\* place among the steps of the others is no matter.
PrivateStepsAlone ==
  \A p \in Procs : pc[p] \in Private => pc'[p] # pc[p] \/ left'[p] # left[p]
=============================================================================
