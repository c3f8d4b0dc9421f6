---------------------------- MODULE MCRcdSender ----------------------------
(* Instances of RcdSender for TLC.  The goroutines are model values, and the *)
(* flushers of the probabilistic instances are interchangeable.              *)
EXTENDS RcdSender, TLC

FlusherSymmetry == Permutations(Flushers)

\* The instance with two flushers leaves the end of the simulation to the others.
Running == ~ctxDone

\* The instance for the order of the queue does so too, and of all that may fail has the
\* worker's writes only: its behaviours are behaviours of FairSpec.
OnlyWorkerFails == lost' # lost => pending' # pending
QueueSpec == Init /\ [][Next /\ ~ctxDone' /\ OnlyWorkerFails]_vars /\ Fairness
=============================================================================
