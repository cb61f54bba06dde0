---------------------------- MODULE MCAsyncJobs -----------------------------
(* Instances of AsyncJobs for TLC: which faults happen, how often and where. *)
EXTENDS AsyncJobs, TLC

Faults(c, l, e, t) ==
    [f \in FaultKinds |-> CASE f = "crash" -> c [] f = "loss" -> l
                            [] f = "error" -> e [] f = "timeout" -> t]

\* Every fault, everywhere, on one job.
AnyFault == Faults(1, 1, 1, 1)
Anywhere == PCs \ {"idle"}

\* Crashes wherever they cannot duplicate a message: not between the publication of
\* the retry and the ack.
CrashOnly == Faults(2, 0, 1, 1)
NotAtAck == PCs \ {"idle", "ack"}

\* One crash anywhere, nothing else.
OneCrash == Faults(1, 0, 0, 0)

HandlerSymmetry == Permutations(Handlers)
=============================================================================
