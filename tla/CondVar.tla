------------------------------ MODULE CondVar -------------------------------
(***************************************************************************)
(* condition_variable, a semaphore without units: a signal gives one unit  *)
(* to a fiber that waits (src/include/future/future_all11.hh).             *)
(***************************************************************************)
EXTENDS Semaphore

\* condition_variable(): _sem{0}
CvInit == /\ count = 0 /\ total = 0
          /\ list = << >> /\ size = 0
          /\ signalling = FALSE
          /\ fiber = [f \in Fiber |-> "idle"]
          /\ units = [f \in Fiber |-> 0]

\* wait(), without and with a timeout: waits for one unit.
CvWait(f) == WaitReady(f, 1) \/ \E timed \in {FALSE, Timeouts} : WaitInList(f, 1, timed)

\* Fault: a signal is given although nobody waits.
CvSignal_Remembered == Deposit(1)

\* signal()
CvSignal == size # 0 /\ Deposit(1)

\* broadcast()
CvBroadcast == Deposit(size)

\* The task of a fiber that waited runs; a unit it was given is used up.
CvResume(f) ==
    /\ Running
    /\ fiber[f] \in {"granted", "timedout"}
    /\ Becomes(f, "idle", 0)
    /\ total' = total - units[f]
    /\ UNCHANGED <<count, list, size, signalling>>

CvNext == \/ \E f \in Fiber : CvWait(f) \/ CvResume(f)
          \/ CvSignal \/ CvBroadcast
          \/ \E i \in DOMAIN list : Expire(i)
          \/ Signal

CvSpec == CvInit /\ [][CvNext]_vars

-----------------------------------------------------------------------------
\* A signal wakes a fiber that waits already, a broadcast all of them, and
\* neither is remembered for a fiber that waits later: outside of signal()
\* the semaphore has no units, although timeouts race with the signals.
SignalsNotRemembered == Running => count = 0
=============================================================================
