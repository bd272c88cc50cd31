---------------------------- MODULE LowresTimers ----------------------------
(***************************************************************************)
(* Timers of one reactor on the low-resolution clock: the timer_set of     *)
(* Timers without a kernel timer.  deadline is _lowres_next_timeout, Never *)
(* when it is time_point(), and now is lowres_clock::now().  A poll of     *)
(* lowres_timer_pollfn looks for expired timers once the clock is past the *)
(* deadline, and the reactor sleeps up to the deadline                     *)
(* (src/include/future/future_all11.hh and .cc).                           *)
(***************************************************************************)
EXTENDS Timers

\* No signal tells of these timers.
LowresInit == /\ now = 1
              /\ timer = [t \in Timer |-> Fresh]
              /\ buckets = [b \in Bucket |-> << >>]
              /\ nonEmpty = {}
              /\ last = 0 /\ next = MaxTimestamp
              /\ expired = << >>
              /\ deadline = Never
              /\ signal = FALSE
              /\ pc = "loop"
              /\ running = NoTimer
              /\ crashed = FALSE

\* do_expire_lowres_timers: complete_timers moves the expired timers to its
\* own list.
LowresStartExpiring ==
    /\ ~crashed /\ pc = "loop"
    /\ deadline # Never /\ now > deadline
    /\ pc' = "expiring"
    /\ CollectExpired
    /\ UNCHANGED <<now, deadline, signal, running, crashed>>

\* Its enable_fn.
LowresEndExpiring ==
    /\ ~crashed /\ pc = "expiring" /\ expired = << >>
    /\ enable_timer(IF nonEmpty # {} THEN get_next_timeout(Set) ELSE 0)
    /\ pc' = "loop"
    /\ UNCHANGED <<now, timer, setVars, expired, signal, running, crashed>>

\* lowres_timer_pollfn::try_enter_interrupt_mode: a reactor goes to sleep,
\* with _nearest_wakeup armed for the deadline.
LowresSleep ==
    /\ ~crashed /\ pc = "loop"
    /\ deadline = Never \/ deadline > now
    /\ pc' = "asleep"
    /\ UNCHANGED <<now, timer, setVars, expired, deadline, signal, running, crashed>>

Awake == /\ pc = "asleep"
         /\ pc' = "loop"
         /\ UNCHANGED <<now, timer, setVars, expired, deadline, signal, running, crashed>>

\* _nearest_wakeup fires, on a clock that is not behind.
NearestWakeup == deadline # Never /\ deadline <= now /\ Awake

\* The epoch, which stands for no timeout, is not armed.
LowresUser == \E t \in Timer :
                 \/ Cancel(t) \/ Destroy(t)
                 \/ \E until \in Time \ {0} : Arm(t, until, 0) \/ Rearm(t, until, 0)
                 \/ \E p \in Period : Arm(t, now + p, p) \/ Rearm(t, now + p, p)

LowresReactor == LowresStartExpiring \/ Fire \/ EndCallback \/ LowresEndExpiring
                 \/ NearestWakeup

LowresNext == LowresUser \/ LowresReactor \/ LowresSleep \/ Awake \/ TimePasses
=============================================================================
