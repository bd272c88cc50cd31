----------------------------- MODULE MC_Timers ------------------------------
(***************************************************************************)
(* Timers of the steady and of the low-resolution clock, side by side;     *)
(* clock says which a behaviour is about.  Time points have three bits:    *)
(* expiries in the past, in the present bucket and in every other bucket   *)
(* occur, and timers move between buckets twice.                           *)
(***************************************************************************)
EXTENDS LowresTimers, TLC

CONSTANTS t1, t2

VARIABLE clock

MCTimers == Permutations(Timer)

MCInit == \/ clock = "steady" /\ Init
          \/ clock = "lowres" /\ LowresInit

On(c) == clock = c /\ UNCHANGED clock

MCNext == \/ On("steady") /\ User
          \/ On("steady") /\ StartExpiring
          \/ On("steady") /\ Fire
          \/ On("steady") /\ EndCallback
          \/ On("steady") /\ EndExpiring
          \/ On("steady") /\ KernelTimer
          \/ On("steady") /\ Wakeup
          \/ On("steady") /\ TimePasses
          \/ On("lowres") /\ LowresUser
          \/ On("lowres") /\ LowresStartExpiring
          \/ On("lowres") /\ Fire
          \/ On("lowres") /\ EndCallback
          \/ On("lowres") /\ LowresEndExpiring
          \/ On("lowres") /\ LowresSleep
          \/ On("lowres") /\ Awake
          \/ On("lowres") /\ TimePasses

\* As in Timers; a reactor with low-resolution timers polls, works through
\* the expired ones, and is woken by its nearest wake-up.
MCFairness == /\ WF_pc(clock = "steady" /\ Poll)
              /\ WF_vars(clock = "steady" /\ (Fire \/ EndCallback \/ EndExpiring))
              /\ WF_vars(clock = "steady" /\ KernelTimer)
              /\ WF_vars(clock = "lowres" /\ LowresReactor)

MCSpec == MCInit /\ [][MCNext]_<<clock, vars>> /\ MCFairness

-----------------------------------------------------------------------------
\* An armed timer is not forgotten, whatever its clock: it does not stay
\* armed past its expiry.  On the low-resolution clock it may until the next
\* tick, when it was armed late or the clock is just there.
Late(t) == /\ Overdue(t)
           /\ \/ clock = "steady"
              \/ now > Greater(timer[t].expiry, last)
              \/ t \in Range(expired)

ArmedTimersOfBothFire == \A t \in Timer : Late(t) ~> ~Late(t)
=============================================================================
