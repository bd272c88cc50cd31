------------------------------- MODULE Alarms -------------------------------
(***************************************************************************)
(* What timers promise to their users: an armed timer fires once, not      *)
(* before its expiry, unless it is cancelled; a periodic timer is armed    *)
(* again when it fires.                                                    *)
(***************************************************************************)
EXTENDS Naturals

CONSTANTS Timer,
          Time,      \* the time points that can be armed
          Period,    \* the periods of periodic timers
          Never,     \* the expiry of a timer that is not armed
          NoTimer

VARIABLES now,
          due,       \* due[t]: when t is to fire, or Never
          every,     \* every[t]: its period, or 0
          calling    \* the timer whose callback runs, or NoTimer

alarmVars == <<now, due, every, calling>>

Init == /\ now \in Time
        /\ due = [t \in Timer |-> Never]
        /\ every \in [Timer -> {0}]
        /\ calling = NoTimer

Arm(t) == /\ due'[t] \in Time
          /\ every'[t] \in Period \cup {0}
          /\ due' = [due EXCEPT ![t] = due'[t]]
          /\ every' = [every EXCEPT ![t] = every'[t]]
          /\ UNCHANGED <<now, calling>>

Cancel(t) == /\ due[t] # Never
             /\ due' = [due EXCEPT ![t] = Never]
             /\ every' \in {every, [every EXCEPT ![t] = 0]}
             /\ UNCHANGED <<now, calling>>

\* Destroying or constructing a timer that is not armed.
Renew(t) == /\ due[t] = Never
            /\ every' = [every EXCEPT ![t] = 0]
            /\ UNCHANGED <<now, due, calling>>

Fire(t) == /\ due[t] # Never
           /\ due[t] <= now
           /\ calling = NoTimer
           /\ calling' = t
           /\ due' = [due EXCEPT ![t] = IF every[t] = 0 THEN Never ELSE now + every[t]]
           /\ UNCHANGED <<now, every>>

Return == calling # NoTimer /\ calling' = NoTimer /\ UNCHANGED <<now, due, every>>

Pass == now' = now + 1 /\ UNCHANGED <<due, every, calling>>

Next == \/ Pass \/ Return
        \/ \E t \in Timer : Arm(t) \/ Cancel(t) \/ Renew(t) \/ Fire(t)

Spec == Init /\ [][Next]_alarmVars
=============================================================================
