-------------------------------- MODULE Gate --------------------------------
(***************************************************************************)
(* gate and with_gate (src/include/future/future_all11.hh).                *)
(***************************************************************************)
EXTENDS Naturals, FiniteSets

CONSTANT User

VARIABLES entered,  \* _count
          stopped,  \* _stopped_ptr is set
          opened,   \* how often _stopped_value was set
          user      \* where each user of the gate is

gateVars == <<entered, stopped, opened, user>>

\* Inside by enter(), or by with_gate while its function has a future that is
\* not ready; or with_gate's function threw.
Inside == {"entered", "with_gate", "threw"}

Init == /\ entered = 0
        /\ stopped = FALSE
        /\ opened = 0
        /\ user = [u \in User |-> "outside"]

\* Fault: the gate does not know that it is closed.
enter_AfterClose == entered' = entered + 1

\* enter() and check(), which throw when the gate is closed.
enter == ~stopped /\ entered' = entered + 1

\* leave()
leave == /\ entered' = entered - 1
         /\ opened' = opened + (IF entered = 1 /\ stopped THEN 1 ELSE 0)

Enter(u) ==
    /\ user[u] = "outside"
    /\ enter
    /\ user' = [user EXCEPT ![u] = "entered"]
    /\ UNCHANGED <<stopped, opened>>

\* with_gate: what follows enter() is not inside of a future, so that nobody
\* leaves for a function that throws.
WithGate(u) ==
    /\ user[u] = "outside"
    /\ enter
    /\ \E called \in {"with_gate", "threw"} : user' = [user EXCEPT ![u] = called]
    /\ UNCHANGED <<stopped, opened>>

\* leave(), or the continuation that finally() attached.
Leave(u) ==
    /\ user[u] \in {"entered", "with_gate"}
    /\ leave
    /\ user' = [user EXCEPT ![u] = "outside"]
    /\ UNCHANGED stopped

\* close(), which asserts that it is called once.
Close ==
    /\ ~stopped
    /\ stopped' = TRUE
    /\ opened' = opened + (IF entered = 0 THEN 1 ELSE 0)
    /\ UNCHANGED <<entered, user>>

-----------------------------------------------------------------------------
TypeOK == /\ entered \in Nat
          /\ stopped \in BOOLEAN
          /\ opened \in Nat
          /\ user \in [User -> Inside \cup {"outside"}]

InGate == {u \in User : user[u] \in Inside}

\* The future of close() resolves once, with the last leave() or at once,
\* whatever the order of the calls; a function that throws inside of
\* with_gate counts as inside for ever, and close() then never resolves.
OpensOnce == opened = IF stopped /\ InGate = {} THEN 1 ELSE 0
=============================================================================
