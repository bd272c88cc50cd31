------------------------------- MODULE Threads -------------------------------
(***************************************************************************)
(* Stackful threads of one reactor: thread_context, jmp_buf_link, thread   *)
(* and thread_scheduling_group (src/include/future/future_all11.cc, .hh).  *)
(***************************************************************************)
EXTENDS Naturals, Sequences, FiniteSets

CONSTANTS Thread,
          Group,     \* those with a scheduling group
          Unthreaded  \* g_unthreaded_context

VARIABLES context,  \* g_current_context
          link,     \* jmp_buf_link::link of each thread
          thread,   \* where each thread is
          preempted,  \* _preempted_threads
          armed,    \* the threads whose _sched_timer is armed
          sched,    \* _sched_promise_value of each thread
          aborted   \* an assertion failed: the process is gone

threadVars == <<context, link, thread, preempted, armed, sched, aborted>>

Init == /\ context = Unthreaded
        /\ link = [t \in Thread |-> Unthreaded]
        /\ thread = [t \in Thread |-> "none"]
        /\ preempted = << >>
        /\ armed = {}
        /\ sched = [t \in Thread |-> "fresh"]
        /\ aborted = FALSE

InThread(t) == ~aborted /\ context = t
InReactor == ~aborted /\ context = Unthreaded

Enter(t) == context' = t /\ link' = [link EXCEPT ![t] = context]

\* switch_out, final_switch_out
Leave(t) == context' = link[t] /\ UNCHANGED link

\* A thread object is made, in a thread or outside, and its function runs.
Start(t) ==
    /\ ~aborted /\ thread[t] = "none"
    /\ Enter(t)
    /\ thread' = [thread EXCEPT ![t] = "running"]
    /\ UNCHANGED <<preempted, armed, sched, aborted>>

\* future::wait() on a future that is not available, or yield() that leaves
\* the rest to later().
Wait(t) ==
    /\ InThread(t)
    /\ Leave(t)
    /\ thread' = [thread EXCEPT ![t] = "waiting"]
    /\ UNCHANGED <<preempted, armed, sched, aborted>>

\* Somebody resolves the future: the task that switches to the thread is made.
Resolve(t) ==
    /\ ~aborted /\ thread[t] = "waiting"
    /\ thread' = [thread EXCEPT ![t] = "woken"]
    /\ UNCHANGED <<context, link, preempted, armed, sched, aborted>>

\* yield() of a thread that has used up its share.  The promise it waits for
\* is a member: get_future asserts that nobody asked it before.
Yield(t) ==
    /\ InThread(t) /\ t \in Group
    /\ preempted' = Append(preempted, t)
    /\ IF sched[t] = "fresh"
       THEN /\ sched' = [sched EXCEPT ![t] = "asked"]
            /\ armed' = armed \cup {t}
            /\ Leave(t)
            /\ thread' = [thread EXCEPT ![t] = "preempted"]
            /\ UNCHANGED aborted
       ELSE /\ aborted' = TRUE
            /\ UNCHANGED <<context, link, thread, armed, sched>>

\* _sched_promise_ptr->set_value()
SetSchedPromise(t) == /\ sched' = [sched EXCEPT ![t] = "set"]
                      /\ thread' = [thread EXCEPT ![t] = "woken"]

\* _sched_timer fires: reschedule().
Reschedule(t) ==
    /\ InReactor /\ t \in armed
    /\ armed' = armed \ {t}
    /\ \E i \in DOMAIN preempted :
          /\ preempted[i] = t
          /\ preempted' = SubSeq(preempted, 1, i - 1) \o SubSeq(preempted, i + 1, Len(preempted))
    /\ SetSchedPromise(t)
    /\ UNCHANGED <<context, link, aborted>>

\* Fault: the timer stays armed.
TryRunOneYieldedThread_KeepsTimer ==
    /\ InReactor /\ preempted # << >>
    /\ \A t \in Thread : thread[t] # "woken"
    /\ preempted' = Tail(preempted)
    /\ SetSchedPromise(Head(preempted))
    /\ UNCHANGED <<context, link, armed, aborted>>

\* thread::try_run_one_yielded_thread, when there is no task to run.
TryRunOneYieldedThread ==
    /\ InReactor /\ preempted # << >>
    /\ \A t \in Thread : thread[t] # "woken"
    /\ armed' = armed \ {Head(preempted)}
    /\ preempted' = Tail(preempted)
    /\ SetSchedPromise(Head(preempted))
    /\ UNCHANGED <<context, link, aborted>>

\* The task runs: switch_in.
SwitchIn(t) ==
    /\ InReactor /\ thread[t] = "woken"
    /\ Enter(t)
    /\ thread' = [thread EXCEPT ![t] = "running"]
    /\ UNCHANGED <<preempted, armed, sched, aborted>>

\* The function ends.
Finish(t) ==
    /\ InThread(t)
    /\ Leave(t)
    /\ thread' = [thread EXCEPT ![t] = "done"]
    /\ UNCHANGED <<preempted, armed, sched, aborted>>

-----------------------------------------------------------------------------
TypeOK == /\ context \in Thread \cup {Unthreaded}
          /\ link \in [Thread -> Thread \cup {Unthreaded}]
          /\ thread \in [Thread -> {"none", "running", "waiting", "preempted", "woken", "done"}]
          /\ preempted \in Seq(Thread)
          /\ armed \subseteq Group
          /\ sched \in [Thread -> {"fresh", "asked", "set"}]

\* The context n links below the one that runs.
Below[n \in 0 .. Cardinality(Thread)] ==
    IF n = 0 THEN context
    ELSE LET c == Below[n - 1] IN IF c = Unthreaded THEN Unthreaded ELSE link[c]

\* A thread that gave up its turn is woken once, by its timer or by the idle
\* reactor: it is in the list, once, as long as its timer is armed and its
\* promise is not set.  And whoever switches to a thread is switched back to:
\* the links from the running context lead through exactly the threads that
\* have started and neither wait nor ended.
SwitchesPair ==
    ~aborted =>
      /\ {Below[n] : n \in DOMAIN Below} \ {Unthreaded} = {t \in Thread : thread[t] = "running"}
      /\ \A t \in Thread :
            LET preempt == thread[t] = "preempted" IN
            /\ Cardinality({i \in DOMAIN preempted : preempted[i] = t}) = IF preempt THEN 1 ELSE 0
            /\ preempt <=> t \in armed
            /\ preempt <=> sched[t] = "asked"

\* yield() gives others a chance and the thread "will resume execution
\* promptly" (src/include/future/future_all11.hh:7509): no yield() ends the process.
YieldReturns == ~aborted
=============================================================================
