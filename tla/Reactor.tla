------------------------------- MODULE Reactor -------------------------------
(***************************************************************************)
(* The loop of a reactor, its pollers, its signals and its sleep:          *)
(* reactor::run, sleep, poller, signals and signal_pollfn                  *)
(* (src/include/future/future_all11.hh, .cc).  Tasks, poll functions and   *)
(* signal handlers of the user create, move and destroy pollers.           *)
(***************************************************************************)
EXTENDS Naturals, Sequences, FiniteSets

CONSTANTS Handle,    \* poller objects
          Pollfn,    \* pollfn objects, those of destroyed pollers included
          SignalFn,  \* the signal_pollfn
          Null,
          MaxTasks   \* bound on the length of _pending_tasks

VARIABLES at,        \* where the loop is
          index,     \* the poller of its iterator, or the last one
          worked,    \* poll_once found work
          pollers,   \* _pollers
          tasks,     \* _pending_tasks
          handle,    \* each poller: its _pollfn, and whether it has a _registration_task
          interruptible,  \* the pollers that entered interrupt mode
          signalled, \* _pending_signals of the one signal there is
          blocked,   \* the signal is blocked
          raised     \* and the kernel keeps it until it is not

reactorVars == <<at, index, worked, pollers, tasks, handle, interruptible,
                 signalled, blocked, raised>>

Empty == [fn |-> Null, registering |-> FALSE]

\* Installing the handler of a signal sets its bit as well.
Init == /\ at = "tasks" /\ index = 0 /\ worked = FALSE
        /\ pollers = <<SignalFn>>
        /\ tasks = << >>
        /\ handle = [h \in Handle |-> Empty]
        /\ interruptible = {}
        /\ signalled = TRUE /\ blocked = FALSE /\ raised = FALSE

-----------------------------------------------------------------------------
(* What the user does in a task, a poll function or a handler: u is the    *)
(* list of tasks at that point.                                            *)

TaskFor(kind, of) == [kind |-> kind, of |-> of]

\* The replacement of a destroyed poller is owned by its task.
Used == {handle[h].fn : h \in Handle} \cup {t.of : t \in {tasks[i] : i \in DOMAIN tasks}}
Fresh == Pollfn \ (Used \cup {pollers[i] : i \in DOMAIN pollers})

Retarget(u, from, to) ==
    [i \in DOMAIN u |-> IF u[i] = TaskFor("register", from) THEN TaskFor("register", to) ELSE u[i]]

\* poller(fn): do_register adds a task.
Create(u, h) ==
    /\ handle[h] = Empty
    /\ \E fn \in Fresh : handle' = [handle EXCEPT ![h] = [fn |-> fn, registering |-> TRUE]]
    /\ tasks' = Append(u, TaskFor("register", h))
    /\ UNCHANGED pollers

\* poller(poller&&)
Move(u, h, to) ==
    /\ handle[h].fn # Null /\ handle[to] = Empty
    /\ handle' = [handle EXCEPT ![h] = Empty, ![to] = handle[h]]
    /\ tasks' = IF handle[h].registering THEN Retarget(u, h, to) ELSE u
    /\ UNCHANGED pollers

\* Fault: a poller that is not registered yet is replaced like any other.
Destroy_NotCancelled(u, h) ==
    /\ handle[h].fn # Null
    /\ \E dummy \in Fresh :
          /\ tasks' = Append(u, TaskFor("deregister", dummy))
          /\ pollers' = [i \in DOMAIN pollers |-> IF pollers[i] = handle[h].fn THEN dummy ELSE pollers[i]]
    /\ handle' = [handle EXCEPT ![h] = Empty]

\* ~poller
Destroy(u, h) ==
    /\ handle[h].fn # Null
    /\ IF handle[h].registering
       THEN tasks' = Retarget(u, h, Null) /\ UNCHANGED pollers
       ELSE \E dummy \in Fresh :
            /\ tasks' = Append(u, TaskFor("deregister", dummy))
            /\ pollers' = [i \in DOMAIN pollers |-> IF pollers[i] = handle[h].fn THEN dummy ELSE pollers[i]]
    /\ handle' = [handle EXCEPT ![h] = Empty]

UserCode(u) ==
    \/ Len(u) < MaxTasks /\ \E h \in Handle : Create(u, h) \/ Destroy(u, h)
    \/ \E h, to \in Handle : Move(u, h, to)
    \/ Len(u) < MaxTasks /\ tasks' = Append(u, TaskFor("user", Null)) /\ UNCHANGED <<pollers, handle>>
    \/ tasks' = u /\ UNCHANGED <<pollers, handle>>

-----------------------------------------------------------------------------
Loop == <<at, index, worked>>
Signal == <<signalled, blocked, raised>>

\* run_tasks
RunUser ==
    /\ at = "tasks" /\ tasks # << >> /\ Head(tasks).kind = "user"
    /\ UserCode(Tail(tasks))
    /\ UNCHANGED <<Loop, interruptible, Signal>>

\* registration_task::run
RunRegistration ==
    /\ at = "tasks" /\ tasks # << >> /\ Head(tasks).kind = "register"
    /\ LET h == Head(tasks).of IN
       IF h = Null THEN UNCHANGED <<pollers, handle>>
       ELSE /\ pollers' = Append(pollers, handle[h].fn)
            /\ handle' = [handle EXCEPT ![h].registering = FALSE]
    /\ tasks' = Tail(tasks)
    /\ UNCHANGED <<Loop, interruptible, Signal>>

\* deregistration_task::run: _pollers.erase of what std::find finds.
RunDeregistration ==
    /\ at = "tasks" /\ tasks # << >> /\ Head(tasks).kind = "deregister"
    /\ \E i \in DOMAIN pollers :
          /\ pollers[i] = Head(tasks).of /\ \A j \in 1 .. i - 1 : pollers[j] # pollers[i]
          /\ pollers' = SubSeq(pollers, 1, i - 1) \o SubSeq(pollers, i + 1, Len(pollers))
    /\ tasks' = Tail(tasks)
    /\ UNCHANGED <<Loop, handle, interruptible, Signal>>

StartPoll ==
    /\ at = "tasks" /\ tasks = << >>
    /\ at' = "poll" /\ index' = 1 /\ worked' = FALSE
    /\ UNCHANGED <<pollers, tasks, handle, interruptible, Signal>>

\* poll_signal: the handler runs.
PollSignal == IF signalled THEN signalled' = FALSE /\ UserCode(tasks)
              ELSE UNCHANGED <<signalled, tasks, pollers, handle>>

\* One poller of poll_once.
Poll ==
    /\ at = "poll" /\ index <= Len(pollers)
    /\ IF pollers[index] = SignalFn
       THEN PollSignal /\ worked' = (worked \/ signalled)
       ELSE /\ UNCHANGED signalled
            /\ IF \E h \in Handle : handle[h].fn = pollers[index]
               THEN UserCode(tasks) /\ worked' \in {worked, TRUE}
               ELSE UNCHANGED <<tasks, pollers, handle, worked>>
    /\ index' = index + 1
    /\ UNCHANGED <<at, interruptible, blocked, raised>>

\* There was work, or the reactor is not idle for long enough, or it sleeps.
EndPoll ==
    /\ at = "poll" /\ index > Len(pollers)
    /\ \/ at' = "tasks" /\ index' = 0
       \/ ~worked /\ tasks = << >> /\ at' = "entering" /\ index' = 1
    /\ UNCHANGED <<worked, pollers, tasks, handle, interruptible, Signal>>

\* sleep() goes on with the next poller, or takes back what was entered.
Entered == /\ interruptible' = interruptible \cup {pollers[index]}
           /\ index' = index + 1
           /\ UNCHANGED at
Refused == /\ at' = "leaving" /\ index' = index - 1
           /\ UNCHANGED interruptible

\* Fault: signals are blocked, but not looked for once more.
EnterSignal_NotPolled ==
    /\ at = "entering" /\ index <= Len(pollers) /\ pollers[index] = SignalFn
    /\ blocked' = TRUE
    /\ Entered
    /\ UNCHANGED <<worked, raised, signalled, tasks, pollers, handle>>

\* signal_pollfn::try_enter_interrupt_mode
EnterSignal ==
    /\ at = "entering" /\ index <= Len(pollers) /\ pollers[index] = SignalFn
    /\ PollSignal
    /\ IF signalled THEN Refused /\ UNCHANGED blocked ELSE Entered /\ blocked' = TRUE
    /\ UNCHANGED <<worked, raised>>

\* Any other poller; what replaces a destroyed one refuses.
EnterOther ==
    /\ at = "entering" /\ index <= Len(pollers) /\ pollers[index] # SignalFn
    /\ \/ Refused
       \/ (\E h \in Handle : handle[h].fn = pollers[index]) /\ Entered
    /\ UNCHANGED <<worked, pollers, tasks, handle, Signal>>

FallAsleep ==
    /\ at = "entering" /\ index > Len(pollers)
    /\ at' = "asleep"
    /\ UNCHANGED <<index, worked, pollers, tasks, handle, interruptible, Signal>>

\* epoll_pwait returns: a signal is let through, or there is an event.
Wake ==
    /\ at = "asleep"
    /\ signalled' = (signalled \/ raised) /\ raised' = FALSE
    /\ at' = "leaving" /\ index' = Len(pollers)
    /\ UNCHANGED <<worked, pollers, tasks, handle, interruptible, blocked>>

\* exit_interrupt_mode of one poller, in the reverse order.
Leave ==
    /\ at = "leaving" /\ index > 0
    /\ index' = index - 1
    /\ interruptible' = interruptible \ {pollers[index]}
    /\ IF pollers[index] = SignalFn
       THEN blocked' = FALSE /\ signalled' = (signalled \/ raised) /\ raised' = FALSE
       ELSE UNCHANGED Signal
    /\ UNCHANGED <<at, worked, pollers, tasks, handle>>

EndLeave ==
    /\ at = "leaving" /\ index = 0
    /\ at' = "tasks"
    /\ UNCHANGED <<index, worked, pollers, tasks, handle, interruptible, Signal>>

\* The kernel raises the signal: signals::action.
Raise ==
    /\ IF blocked THEN ~raised /\ raised' = TRUE /\ UNCHANGED signalled
       ELSE ~signalled /\ signalled' = TRUE /\ UNCHANGED raised
    /\ UNCHANGED <<Loop, pollers, tasks, handle, interruptible, blocked>>

-----------------------------------------------------------------------------
TypeOK == /\ at \in {"tasks", "poll", "entering", "asleep", "leaving"}
          /\ index \in 0 .. Len(pollers) + 1
          /\ worked \in BOOLEAN
          /\ pollers \in Seq(Pollfn \cup {SignalFn})
          /\ tasks \in Seq([kind : {"register", "deregister", "user"}, of : Handle \cup Pollfn \cup {Null}])
          /\ handle \in [Handle -> [fn : Pollfn \cup {Null}, registering : BOOLEAN]]
          /\ signalled \in BOOLEAN /\ blocked \in BOOLEAN /\ raised \in BOOLEAN

Times(s, x) == Cardinality({i \in DOMAIN s : s[i] = x})

\* However pollers are created, moved and destroyed, by tasks as well as by
\* the poll functions that the loop walks over: every object in _pollers is
\* alive, owned by its poller or by the task that will take it out, and there
\* once; a poller that is not registered has the task that will do it.  And
\* sleep() undoes what it did: the pollers up to the iterator, and no other,
\* are in interrupt mode.
PollersIntact ==
    /\ \A fn \in Pollfn : Times(pollers, fn) =
          (IF \E h \in Handle : handle[h] = [fn |-> fn, registering |-> FALSE] THEN 1 ELSE 0)
          + Times(tasks, TaskFor("deregister", fn))
    /\ \A h \in Handle : Times(tasks, TaskFor("register", h)) = IF handle[h].registering THEN 1 ELSE 0
    /\ interruptible = CASE at \in {"tasks", "poll"} -> {}
                         [] at \in {"entering", "asleep"} -> {pollers[i] : i \in 1 .. index - 1}
                         [] at = "leaving" -> {pollers[i] : i \in 1 .. index}
    /\ blocked <=> SignalFn \in interruptible

\* A reactor that sleeps has no task to run and has seen every signal: one
\* that arrives since is still held by the kernel and will wake it up.
SleepsWithoutWork == at = "asleep" => tasks = << >> /\ ~signalled
=============================================================================
