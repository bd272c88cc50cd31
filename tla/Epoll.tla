-------------------------------- MODULE Epoll --------------------------------
(***************************************************************************)
(* One file descriptor of the epoll backend: pollable_fd_state with its    *)
(* two promises, and the kernel's view of it                               *)
(* (src/include/future/future_all11.hh, .cc).                              *)
(***************************************************************************)
EXTENDS FiniteSets

CONSTANT Event    \* EPOLLIN and EPOLLOUT

VARIABLES known, requested, installed,  \* events_known, events_requested, events_epoll
          answer,   \* what became of the future of pollin and pollout
          interest, \* the events the kernel was told, none when not added
          ready     \* those it would report

epollVars == <<known, requested, installed, answer, interest, ready>>

Init == /\ known \in SUBSET Event
        /\ requested = {} /\ installed = {}
        /\ answer = [e \in Event |-> "none"]
        /\ interest = {} /\ ready = {}

Answers(es, a) == answer' = [e \in Event |-> IF e \in es THEN a ELSE answer[e]]

\* epoll_ctl: adding what is there, or changing what is not, is an error and
\* does nothing.
epoll_ctl(op, events) ==
    interest' = IF (op = "add") # (interest = {}) THEN interest
                ELSE IF op = "del" THEN {} ELSE events

\* Fault: whatever is installed is taken for the event.
Request_AnyInstalled(e) ==
    /\ answer[e] = "none"
    /\ IF e \in known
       THEN known' = known \ {e} /\ Answers({e}, "ready") /\ UNCHANGED <<requested, installed, interest>>
       ELSE /\ requested' = requested \cup {e}
            /\ Answers({e}, "waiting")
            /\ IF installed # {} THEN UNCHANGED <<installed, interest>>
               ELSE installed' = installed \cup {e} /\ epoll_ctl("add", installed')
            /\ UNCHANGED known
    /\ UNCHANGED ready

\* readable(), writeable(): get_epoll_future, by the only user of the event.
Request(e) ==
    /\ answer[e] = "none"
    /\ IF e \in known
       THEN known' = known \ {e} /\ Answers({e}, "ready") /\ UNCHANGED <<requested, installed, interest>>
       ELSE /\ requested' = requested \cup {e}
            /\ Answers({e}, "waiting")
            /\ IF e \in installed THEN UNCHANGED <<installed, interest>>
               ELSE /\ installed' = installed \cup {e}
                    /\ epoll_ctl(IF installed = {} THEN "add" ELSE "mod", installed')
            /\ UNCHANGED known
    /\ UNCHANGED ready

\* The continuation reads or writes: when the kernel has nothing it asks
\* again, and when the whole buffer was used it expects that there is more.
Transfer(e) ==
    /\ answer[e] \in {"ready", "failed"}
    /\ Answers({e}, "none")
    /\ IF answer[e] = "ready" /\ e \in ready
       THEN known' \in {known, known \cup {e}} /\ ready' \in {ready, ready \ {e}}
       ELSE UNCHANGED <<known, ready>>
    /\ UNCHANGED <<requested, installed, interest>>

\* abort_reader, abort_writer
Abort(e) ==
    /\ IF e \in installed
       THEN /\ installed' = installed \ {e}
            /\ epoll_ctl(IF installed' # {} THEN "mod" ELSE "del", installed')
       ELSE UNCHANGED <<installed, interest>>
    /\ requested' = requested \ {e}
    /\ IF e \in requested THEN Answers({e}, "failed") ELSE UNCHANGED answer
    /\ known' = known \ {e}
    /\ UNCHANGED ready

\* wait_and_process: the kernel reports what is ready; what nobody asked for
\* is removed, so that it is not reported for ever.
Process ==
    /\ \E events \in {ready \cap interest} :
          LET unasked == events \ requested IN
          /\ events # {}
          /\ requested' = requested \ events
          /\ known' = known \ (events \cap requested)
          /\ Answers(events \cap requested, "ready")
          /\ installed' = installed \ unasked
          /\ IF unasked = {} THEN UNCHANGED interest
             ELSE epoll_ctl(IF installed' # {} THEN "mod" ELSE "del", installed')
    /\ UNCHANGED ready

\* Data or room arrives.
Arrive(e) == /\ e \notin ready
             /\ ready' = ready \cup {e}
             /\ UNCHANGED <<known, requested, installed, answer, interest>>

-----------------------------------------------------------------------------
TypeOK == /\ known \subseteq Event /\ requested \subseteq Event /\ installed \subseteq Event
          /\ answer \in [Event -> {"none", "waiting", "ready", "failed"}]
          /\ interest \subseteq Event /\ ready \subseteq Event

\* Whatever reading, writing, aborting and reporting follow each other, a
\* future that waits is one an event will find: it is requested, and its
\* event is installed in the kernel, whose view is that of events_epoll.
WaitersInstalled ==
    /\ requested = {e \in Event : answer[e] = "waiting"}
    /\ requested \subseteq installed
    /\ interest = installed
=============================================================================
