------------------------------ MODULE Streams -------------------------------
(***************************************************************************)
(* stream and subscription: a producer hands values to a function of the   *)
(* subscriber and waits until it is done with them; either end may be      *)
(* moved or destroyed first (src/include/future/future_all11.hh).          *)
(***************************************************************************)
EXTENDS FiniteSets

CONSTANTS Subscription,   \* the subscription objects
          Nobody

VARIABLES stream,         \* the members of the stream
          subscription,   \* the members of each subscription
          producer,       \* started() pending, may produce, in produce(), or at its end
          listener,       \* state of the future that the subscriber's function returned
          reader          \* state of the future of done()

streamVars == <<stream, subscription, producer, listener, reader>>

Gone == [alive |-> FALSE, linked |-> FALSE, next |-> FALSE]

Init == /\ stream = [alive |-> TRUE, sub |-> Nobody, ready |-> FALSE, done |-> "unset"]
        /\ subscription = [s \in Subscription |-> Gone]
        /\ producer = "waiting" /\ listener = "none" /\ reader = "none"

\* stream::listen and the constructor of subscription, which asserts that
\* the stream has no other.  That the stream was not started either is an
\* obligation of the caller: a second subscription would start it again.
Listen(s) ==
    /\ stream.alive /\ stream.sub = Nobody /\ ~stream.ready
    /\ ~subscription[s].alive
    /\ stream' = [stream EXCEPT !.sub = s]
    /\ subscription' = [subscription EXCEPT ![s] = [alive |-> TRUE, linked |-> TRUE, next |-> FALSE]]
    /\ UNCHANGED <<producer, listener, reader>>

\* subscription::start, once for a stream.
Start(s) ==
    /\ subscription[s].linked /\ ~stream.ready
    /\ stream' = [stream EXCEPT !.ready = TRUE]
    /\ subscription' = [subscription EXCEPT ![s].next = TRUE]
    /\ UNCHANGED <<producer, listener, reader>>

\* Fault: the stream is not told where its subscription is now.
Move_NotTold(s, t) ==
    /\ subscription[s].alive /\ ~subscription[t].alive
    /\ subscription' = [subscription EXCEPT ![t] = subscription[s],
                                            ![s].linked = FALSE, ![s].next = FALSE]
    /\ UNCHANGED <<stream, producer, listener, reader>>

\* The move constructor of subscription.
Move(s, t) ==
    /\ subscription[s].alive /\ ~subscription[t].alive
    /\ subscription' = [subscription EXCEPT ![t] = subscription[s],
                                            ![s].linked = FALSE, ![s].next = FALSE]
    /\ stream' = IF subscription[s].linked THEN [stream EXCEPT !.sub = t] ELSE stream
    /\ UNCHANGED <<producer, listener, reader>>

\* ~subscription
Destroy(s) ==
    /\ subscription[s].alive
    /\ subscription' = [subscription EXCEPT ![s] = Gone]
    /\ stream' = IF subscription[s].linked THEN [stream EXCEPT !.sub = Nobody] ELSE stream
    /\ UNCHANGED <<producer, listener, reader>>

\* subscription::done, once.
Done(s) ==
    /\ subscription[s].linked /\ reader = "none"
    /\ reader' = IF stream.done = "unset" THEN "future" ELSE stream.done
    /\ UNCHANGED <<stream, subscription, producer, listener>>

\* The continuation of stream::started().
Started ==
    /\ stream.alive /\ stream.ready /\ producer = "waiting"
    /\ producer' = "started"
    /\ UNCHANGED <<stream, subscription, listener, reader>>

\* stream::produce.  The code uses _sub unchecked: that there is somebody to
\* produce for is an obligation of the producer.  The subscriber's
\* function returns a ready future, one that is not ready, or fails.
Produce ==
    /\ producer = "started" /\ stream.sub # Nobody
    /\ \/ UNCHANGED <<producer, listener>>
       \/ producer' = "producing" /\ listener' \in {"future", "failed"}
    /\ UNCHANGED <<stream, subscription, reader>>

\* The subscriber resolves the future its function returned.
Consumed ==
    /\ listener = "future"
    /\ listener' \in {"value", "failed"}
    /\ UNCHANGED <<stream, subscription, producer, reader>>

\* _done is resolved, and with it the future of done().
SetDone(outcome) ==
    /\ stream' = [stream EXCEPT !.done = outcome]
    /\ reader' = IF reader = "future" THEN outcome ELSE reader

\* The continuation of produce(), which captured the stream.
Continue ==
    /\ producer = "producing" /\ listener \in {"value", "failed"}
    /\ listener' = "none"
    /\ IF listener = "failed"
       THEN SetDone("failed") /\ producer' = "ended"
       ELSE producer' = "started" /\ UNCHANGED <<stream, reader>>
    /\ UNCHANGED subscription

\* stream::close and set_exception, when the previous produce() is ready; the
\* producer whose produce() failed calls neither.
Close ==
    /\ producer = "started"
    /\ \E outcome \in {"value", "failed"} : SetDone(outcome)
    /\ producer' = "ended"
    /\ UNCHANGED <<subscription, listener>>

\* ~stream, not in the middle of produce() and not with done() unanswered.
DestroyStream ==
    /\ stream.alive /\ producer # "producing"
    /\ producer = "ended" \/ reader = "none"
    /\ stream' = [stream EXCEPT !.alive = FALSE, !.sub = Nobody]
    /\ subscription' = [s \in Subscription |->
          IF s = stream.sub THEN [subscription[s] EXCEPT !.linked = FALSE] ELSE subscription[s]]
    /\ producer' = "ended"
    /\ UNCHANGED <<listener, reader>>

-----------------------------------------------------------------------------
TypeOK ==
    /\ stream \in [alive : BOOLEAN, sub : Subscription \cup {Nobody}, ready : BOOLEAN,
                   done : {"unset", "value", "failed"}]
    /\ subscription \in [Subscription -> [alive : BOOLEAN, linked : BOOLEAN, next : BOOLEAN]]
    /\ producer \in {"waiting", "started", "producing", "ended"}
    /\ listener \in {"none", "future", "value", "failed"}
    /\ reader \in {"none", "future", "value", "failed"}

\* Whichever end is moved or destroyed first, neither keeps a pointer to an
\* end that is gone, a started stream with a subscription finds its function,
\* and who waits for done() is told once, when the subscriber's function is
\* not at work.
EndsAgree ==
    /\ \A s \in Subscription : subscription[s].linked =>
          subscription[s].alive /\ stream.alive /\ stream.sub = s
    /\ stream.sub # Nobody => subscription[stream.sub].linked
                              /\ (subscription[stream.sub].next = stream.ready)
    /\ reader # "none" => stream.done = IF reader = "future" THEN "unset" ELSE reader
    /\ stream.done # "unset" => listener = "none" /\ producer = "ended"
    /\ reader = "future" => stream.alive
=============================================================================
