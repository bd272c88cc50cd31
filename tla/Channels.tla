------------------------------ MODULE Channels ------------------------------
(***************************************************************************)
(* What promises and futures are for: a channel carries one outcome from   *)
(* its writer, a promise, to its reader, a future or the continuation      *)
(* attached to it.  Objects move, are joined and are destroyed in any      *)
(* order; an outcome goes to the one reader of its channel, and a failure  *)
(* that no reader can see any more is reported.                            *)
(***************************************************************************)
EXTENDS FiniteSets

CONSTANTS Promise, Future, Task, None

VARIABLES chan,      \* the channels, each with an outcome to come or to read
          output,    \* output[t]: the promise that continuation t resolves
          handles,   \* the continuations that are given failures too
          reported   \* the last step reported a failure nobody looked at

chanVars == <<chan, output, handles, reported>>

Outcome == {"result", "exception"}
Channel(w, r, v) == [writer |-> w, reader |-> r, content |-> v]

Init == /\ chan = {}
        /\ output = [t \in Task |-> None]
        /\ handles = {}
        /\ reported = FALSE

\* The outcome is there; a continuation needs its writer no longer.
Resolved(c, v) == Channel(IF c.reader \in Task THEN None ELSE c.writer, c.reader, v)

\* The channel from is joined to the channel to, whose writer is given away.
Joined(C, from, to) ==
    (C \ {from, to}) \cup {IF from.content = "future"
                           THEN [to EXCEPT !.writer = from.writer]
                           ELSE Resolved(to, from.content)}

\* The writer of c goes away after the outcome has been written.
Closed(C, w) ==
    LET mine == {c \in C : c.writer = w}
    IN (C \ mine) \cup {[c EXCEPT !.writer = None] : c \in {d \in mine : d.reader # None}}

Unread(C, w) == \E c \in C : c.writer = w /\ c.reader = None /\ c.content = "exception"

Quiet == UNCHANGED <<output, handles>> /\ ~reported'

Open(w) == /\ Quiet
           /\ ~ \E c \in chan : c.writer = w
           /\ chan' = chan \cup {Channel(w, None, "future")}

GetFuture(c, f) == /\ Quiet
                   /\ c.reader = None /\ c.writer # None
                   /\ chan' = (chan \ {c}) \cup {[c EXCEPT !.reader = f]}

Resolve(c, v) == /\ Quiet
                 /\ c.writer # None /\ c.content = "future"
                 /\ chan' = (chan \ {c}) \cup {Resolved(c, v)}

\* A continuation replaces the future; its result has a channel of its own.
Attach(c, t, w, f) ==
    /\ ~reported'
    /\ c.reader \in Future
    /\ output[t] = None
    /\ output' = [output EXCEPT ![t] = w]
    /\ handles' \in {handles, handles \cup {t}}
    /\ chan' = (chan \ {c}) \cup {IF c.content = "future" THEN [c EXCEPT !.reader = t]
                                  ELSE Channel(None, t, c.content),
                                  Channel(w, f, "future")}

Forward(from, to) == /\ Quiet
                     /\ from # to /\ from.reader \in Future
                     /\ to.writer # None /\ to.content = "future"
                     /\ chan' = Joined(chan, from, to)

MoveWriter(c, w) == /\ Quiet
                    /\ c.writer # None
                    /\ chan' = (chan \ {c}) \cup {[c EXCEPT !.writer = w]}

MoveReader(c, f) == /\ Quiet
                    /\ c.reader \in Future
                    /\ chan' = (chan \ {c}) \cup {[c EXCEPT !.reader = f]}

\* A continuation whose outcome is there runs, once: its own outcome is
\* written, or that of the future it returns is joined to its channel.  A
\* failure passes through a continuation that does not handle it.
Run(c) ==
    LET t == c.reader
        w == output[t]
        rest == chan \ {c}
    IN /\ t \in Task /\ c.content \in Outcome
       /\ output' = [output EXCEPT ![t] = None]
       /\ handles' = handles \ {t}
       /\ \E out \in {d \in rest : d.writer = w} :
          \E after \in
             IF c.content = "exception" /\ t \notin handles
             THEN {(rest \ {out}) \cup {Resolved(out, "exception")}}
             ELSE {(rest \ {out}) \cup {Resolved(out, v)} : v \in Outcome}
                     \cup {Joined(rest, from, out) :
                             from \in {d \in rest : d.reader \in Future /\ d # out}} :
             /\ chan' = Closed(after, w)
             /\ \/ reported' = Unread(after, w)
                \/ c.content = "exception" /\ t \in handles /\ reported'

DropReader(c) == /\ UNCHANGED <<output, handles>>
                 /\ c.reader \in Future
                 /\ reported' = (c.content = "exception")
                 /\ chan' = (chan \ {c}) \cup
                       (IF c.writer = None THEN {} ELSE {[c EXCEPT !.reader = None]})

\* A promise is dropped.  If it never wrote, its future waits for ever and its
\* continuation is dropped with the promise that one would have resolved.
DropWriter(c) ==
    /\ c.writer # None
    /\ reported' = (c.reader = None /\ c.content = "exception")
    /\ \E D \in SUBSET {d \in chan : d.writer # None} :
        LET lost == {d.reader : d \in D} \cap Task IN
        /\ c \in D
        /\ \A d \in D : d # c => \E t \in lost : d.writer = output[t]
        /\ \A t \in lost : \E d \in D : d.writer = output[t]
        /\ output' = [t \in Task |-> IF t \in lost THEN None ELSE output[t]]
        /\ handles' = handles \ lost
        /\ chan' = (chan \ D) \cup {[d EXCEPT !.writer = None] : d \in {e \in D : e.reader \in Future}}

\* An object that is not the end of any channel is moved or destroyed.
Idle == Quiet /\ UNCHANGED chan

Next == \/ Idle
        \/ \E w \in Promise : Open(w)
        \/ \E c \in chan :
              \/ \E f \in Future : GetFuture(c, f) \/ MoveReader(c, f)
              \/ \E v \in Outcome : Resolve(c, v)
              \/ \E t \in Task, w \in Promise, f \in Future : Attach(c, t, w, f)
              \/ \E to \in chan : Forward(c, to)
              \/ \E w \in Promise : MoveWriter(c, w)
              \/ Run(c) \/ DropReader(c) \/ DropWriter(c)

Spec == Init /\ [][Next]_chanVars
=============================================================================
