---------------------------- MODULE RemoteCalls -----------------------------
(***************************************************************************)
(* What smp::submit_to promises for calls to other cores: the function of  *)
(* every submitted request runs on its target exactly once, the functions  *)
(* one core sends to another start in the order they were submitted, and   *)
(* the caller's promise is resolved once, after the function has finished. *)
(***************************************************************************)
EXTENDS Naturals, Sequences, FiniteSets

CONSTANTS Core,
          Program,   \* Program[c]: the requests core c submits, in order
          Target     \* Target[r]: the core the function of r runs on

VARIABLE phase       \* phase[r]: how far request r is

Request == UNION {{Program[c][i] : i \in DOMAIN Program[c]} : c \in Core}

Phase == {"new", "sent", "running", "finished", "done"}

\* Earlier[r]: what the same core submits before r to the same core.
Earlier == [r \in Request |->
    UNION {{Program[c][i] : i \in {k \in DOMAIN Program[c] :
                /\ Target[Program[c][k]] = Target[r]
                /\ \E j \in DOMAIN Program[c] : k < j /\ Program[c][j] = r}} : c \in Core}]

Init == phase = [r \in Request |-> "new"]

\* The requests of S move from one phase to the next together.
Move(S, from, to) == /\ \A r \in S : phase[r] = from
                     /\ phase' = [r \in Request |-> IF r \in S THEN to ELSE phase[r]]

Submit(r) == /\ \A s \in Earlier[r] : phase[s] # "new"
             /\ Move({r}, "new", "sent")

\* A batch of functions is started; no earlier request is overtaken.
Run(S) == /\ \A r \in S : \A s \in Earlier[r] \ S : phase[s] \notin {"new", "sent"}
          /\ Move(S, "sent", "running")

Finish(r) == Move({r}, "running", "finished")

Complete(S) == Move(S, "finished", "done")

InPhase(p) == {r \in Request : phase[r] = p}

Next == \/ \E r \in InPhase("new") : Submit(r)
        \/ \E S \in SUBSET InPhase("sent") : Run(S)
        \/ \E r \in InPhase("running") : Finish(r)
        \/ \E S \in SUBSET InPhase("finished") : Complete(S)

Spec == Init /\ [][Next]_phase
=============================================================================
