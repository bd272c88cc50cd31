---------------------------- MODULE SharedFuture ----------------------------
(***************************************************************************)
(* shared_future and shared_promise over an expiring_fifo of peers         *)
(* (src/include/future/future_all11.hh).                                   *)
(***************************************************************************)
EXTENDS Naturals, Sequences, FiniteSets

CONSTANTS Reader,
          MaxPeers    \* bound on the length of the list of peers

VARIABLES source,     \* state of the future that is shared
          futureState,  \* _future_state
          resolving,  \* the loop of resolve() runs
          peers, peerCount,  \* _peers: its entries and its _size
          reader      \* what each reader's future holds

sharedVars == <<source, futureState, resolving, peers, peerCount, reader>>

Outcome == {"value", "failed"}

\* A value is copied for each reader, and copying may throw.
Copies(state) == IF state = "value" THEN Outcome ELSE {state}

Init == /\ source = "future" /\ futureState = "future"
        /\ resolving = FALSE
        /\ peers = << >> /\ peerCount = 0
        /\ reader = [r \in Reader |-> "none"]

\* expiring_fifo::drop_expired_front; an entry is its reader, whether it has
\* its payload, and whether it has a timer.
DropExpired(entries) ==
    LET live == {i \in DOMAIN entries : entries[i].payload} IN
    IF live = {} THEN << >>
    ELSE LET first == CHOOSE i \in live : \A j \in live : i <= j
         IN SubSeq(entries, first, Len(entries))

\* shared_promise::set_value, set_exception, or whoever has the promise.
Set == /\ ~resolving
       /\ source = "future"
       /\ \E outcome \in Outcome : source' = outcome
       /\ UNCHANGED <<futureState, resolving, peers, peerCount, reader>>

\* get_future(timeout)
GetFuture(r, timed) ==
    /\ ~resolving
    /\ reader[r] = "none"
    /\ IF futureState = "future"
       THEN /\ Len(peers) < MaxPeers
            /\ peers' = Append(peers, [who |-> r, payload |-> TRUE, timed |-> timed])
            /\ peerCount' = peerCount + 1
            /\ reader' = [reader EXCEPT ![r] = "future"]
       ELSE /\ \E copy \in Copies(futureState) : reader' = [reader EXCEPT ![r] = copy]
            /\ UNCHANGED <<peers, peerCount>>
    /\ UNCHANGED <<source, futureState, resolving>>

\* The reader is done with its future.
Read(r) ==
    /\ ~resolving
    /\ reader[r] \in Outcome \cup {"timedout"}
    /\ reader' = [reader EXCEPT ![r] = "none"]
    /\ UNCHANGED <<source, futureState, resolving, peers, peerCount>>

\* The timer of an entry fires.
Expire(i) ==
    /\ ~resolving
    /\ peers[i].payload /\ peers[i].timed
    /\ reader' = [reader EXCEPT ![peers[i].who] = "timedout"]
    /\ peers' = DropExpired([peers EXCEPT ![i].payload = FALSE])
    /\ peerCount' = peerCount - 1
    /\ UNCHANGED <<source, futureState, resolving>>

\* The continuation on the shared future runs: resolve().
Resolve ==
    /\ source # "future" /\ futureState = "future"
    /\ futureState' = source
    /\ resolving' = TRUE
    /\ UNCHANGED <<source, peers, peerCount, reader>>

\* Fault: entries that expired behind the one popped stay in the list.
ResolvePeer_NotDropped ==
    /\ resolving /\ peerCount # 0
    /\ \E copy \in Copies(futureState) : reader' = [reader EXCEPT ![Head(peers).who] = copy]
    /\ peers' = Tail(peers)
    /\ peerCount' = peerCount - 1
    /\ UNCHANGED <<source, futureState, resolving>>

\* One turn of its loop.
ResolvePeer ==
    /\ resolving /\ peerCount # 0
    /\ \E copy \in Copies(futureState) : reader' = [reader EXCEPT ![Head(peers).who] = copy]
    /\ peers' = DropExpired(Tail(peers))
    /\ peerCount' = peerCount - 1
    /\ UNCHANGED <<source, futureState, resolving>>

EndResolve ==
    /\ resolving /\ peerCount = 0
    /\ resolving' = FALSE
    /\ UNCHANGED <<source, futureState, peers, peerCount, reader>>

-----------------------------------------------------------------------------
Entry == [who : Reader, payload : BOOLEAN, timed : BOOLEAN]

TypeOK == /\ source \in Outcome \cup {"future"}
          /\ futureState \in {"future", source}
          /\ resolving \in BOOLEAN
          /\ peers \in Seq(Entry)
          /\ peerCount \in Nat
          /\ reader \in [Reader -> Outcome \cup {"none", "future", "timedout"}]

Unanswered == {r \in Reader : reader[r] = "future"}

\* Every reader is answered once: a reader whose future is not resolved has
\* exactly one live entry, the front entry is live (resolve() and its loop
\* dereference it), and once resolve() has run nobody is left, although
\* timeouts took peers out of the middle of the list.
PeersAnswered ==
    /\ Cardinality({i \in DOMAIN peers : peers[i].payload}) = Cardinality(Unanswered)
    /\ \A r \in Unanswered : \E i \in DOMAIN peers : peers[i].payload /\ peers[i].who = r
    /\ peerCount = Cardinality(Unanswered)
    /\ peers # << >> => Head(peers).payload
    /\ futureState # "future" /\ ~resolving => peers = << >>
=============================================================================
