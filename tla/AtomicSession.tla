--------------------------- MODULE AtomicSession ----------------------------
(***************************************************************************)
(* What the session store promises to gotd: an atomic register that holds  *)
(* the last session stored.  A store takes effect at one point between its *)
(* call and its return, if at all, and always if it succeeds; a load       *)
(* returns the session in place at one point between its call and its      *)
(* return.  A crash loses the calls under way; a power failure may lose    *)
(* the last stores as well, and leaves the session that was in place       *)
(* before them.                                                            *)
(***************************************************************************)
CONSTANTS Writers, Readers, Sessions, NotFound

VARIABLES
    value,    \* the session in place, NotFound before the first
    durable,  \* the session a power failure falls back to
    op,       \* the call of each process and the session it stores or found
    answer    \* what the last call of each process returned

vars == <<value, durable, op, answer>>

Processes == Writers \cup Readers
Idle == [phase |-> "idle", session |-> NotFound]

Init ==
    /\ value = NotFound
    /\ durable = NotFound
    /\ op = [p \in Processes |-> Idle]
    /\ answer = [p \in Processes |-> "none"]

Call(p, session) ==
    /\ op[p] = Idle
    /\ op' = [op EXCEPT ![p] = [phase |-> "called", session |-> session]]
    /\ answer' = [answer EXCEPT ![p] = "none"]
    /\ UNCHANGED <<value, durable>>

\* The point at which a store takes effect ...
Store(w) ==
    /\ op[w].phase = "called"
    /\ value' = op[w].session
    /\ op' = [op EXCEPT ![w].phase = "applied"]
    /\ UNCHANGED <<durable, answer>>

\* ... and at which a load sees the session in place.
Load(r) ==
    /\ op[r].phase = "called"
    /\ op' = [op EXCEPT ![r] = [phase |-> "applied", session |-> value]]
    /\ UNCHANGED <<value, durable, answer>>

Return(p, a) ==
    /\ op[p].phase # "idle"
    /\ op' = [op EXCEPT ![p] = Idle]
    /\ answer' = [answer EXCEPT ![p] = a]
    /\ UNCHANGED <<value, durable>>

ReturnStore(w) ==
    \/ Return(w, "failed")
    \/ op[w].phase = "applied" /\ Return(w, "ok")

ReturnLoad(r) ==
    \/ Return(r, "failed")
    \/ op[r].phase = "applied" /\ Return(r, op[r].session)

\* The session in place reaches the disk.
Flush ==
    /\ durable' = value
    /\ UNCHANGED <<value, op, answer>>

LoseCalls ==
    /\ op' = [p \in Processes |-> Idle]
    /\ answer' = [p \in Processes |-> "none"]

Crash == LoseCalls /\ UNCHANGED <<value, durable>>

PowerFailure == LoseCalls /\ value' = durable /\ UNCHANGED durable

Next ==
    \/ \E w \in Writers : (\E s \in Sessions : Call(w, s)) \/ Store(w) \/ ReturnStore(w)
    \/ \E r \in Readers : Call(r, NotFound) \/ Load(r) \/ ReturnLoad(r)
    \/ Flush \/ Crash \/ PowerFailure

Spec == Init /\ [][Next]_vars

=============================================================================
