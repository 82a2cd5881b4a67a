--------------------------- MODULE AuthFlowProofs ---------------------------
(***************************************************************************)
(* Proofs about AuthFlow: the invariant Inv is inductive, and with it the  *)
(* safety invariants, the two action properties and the refinement of      *)
(* LoginLifecycle hold for every set of requests, every set of endpoints   *)
(* the clients use, and every bound.                                       *)
(***************************************************************************)
EXTENDS AuthFlow, TLAPS

\* Calling the cancel func of Flow cancels only attempts that exist.
LEMMA CancelTyped ==
    ASSUME cancelled \subseteq Gens, cancel \in 0..MaxGen, CancelCurrent
    PROVE  cancelled' \subseteq Gens
BY AuthFlowAssumption DEF CancelCurrent, Gens, Nil

\* The invariant holds of a new Flow, before any request.
LEMMA InitInv == Init => Inv
<1> SUFFICES ASSUME Init PROVE Inv
  OBVIOUS
<1> USE AuthFlowAssumption DEF Init, Gens, Nil
<1>1. TypeOK
  <2>1. FlowTypeOK
    <3>1. inProgress \in BOOLEAN
      OBVIOUS
    <3> QED
      BY <3>1 DEF FlowTypeOK, States
  <2>2. AttemptTypeOK
    BY DEF AttemptTypeOK
  <2>3. RequestTypeOK
    BY DEF RequestTypeOK, RequestPCs, Answers
  <2> QED
    BY <2>1, <2>2, <2>3 DEF TypeOK
<1>2. HandlesInv /\ AttemptInv /\ StateInv /\ RequestInv
  BY DEF HandlesInv, AttemptInv, StateInv, StateFollowsFlow, RequestInv,
         AfterRun
<1> QED
  BY <1>1, <1>2 DEF Inv

-----------------------------------------------------------------------------
(* Steps of requests.                                                      *)

\* A request that only answers, or that goes on to read the state.
LEMMA InvAnswer ==
    ASSUME Inv, NEW r \in Requests,
        UNCHANGED <<flowVars, attemptVars, att, chan>>,
        \/ pc[r] = "awaitCode" /\ Goto(r, "readStatus") /\ UNCHANGED answer
        \/ \E a \in Answers : /\ Return(r, a)
                              /\ a = "logged_in" => state = "logged_in"
    PROVE  Inv'
<1> USE AuthFlowAssumption DEF Gens, Nil, Return, Goto, flowVars, attemptVars,
        requestVars
<1>1. TypeOK'
  <2>1. RequestTypeOK'
    BY DEF Inv, TypeOK, RequestTypeOK, RequestPCs
  <2> QED
    BY <2>1 DEF Inv, TypeOK, FlowTypeOK, AttemptTypeOK
<1>2. HandlesInv'
  BY DEF Inv, TypeOK, FlowTypeOK, AttemptTypeOK, RequestTypeOK, HandlesInv,
       AttemptInv, StateInv, RequestInv, InRun, AfterRun
<1>3. AttemptInv'
  BY DEF Inv, TypeOK, FlowTypeOK, AttemptTypeOK, RequestTypeOK, HandlesInv,
       AttemptInv, RequestInv, InRun, AfterRun
<1>4. StateInv'
  BY DEF Inv, TypeOK, FlowTypeOK, AttemptTypeOK, RequestTypeOK, HandlesInv,
       AttemptInv, StateInv, StateFollowsFlow, RequestInv, States, InRun,
       AfterRun
<1>5. RequestInv'
  BY DEF Inv, TypeOK, FlowTypeOK, AttemptTypeOK, RequestTypeOK, HandlesInv,
       AttemptInv, StateInv, RequestInv, RequestPCs, InRun, AfterRun
<1> QED
  BY <1>1, <1>2, <1>3, <1>4, <1>5 DEF Inv

\* StartLogin registers and launches a code attempt, only when none is in progress.
LEMMA InvStartLogin ==
    ASSUME Inv, NEW r \in Requests, StartLogin(r)
    PROVE  Inv'
<1> USE AuthFlowAssumption DEF Gens, Nil, StartLogin, Call, Begin, Goto, Hold,
        flowVars, attemptVars, requestVars
<1>1. TypeOK'
  <2>1. cancelled' \subseteq Gens
    BY CancelTyped DEF Inv, TypeOK, FlowTypeOK, AttemptTypeOK
  <2>2. FlowTypeOK'
    BY DEF Inv, TypeOK, FlowTypeOK, States
  <2>3. AttemptTypeOK'
    BY <2>1 DEF Inv, TypeOK, FlowTypeOK, AttemptTypeOK, InRun, AfterRun
  <2>4. RequestTypeOK'
    BY DEF Inv, TypeOK, FlowTypeOK, RequestTypeOK, RequestPCs, Answers, States
  <2> QED
    BY <2>2, <2>3, <2>4 DEF TypeOK
<1>2. HandlesInv'
  BY DEF Inv, TypeOK, FlowTypeOK, AttemptTypeOK, RequestTypeOK, HandlesInv,
       AttemptInv, StateInv, RequestInv, InRun, AfterRun, CancelCurrent
<1>3. AttemptInv'
  BY DEF Inv, TypeOK, FlowTypeOK, AttemptTypeOK, RequestTypeOK, HandlesInv,
       AttemptInv, RequestInv, InRun, AfterRun, CancelCurrent
<1>4. StateInv'
  BY DEF Inv, TypeOK, FlowTypeOK, AttemptTypeOK, RequestTypeOK, HandlesInv,
       AttemptInv, StateInv, StateFollowsFlow, RequestInv, States, InRun,
       AfterRun, CancelCurrent
<1>5. RequestInv'
  BY DEF Inv, TypeOK, FlowTypeOK, AttemptTypeOK, RequestTypeOK, HandlesInv,
       AttemptInv, StateInv, RequestInv, RequestPCs, InRun, AfterRun
<1> QED
  BY <1>1, <1>2, <1>3, <1>4, <1>5 DEF Inv

\* A submit picks up the handles of the attempt that waits for it.
LEMMA InvSubmit ==
    ASSUME Inv, NEW r \in Requests, NEW op,
           NEW st \in {"wait_code", "wait_password"},
           NEW where \in {"sendCode", "sendPass"}, Submit(r, op, st, where)
    PROVE  Inv'
<1> USE AuthFlowAssumption
    DEF Gens, Nil, Submit, Call, Goto, Hold, flowVars, attemptVars
<1>1. TypeOK'
  <2>1. RequestTypeOK'
    BY DEF Inv, TypeOK, FlowTypeOK, RequestTypeOK, RequestPCs
  <2> QED
    BY <2>1 DEF Inv, TypeOK, FlowTypeOK, AttemptTypeOK
<1>2. HandlesInv' /\ AttemptInv' /\ StateInv'
  BY DEF Inv, HandlesInv, AttemptInv, StateInv, StateFollowsFlow
<1>3. RequestInv'
  <2>1. auth = gen /\ done = gen /\ gen \in Gens
    BY DEF Inv, HandlesInv, StateInv
  <2> QED
    BY <2>1 DEF Inv, TypeOK, FlowTypeOK, RequestTypeOK, RequestInv
<1> QED
  BY <1>1, <1>2, <1>3 DEF Inv

\* StartQR preempts the attempt in progress and registers a QR attempt.
LEMMA InvStartQR ==
    ASSUME Inv, NEW r \in Requests, StartQR(r)
    PROVE  Inv'
<1> USE AuthFlowAssumption DEF Gens, Nil, StartQR, StartQRClear, MustAwait,
        Call, Begin, Goto, Hold, flowVars, attemptVars, requestVars
<1>1. TypeOK'
  <2>1. cancelled' \subseteq Gens
    BY CancelTyped DEF Inv, TypeOK, FlowTypeOK, AttemptTypeOK
  <2>2. FlowTypeOK'
    BY DEF Inv, TypeOK, FlowTypeOK, States
  <2>3. AttemptTypeOK'
    BY <2>1 DEF Inv, TypeOK, FlowTypeOK, AttemptTypeOK, InRun, AfterRun
  <2>4. RequestTypeOK'
    BY DEF Inv, TypeOK, FlowTypeOK, RequestTypeOK, RequestPCs, Answers, States
  <2> QED
    BY <2>2, <2>3, <2>4 DEF TypeOK
<1>2. HandlesInv'
  BY DEF Inv, TypeOK, FlowTypeOK, AttemptTypeOK, RequestTypeOK, HandlesInv,
       AttemptInv, StateInv, RequestInv, InRun, AfterRun, CancelCurrent
<1>3. AttemptInv'
  BY DEF Inv, TypeOK, FlowTypeOK, AttemptTypeOK, RequestTypeOK, HandlesInv,
       AttemptInv, RequestInv, InRun, AfterRun, CancelCurrent
<1>4. StateInv'
  BY DEF Inv, TypeOK, FlowTypeOK, AttemptTypeOK, RequestTypeOK, HandlesInv,
       AttemptInv, StateInv, StateFollowsFlow, RequestInv, States, InRun,
       AfterRun, CancelCurrent
<1>5. RequestInv'
  <2>1. kind'[gen + 1] = "qr" /\ (MustAwait => run'[gen + 1] = "none")
    BY DEF Inv, TypeOK, FlowTypeOK, AttemptTypeOK, AttemptInv
  <2>2. MustAwait => done \in Gens /\ done <= gen
    BY DEF Inv, TypeOK, FlowTypeOK, HandlesInv
  <2>3. ASSUME NEW p \in Requests, p # r
        PROVE  /\ att'[p] = att[p] /\ chan'[p] = chan[p]
               /\ pc'[p] = pc[p] /\ answer'[p] = answer[p]
    BY <2>3 DEF Inv, TypeOK, RequestTypeOK
  <2>4. \A g \in Gens : g <= gen => kind'[g] = kind[g] /\ run'[g] = run[g]
    BY DEF Inv, TypeOK, FlowTypeOK, AttemptTypeOK
  <2>5. \A p \in Requests : att[p] \in 0..gen /\ chan[p] \in 0..gen
    BY DEF Inv, TypeOK, FlowTypeOK, RequestTypeOK, RequestInv
  <2>6. /\ att'[r] = gen + 1
        /\ chan'[r] = IF MustAwait THEN done ELSE gen + 1
        /\ pc'[r] = IF MustAwait THEN "awaitPrev" ELSE "awaitURL"
        /\ answer'[r] = answer[r]
    BY DEF Inv, TypeOK, RequestTypeOK
  <2>7. gen \in Nat /\ gen' = gen + 1 /\ gen + 1 \in Gens /\ err' = err
    BY DEF Inv, TypeOK, FlowTypeOK
  <2> HIDE DEF StartQR, Call, Begin, Goto, Hold, requestVars, attemptVars, flowVars, MustAwait
  <2> QED
    BY <2>1, <2>2, <2>3, <2>4, <2>5, <2>6, <2>7 DEF Inv, RequestInv
<1> QED
  BY <1>1, <1>2, <1>3, <1>4, <1>5 DEF Inv

\* Logout cancels and disowns the attempt in progress.
LEMMA InvLogout ==
    ASSUME Inv, NEW r \in Requests, Logout(r)
    PROVE  Inv'
<1> USE AuthFlowAssumption DEF Gens, Nil, Logout, Call, ResetLocked, Return,
        Goto, flowVars, attemptVars, requestVars
<1>1. TypeOK'
  <2>1. cancelled' \subseteq Gens
    BY CancelTyped DEF Inv, TypeOK, FlowTypeOK, AttemptTypeOK
  <2>2. FlowTypeOK'
    <3>1. inProgress' \in BOOLEAN
      BY DEF Inv, TypeOK, FlowTypeOK
    <3>2. state' \in States
      BY DEF Inv, TypeOK, FlowTypeOK, States
    <3>3. cancel' \in 0..MaxGen /\ auth' \in 0..MaxGen /\ done' \in 0..MaxGen
      BY DEF Inv, TypeOK, FlowTypeOK
    <3>4. gen' \in 0..MaxGen
      BY DEF Inv, TypeOK, FlowTypeOK
    <3> QED
      BY <3>1, <3>2, <3>3, <3>4 DEF FlowTypeOK
  <2>3. AttemptTypeOK'
    BY <2>1 DEF Inv, TypeOK, FlowTypeOK, AttemptTypeOK, InRun, AfterRun
  <2>4. RequestTypeOK'
    BY DEF Inv, TypeOK, FlowTypeOK, RequestTypeOK, RequestPCs, Answers, States
  <2> QED
    BY <2>2, <2>3, <2>4 DEF TypeOK
<1>2. HandlesInv'
  BY DEF Inv, TypeOK, FlowTypeOK, AttemptTypeOK, RequestTypeOK, HandlesInv,
       AttemptInv, StateInv, RequestInv, InRun, AfterRun, CancelCurrent
<1>3. AttemptInv'
  BY DEF Inv, TypeOK, FlowTypeOK, AttemptTypeOK, RequestTypeOK, HandlesInv,
       AttemptInv, RequestInv, InRun, AfterRun, CancelCurrent
<1>4. StateInv'
  BY DEF Inv, TypeOK, FlowTypeOK, AttemptTypeOK, RequestTypeOK, HandlesInv,
       AttemptInv, StateInv, StateFollowsFlow, RequestInv, States, InRun,
       AfterRun, CancelCurrent
<1>5. RequestInv'
  BY DEF Inv, TypeOK, FlowTypeOK, AttemptTypeOK, RequestTypeOK, HandlesInv,
       AttemptInv, StateInv, RequestInv, RequestPCs, InRun, AfterRun
<1> QED
  BY <1>1, <1>2, <1>3, <1>4, <1>5 DEF Inv

\* A code or password is handed to the attempt that waits for it.
LEMMA InvDeliver ==
    ASSUME Inv, NEW r \in Requests,
           NEW from \in {"sendCode", "sendPass"},
           NEW to \in {"observeCode", "observePass"}, NEW recv, NEW next,
           \/ recv = "codeWait" /\ next = "signIn"
           \/ recv = "passWait" /\ next = "checkPass",
           Deliver(r, from, recv, next, to)
    PROVE  Inv'
<1> USE AuthFlowAssumption DEF Gens, Nil, Deliver, Goto, flowVars
<1>1. TypeOK'
  <2>1. FlowTypeOK'
    BY DEF Inv, TypeOK, FlowTypeOK
  <2>2. AttemptTypeOK'
    BY DEF Inv, TypeOK, AttemptTypeOK, InRun
  <2>3. RequestTypeOK'
    BY DEF Inv, TypeOK, RequestTypeOK, RequestPCs
  <2> QED
    BY <2>1, <2>2, <2>3 DEF TypeOK
<1>2. HandlesInv'
  BY DEF Inv, TypeOK, FlowTypeOK, AttemptTypeOK, HandlesInv
<1>3. AttemptInv'
  BY DEF Inv, TypeOK, FlowTypeOK, AttemptTypeOK, AttemptInv, AfterRun
<1>4. StateInv'
  BY DEF Inv, TypeOK, FlowTypeOK, AttemptTypeOK, HandlesInv, AttemptInv,
         StateInv, StateFollowsFlow, AfterRun
<1>5. RequestInv'
  BY DEF Inv, TypeOK, FlowTypeOK, AttemptTypeOK, RequestTypeOK, RequestInv
<1> QED
  BY <1>1, <1>2, <1>3, <1>4, <1>5 DEF Inv

\* A request learns that the attempt it follows ended.
LEMMA InvEnded ==
    ASSUME Inv, NEW r \in Requests,
           StartLoginEnded(r) \/ SubmitEnded(r) \/ StartQREnded(r)
    PROVE  Inv'
<1> USE AuthFlowAssumption DEF Gens, Nil, flowVars
<1>1. /\ chan[r] \in Gens
      /\ doneCh[chan[r]] # "empty"
      /\ doneCh' = [doneCh EXCEPT ![chan[r]] = "empty"]
      /\ UNCHANGED <<flowVars, kind, run, err, cancelled, codeReq, passReq,
                     urlCh, att, chan>>
      /\ \/ /\ pc[r] \notin {"idle", "returned"}
            /\ pc' = [pc EXCEPT ![r] = "readStatus"]
            /\ answer' = answer
         \/ /\ pc' = [pc EXCEPT ![r] = "returned"]
            /\ \E a \in Answers :
                  /\ answer' = [answer EXCEPT ![r] = a]
                  /\ a = "logged_in" => doneCh[chan[r]] = "nil"
  <2>1. pc[r] \notin {"idle", "returned"}
    BY DEF StartLoginEnded, SubmitEnded, StartQREnded
  <2>2. chan[r] \in Gens
    BY <2>1 DEF Inv, RequestInv
  <2>3. CASE StartLoginEnded(r)
    BY <2>1, <2>2, <2>3
       DEF StartLoginEnded, ReceiveDone, Return, Goto, Answers, States
  <2>4. CASE SubmitEnded(r)
    BY <2>2, <2>4 DEF SubmitEnded, ReceiveDone, Return, Goto, Answers, States
  <2>5. CASE StartQREnded(r)
    BY <2>2, <2>5 DEF StartQREnded, ReceiveDone, Return, Goto, Answers, States
  <2> QED
    BY <2>3, <2>4, <2>5
<1>2. TypeOK'
  <2>1. FlowTypeOK' /\ AttemptTypeOK'
    BY <1>1 DEF Inv, TypeOK, FlowTypeOK, AttemptTypeOK
  <2>2. RequestTypeOK'
    BY <1>1 DEF Inv, TypeOK, RequestTypeOK, RequestPCs
  <2> QED
    BY <2>1, <2>2 DEF TypeOK
<1>3. HandlesInv' /\ StateInv'
  BY <1>1 DEF Inv, HandlesInv, StateInv, StateFollowsFlow
<1>4. AttemptInv'
  BY <1>1 DEF Inv, TypeOK, FlowTypeOK, AttemptTypeOK, AttemptInv
<1>5. RequestInv'
  <2>1. doneCh[chan[r]] = "nil" => err[chan[r]] = "nil"
    BY <1>1 DEF Inv, AttemptInv
  <2> QED
    BY <1>1, <2>1 DEF Inv, TypeOK, RequestTypeOK, RequestInv
<1> QED
  BY <1>2, <1>3, <1>4, <1>5 DEF Inv

\* StartQR launches its attempt once the preempted one is over.
LEMMA InvStartQRLaunch ==
    ASSUME Inv, NEW r \in Requests, StartQRLaunch(r)
    PROVE  Inv'
<1> USE AuthFlowAssumption DEF Gens, Nil, StartQRLaunch, ReceiveDone, Goto,
        Hold, flowVars, attemptVars, requestVars
<1>1. TypeOK'
  BY DEF Inv, TypeOK, FlowTypeOK, AttemptTypeOK, RequestTypeOK, States,
       Answers, RequestPCs, RequestInv, InRun, AfterRun
<1>2. HandlesInv'
  BY DEF Inv, TypeOK, FlowTypeOK, AttemptTypeOK, RequestTypeOK, HandlesInv,
       AttemptInv, StateInv, RequestInv, InRun, AfterRun
<1>3. AttemptInv'
  BY DEF Inv, TypeOK, FlowTypeOK, AttemptTypeOK, RequestTypeOK, HandlesInv,
       AttemptInv, RequestInv, InRun, AfterRun
<1>4. StateInv'
  BY DEF Inv, TypeOK, FlowTypeOK, AttemptTypeOK, RequestTypeOK, HandlesInv,
       AttemptInv, StateInv, StateFollowsFlow, RequestInv, States, InRun,
       AfterRun
<1>5. RequestInv'
  BY DEF Inv, TypeOK, FlowTypeOK, AttemptTypeOK, RequestTypeOK, HandlesInv,
       AttemptInv, StateInv, RequestInv, RequestPCs, InRun, AfterRun
<1> QED
  BY <1>1, <1>2, <1>3, <1>4, <1>5 DEF Inv

\* StartQR takes the URL.
LEMMA InvStartQRShown ==
    ASSUME Inv, NEW r \in Requests, StartQRShown(r)
    PROVE  Inv'
<1> USE AuthFlowAssumption DEF Gens, Nil, StartQRShown, Return, Goto,
        flowVars, attemptVars, requestVars
<1>1. TypeOK'
  BY DEF Inv, TypeOK, FlowTypeOK, AttemptTypeOK, RequestTypeOK, States,
       Answers, Endpoints, RequestPCs, InRun, AfterRun
<1>2. HandlesInv'
  BY DEF Inv, TypeOK, FlowTypeOK, AttemptTypeOK, RequestTypeOK, HandlesInv,
       AttemptInv, StateInv, RequestInv, InRun, AfterRun
<1>3. AttemptInv'
  BY DEF Inv, TypeOK, FlowTypeOK, AttemptTypeOK, RequestTypeOK, HandlesInv,
       AttemptInv, RequestInv, InRun, AfterRun
<1>4. StateInv'
  BY DEF Inv, TypeOK, FlowTypeOK, AttemptTypeOK, RequestTypeOK, HandlesInv,
       AttemptInv, StateInv, StateFollowsFlow, RequestInv, States, InRun,
       AfterRun
<1>5. RequestInv'
  BY DEF Inv, TypeOK, FlowTypeOK, AttemptTypeOK, RequestTypeOK, HandlesInv,
       AttemptInv, StateInv, RequestInv, RequestPCs, InRun, AfterRun
<1> QED
  BY <1>1, <1>2, <1>3, <1>4, <1>5 DEF Inv

\* A cancelled StartLogin or StartQR abandons its attempt.
LEMMA InvStartCancelled ==
    ASSUME Inv, NEW r \in Requests, StartCancelled(r)
    PROVE  Inv'
<1> USE AuthFlowAssumption DEF Gens, Nil, StartCancelled, Abandon,
        ResetLocked, Return, Goto, flowVars, attemptVars, requestVars
<1>1. TypeOK'
  <2>1. cancelled' \subseteq Gens
    BY CancelTyped DEF Inv, TypeOK, FlowTypeOK, AttemptTypeOK
  <2>2. FlowTypeOK'
    <3>1. inProgress' \in BOOLEAN
      BY DEF Inv, TypeOK, FlowTypeOK
    <3>2. state' \in States
      BY DEF Inv, TypeOK, FlowTypeOK, States
    <3>3. cancel' \in 0..MaxGen /\ auth' \in 0..MaxGen /\ done' \in 0..MaxGen
      BY DEF Inv, TypeOK, FlowTypeOK
    <3>4. gen' \in 0..MaxGen
      BY DEF Inv, TypeOK, FlowTypeOK
    <3> QED
      BY <3>1, <3>2, <3>3, <3>4 DEF FlowTypeOK
  <2>3. AttemptTypeOK'
    BY <2>1 DEF Inv, TypeOK, FlowTypeOK, AttemptTypeOK, InRun, AfterRun
  <2>4. RequestTypeOK'
    BY DEF Inv, TypeOK, FlowTypeOK, RequestTypeOK, RequestPCs, Answers, States
  <2> QED
    BY <2>2, <2>3, <2>4 DEF TypeOK
<1>2. HandlesInv'
  BY DEF Inv, TypeOK, FlowTypeOK, AttemptTypeOK, RequestTypeOK, HandlesInv,
       AttemptInv, StateInv, RequestInv, InRun, AfterRun, CancelCurrent
<1>3. AttemptInv'
  BY DEF Inv, TypeOK, FlowTypeOK, AttemptTypeOK, RequestTypeOK, HandlesInv,
       AttemptInv, RequestInv, InRun, AfterRun, CancelCurrent
<1>4. StateInv'
  BY DEF Inv, TypeOK, FlowTypeOK, AttemptTypeOK, RequestTypeOK, HandlesInv,
       AttemptInv, StateInv, StateFollowsFlow, RequestInv, States, InRun,
       AfterRun, CancelCurrent
<1>5. RequestInv'
  BY DEF Inv, TypeOK, FlowTypeOK, AttemptTypeOK, RequestTypeOK, HandlesInv,
       AttemptInv, StateInv, RequestInv, RequestPCs, InRun, AfterRun
<1> QED
  BY <1>1, <1>2, <1>3, <1>4, <1>5 DEF Inv

-----------------------------------------------------------------------------
(* Steps of an attempt's goroutine.                                        *)

\* Code publishes wait_code, if its attempt is current.
LEMMA InvOnCode ==
    ASSUME Inv, NEW g \in Gens, OnCode(g)
    PROVE  Inv'
<1> USE AuthFlowAssumption DEF Gens, Nil, OnCode, RunGoto, Transition,
        flowVars, attemptVars, requestVars
<1>1. TypeOK'
  BY DEF Inv, TypeOK, FlowTypeOK, AttemptTypeOK, RequestTypeOK, States,
       Answers, Endpoints, RequestPCs, InRun, AfterRun
<1>2. HandlesInv'
  BY DEF Inv, TypeOK, FlowTypeOK, AttemptTypeOK, RequestTypeOK, HandlesInv,
       AttemptInv, StateInv, RequestInv, InRun, AfterRun
<1>3. AttemptInv'
  BY DEF Inv, TypeOK, FlowTypeOK, AttemptTypeOK, RequestTypeOK, HandlesInv,
       AttemptInv, RequestInv, InRun, AfterRun
<1>4. StateInv'
  BY DEF Inv, TypeOK, FlowTypeOK, AttemptTypeOK, RequestTypeOK, HandlesInv,
       AttemptInv, StateInv, StateFollowsFlow, RequestInv, States, InRun,
       AfterRun
<1>5. RequestInv'
  BY DEF Inv, TypeOK, FlowTypeOK, AttemptTypeOK, RequestTypeOK, HandlesInv,
       AttemptInv, StateInv, RequestInv, RequestPCs, InRun, AfterRun
<1> QED
  BY <1>1, <1>2, <1>3, <1>4, <1>5 DEF Inv

\* Password publishes wait_password, if its attempt is current.
LEMMA InvOnPass ==
    ASSUME Inv, NEW g \in Gens, OnPass(g)
    PROVE  Inv'
<1> USE AuthFlowAssumption DEF Gens, Nil, OnPass, RunGoto, Transition,
        flowVars, attemptVars, requestVars
<1>1. TypeOK'
  BY DEF Inv, TypeOK, FlowTypeOK, AttemptTypeOK, RequestTypeOK, States,
       Answers, Endpoints, RequestPCs, InRun, AfterRun
<1>2. HandlesInv'
  BY DEF Inv, TypeOK, FlowTypeOK, AttemptTypeOK, RequestTypeOK, HandlesInv,
       AttemptInv, StateInv, RequestInv, InRun, AfterRun
<1>3. AttemptInv'
  BY DEF Inv, TypeOK, FlowTypeOK, AttemptTypeOK, RequestTypeOK, HandlesInv,
       AttemptInv, RequestInv, InRun, AfterRun
<1>4. StateInv'
  BY DEF Inv, TypeOK, FlowTypeOK, AttemptTypeOK, RequestTypeOK, HandlesInv,
       AttemptInv, StateInv, StateFollowsFlow, RequestInv, States, InRun,
       AfterRun
<1>5. RequestInv'
  BY DEF Inv, TypeOK, FlowTypeOK, AttemptTypeOK, RequestTypeOK, HandlesInv,
       AttemptInv, StateInv, RequestInv, RequestPCs, InRun, AfterRun
<1> QED
  BY <1>1, <1>2, <1>3, <1>4, <1>5 DEF Inv

\* Code or Password signals its request channel.
LEMMA InvClose ==
    ASSUME Inv, NEW g \in Gens, CloseCodeReq(g) \/ ClosePassReq(g)
    PROVE  Inv'
<1> USE AuthFlowAssumption DEF Gens, Nil, CloseCodeReq, ClosePassReq, RunGoto,
        flowVars, attemptVars, requestVars
<1>1. TypeOK'
  BY DEF Inv, TypeOK, FlowTypeOK, AttemptTypeOK, RequestTypeOK, States,
       Answers, Endpoints, RequestPCs, InRun, AfterRun
<1>2. HandlesInv'
  BY DEF Inv, TypeOK, FlowTypeOK, AttemptTypeOK, RequestTypeOK, HandlesInv,
       AttemptInv, StateInv, RequestInv, InRun, AfterRun
<1>3. AttemptInv'
  BY DEF Inv, TypeOK, FlowTypeOK, AttemptTypeOK, AttemptInv, InRun, AfterRun
<1>4. StateInv'
  BY DEF Inv, TypeOK, FlowTypeOK, AttemptTypeOK, RequestTypeOK, HandlesInv,
       AttemptInv, StateInv, StateFollowsFlow, RequestInv, States, InRun,
       AfterRun
<1>5. RequestInv'
  BY DEF Inv, TypeOK, FlowTypeOK, AttemptTypeOK, RequestTypeOK, HandlesInv,
       AttemptInv, StateInv, RequestInv, RequestPCs, InRun, AfterRun
<1> QED
  BY <1>1, <1>2, <1>3, <1>4, <1>5 DEF Inv

\* RunQR shows a token, the first or a fresh one.
LEMMA InvToken ==
    ASSUME Inv, NEW g \in Gens, ShowToken(g) \/ RefreshToken(g)
    PROVE  Inv'
<1> USE AuthFlowAssumption DEF Gens, Nil, RefreshToken, ShowToken, RunGoto,
        flowVars, attemptVars, requestVars
<1>1. TypeOK'
  BY DEF Inv, TypeOK, FlowTypeOK, AttemptTypeOK, RequestTypeOK, States,
       Answers, Endpoints, RequestPCs, InRun, AfterRun
<1>2. HandlesInv'
  BY DEF Inv, TypeOK, FlowTypeOK, AttemptTypeOK, RequestTypeOK, HandlesInv,
       AttemptInv, StateInv, RequestInv, InRun, AfterRun
<1>3. AttemptInv'
  BY DEF Inv, TypeOK, FlowTypeOK, AttemptTypeOK, RequestTypeOK, HandlesInv,
       AttemptInv, RequestInv, InRun, AfterRun
<1>4. StateInv'
  BY DEF Inv, TypeOK, FlowTypeOK, AttemptTypeOK, RequestTypeOK, HandlesInv,
       AttemptInv, StateInv, StateFollowsFlow, RequestInv, States, InRun,
       AfterRun
<1>5. RequestInv'
  BY DEF Inv, TypeOK, FlowTypeOK, AttemptTypeOK, RequestTypeOK, HandlesInv,
       AttemptInv, StateInv, RequestInv, RequestPCs, InRun, AfterRun
<1> QED
  BY <1>1, <1>2, <1>3, <1>4, <1>5 DEF Inv

\* RunAuth or RunQR returns.
LEMMA InvRunReturns ==
    ASSUME Inv, NEW g \in Gens,
        NEW from \in SUBSET InRun, NEW e \in {"nil", "err"},
        RunReturns(g, from, e)
    PROVE  Inv'
<1> USE AuthFlowAssumption DEF Gens, Nil, RunReturns, flowVars, attemptVars,
        requestVars
<1>1. TypeOK'
  BY DEF Inv, TypeOK, FlowTypeOK, AttemptTypeOK, RequestTypeOK, States,
       Answers, Endpoints, RequestPCs, InRun, AfterRun
<1>2. HandlesInv'
  BY DEF Inv, TypeOK, FlowTypeOK, AttemptTypeOK, RequestTypeOK, HandlesInv,
       AttemptInv, StateInv, RequestInv, InRun, AfterRun
<1>3. AttemptInv'
  BY DEF Inv, TypeOK, FlowTypeOK, AttemptTypeOK, RequestTypeOK, HandlesInv,
       AttemptInv, RequestInv, InRun, AfterRun
<1>4. StateInv'
  <2>1. CASE g = gen
    BY <2>1 DEF Inv, TypeOK, FlowTypeOK, AttemptTypeOK, HandlesInv,
         AttemptInv, StateInv, StateFollowsFlow, InRun, AfterRun
  <2>2. CASE g # gen
    <3>1. run'[gen] = run[gen] /\ err'[gen] = err[gen]
      BY <2>2 DEF Inv, TypeOK, FlowTypeOK, AttemptTypeOK
    <3>2. gen - 1 \in Gens /\ err[gen - 1] = "nil" => err'[gen - 1] = "nil"
      BY DEF Inv, TypeOK, FlowTypeOK, AttemptTypeOK, AttemptInv, InRun,
           AfterRun
    <3> QED
      BY <3>1, <3>2 DEF Inv, StateInv, StateFollowsFlow
  <2> QED
    BY <2>1, <2>2
<1>5. RequestInv'
  <2>1. \A h \in Gens : err[h] = "nil" => err'[h] = "nil"
    BY DEF Inv, TypeOK, FlowTypeOK, AttemptTypeOK, AttemptInv, InRun, AfterRun
  <2>2. \A h \in Gens : run[h] = "none" => run'[h] = "none"
    BY DEF Inv, TypeOK, AttemptTypeOK, InRun
  <2>3. UNCHANGED <<gen, kind, pc, att, chan, answer>>
    OBVIOUS
  <2> HIDE DEF RunReturns, flowVars, attemptVars, requestVars
  <2> QED
    BY <2>1, <2>2, <2>3 DEF Inv, RequestInv
<1> QED
  BY <1>1, <1>2, <1>3, <1>4, <1>5 DEF Inv

\* finishAttempt records the result of the current attempt.
LEMMA InvFinishAttempt ==
    ASSUME Inv, NEW g \in Gens, FinishAttempt(g)
    PROVE  Inv'
<1> USE AuthFlowAssumption DEF Gens, Nil, FinishAttempt, RunGoto, flowVars,
        attemptVars, requestVars
<1>1. TypeOK'
  <2>1. cancelled' \subseteq Gens
    BY CancelTyped DEF Inv, TypeOK, FlowTypeOK, AttemptTypeOK
  <2>2. FlowTypeOK'
    <3>1. inProgress' \in BOOLEAN
      BY DEF Inv, TypeOK, FlowTypeOK
    <3>2. state' \in States
      BY DEF Inv, TypeOK, FlowTypeOK, States
    <3>3. cancel' \in 0..MaxGen /\ auth' \in 0..MaxGen /\ done' \in 0..MaxGen
      BY DEF Inv, TypeOK, FlowTypeOK
    <3>4. gen' \in 0..MaxGen
      BY DEF Inv, TypeOK, FlowTypeOK
    <3> QED
      BY <3>1, <3>2, <3>3, <3>4 DEF FlowTypeOK
  <2>3. AttemptTypeOK'
    BY <2>1 DEF Inv, TypeOK, FlowTypeOK, AttemptTypeOK, InRun, AfterRun
  <2>4. RequestTypeOK'
    BY DEF Inv, TypeOK, FlowTypeOK, RequestTypeOK, RequestPCs, Answers, States
  <2> QED
    BY <2>2, <2>3, <2>4 DEF TypeOK
<1>2. HandlesInv'
  BY DEF Inv, TypeOK, FlowTypeOK, AttemptTypeOK, RequestTypeOK, HandlesInv,
       AttemptInv, StateInv, RequestInv, InRun, AfterRun, CancelCurrent
<1>3. AttemptInv'
  BY DEF Inv, TypeOK, FlowTypeOK, AttemptTypeOK, RequestTypeOK, HandlesInv,
       AttemptInv, RequestInv, InRun, AfterRun, CancelCurrent
<1>4. StateInv'
  BY DEF Inv, TypeOK, FlowTypeOK, AttemptTypeOK, RequestTypeOK, HandlesInv,
       AttemptInv, StateInv, StateFollowsFlow, RequestInv, States, InRun,
       AfterRun, CancelCurrent
<1>5. RequestInv'
  BY DEF Inv, TypeOK, FlowTypeOK, AttemptTypeOK, RequestTypeOK, HandlesInv,
       AttemptInv, StateInv, RequestInv, RequestPCs, InRun, AfterRun
<1> QED
  BY <1>1, <1>2, <1>3, <1>4, <1>5 DEF Inv

\* The attempt's error goes into its done channel.
LEMMA InvSendDone ==
    ASSUME Inv, NEW g \in Gens, SendDone(g)
    PROVE  Inv'
<1> USE AuthFlowAssumption DEF Gens, Nil, SendDone, RunGoto, flowVars,
        attemptVars, requestVars
<1>1. TypeOK'
  <2>1. err[g] \in {"nil", "err"}
    BY DEF Inv, TypeOK, FlowTypeOK, AttemptTypeOK, AttemptInv, AfterRun
  <2> QED
    BY <2>1 DEF Inv, TypeOK, FlowTypeOK, AttemptTypeOK, RequestTypeOK, InRun,
         AfterRun
<1>2. HandlesInv'
  BY DEF Inv, TypeOK, FlowTypeOK, AttemptTypeOK, RequestTypeOK, HandlesInv,
       AttemptInv, StateInv, RequestInv, InRun, AfterRun
<1>3. AttemptInv'
  BY DEF Inv, TypeOK, FlowTypeOK, AttemptTypeOK, RequestTypeOK, HandlesInv,
       AttemptInv, RequestInv, InRun, AfterRun
<1>4. StateInv'
  BY DEF Inv, TypeOK, FlowTypeOK, AttemptTypeOK, RequestTypeOK, HandlesInv,
       AttemptInv, StateInv, StateFollowsFlow, RequestInv, States, InRun,
       AfterRun
<1>5. RequestInv'
  BY DEF Inv, TypeOK, FlowTypeOK, AttemptTypeOK, RequestTypeOK, HandlesInv,
       AttemptInv, StateInv, RequestInv, RequestPCs, InRun, AfterRun
<1> QED
  BY <1>1, <1>2, <1>3, <1>4, <1>5 DEF Inv

-----------------------------------------------------------------------------

\* Every step preserves the invariant.
LEMMA NextInv == Inv /\ [Next]_vars => Inv'
<1> SUFFICES ASSUME Inv, [Next]_vars PROVE Inv'
  OBVIOUS
<1>1. ASSUME NEW r \in Requests, ClientCall(r) PROVE Inv'
  <2>1. CASE BadRequest(r) \/ StartLoginBusy(r) \/ SubmitRejected(r)
    BY <2>1, InvAnswer
       DEF BadRequest, StartLoginBusy, SubmitRejected, Answers
  <2>2. CASE Status(r)
    BY <2>2, InvAnswer
       DEF Status, Answers, Inv, TypeOK, FlowTypeOK
  <2>3. CASE SubmitCode(r) \/ SubmitPassword(r)
    BY <2>3, InvSubmit DEF SubmitCode, SubmitPassword
  <2> QED
    BY <1>1, <2>1, <2>2, <2>3, InvStartLogin, InvStartQR, InvLogout
       DEF ClientCall
<1>2. ASSUME NEW r \in Requests, RequestStep(r) PROVE Inv'
  <2>1. CASE StartLoginCodeAsked(r)
    BY <2>1, InvAnswer DEF StartLoginCodeAsked
  <2>2. CASE AnswerStatus(r)
    BY <2>2, InvAnswer
       DEF AnswerStatus, Answers, Inv, TypeOK, FlowTypeOK
  <2>3. CASE SubmitCodePasswordNeeded(r)
    BY <2>3, InvAnswer DEF SubmitCodePasswordNeeded, Answers, States
  <2>4. CASE DeliverCode(r) \/ DeliverPassword(r)
    BY <2>4, InvDeliver DEF DeliverCode, DeliverPassword
  <2> QED
    BY <1>2, <2>1, <2>2, <2>3, <2>4, InvEnded, InvStartQRLaunch,
       InvStartQRShown DEF RequestStep
<1>3. ASSUME NEW r \in Requests, ClientCancels(r) PROVE Inv'
  <2>1. CASE SubmitCancelled(r)
    BY <2>1, InvAnswer DEF SubmitCancelled, Answers
  <2> QED
    BY <1>3, <2>1, InvStartCancelled DEF ClientCancels
<1>4. ASSUME NEW g \in Gens, AttemptStep(g) \/ Environment(g) PROVE Inv'
  <2>1. CASE RunSucceeds(g) \/ ScanSucceeds(g) \/ RunFails(g) \/ ConnectionLost(g)
    BY <2>1, InvRunReturns
       DEF RunSucceeds, ScanSucceeds, RunFails, ConnectionLost, InRPC, InRun
  <2> QED
    BY <1>4, <2>1, InvOnCode, InvOnPass, InvClose, InvToken, InvFinishAttempt,
       InvSendDone DEF AttemptStep, Environment, Unwind
<1>5. CASE UNCHANGED vars
  BY <1>5 DEF vars, flowVars, attemptVars, requestVars, Inv, TypeOK,
              FlowTypeOK, AttemptTypeOK, RequestTypeOK, HandlesInv,
              AttemptInv, StateInv, StateFollowsFlow, RequestInv
<1> QED
  BY <1>1, <1>2, <1>3, <1>4, <1>5 DEF Next

\* The inductive invariant holds of every run of the login state machine.
THEOREM InvAlways == Spec => []Inv
<1>1. Init => Inv
  BY InitInv
<1>2. Inv /\ [Next]_vars => Inv'
  BY NextInv
<1> QED
  BY <1>1, <1>2, PTL DEF Spec

\* Every variable keeps its type: no nil cancel func is called.
THEOREM TypeCorrect == Spec => []TypeOK
<1>1. Inv => TypeOK
  BY DEF Inv
<1> QED
  BY <1>1, InvAlways, PTL

\* Submit* calls never pick up a nil authenticator or another attempt's
\* channel.
THEOREM LiveHandleAlways == Spec => []LiveHandle
<1>1. Inv => LiveHandle
  BY AuthFlowAssumption
     DEF Inv, HandlesInv, StateInv, LiveHandle, Gens, Nil
<1> QED
  BY <1>1, InvAlways, PTL

\* The published state never drifts from the flow that runs.
THEOREM StateFollowsFlowAlways == Spec => []StateFollowsFlow
<1>1. Inv => StateFollowsFlow
  BY DEF Inv, StateInv
<1> QED
  BY <1>1, InvAlways, PTL

\* No login run is left that Flow cannot cancel any more.
THEOREM OnlyCurrentRunsFreeAlways == Spec => []OnlyCurrentRunsFree
<1>1. Inv => OnlyCurrentRunsFree
  <2> SUFFICES ASSUME Inv, NEW g \in Gens, run[g] \in InRun, g \notin cancelled
               PROVE  g = gen /\ inProgress /\ cancel = g
    BY DEF OnlyCurrentRunsFree
  <2>1. kind[g] # "none"
    BY DEF Inv, AttemptInv, InRun
  <2>2. g = gen /\ inProgress
    BY <2>1 DEF Inv, AttemptInv
  <2> QED
    BY <2>2 DEF Inv, HandlesInv
<1> QED
  BY <1>1, InvAlways, PTL

\* logged_in is always the recorded success of an attempt.
THEOREM LoggedInEarnedAlways == Spec => []LoggedInEarned
<1>1. Inv => LoggedInEarned
  BY DEF Inv, StateInv, RequestInv, LoggedInEarned
<1> QED
  BY <1>1, InvAlways, PTL

-----------------------------------------------------------------------------
(* Action properties and refinement.                                       *)

\* What a step other than a call, an abandonment or an attempt's own step does
\* to the fields of Flow: nothing.
LEMMA QuietSteps ==
    ASSUME NEW r \in Requests,
           \/ BadRequest(r) \/ StartLoginBusy(r) \/ SubmitCode(r)
           \/ SubmitPassword(r) \/ SubmitRejected(r) \/ Status(r)
           \/ RequestStep(r) \/ SubmitCancelled(r)
    PROVE  UNCHANGED <<flowVars, kind>>
BY DEF BadRequest, StartLoginBusy, SubmitCode, SubmitPassword, Submit,
       SubmitRejected, Status, RequestStep, SubmitCancelled,
       StartLoginCodeAsked, StartLoginEnded, AnswerStatus, DeliverCode,
       DeliverPassword, Deliver, SubmitCodePasswordNeeded, SubmitEnded,
       StartQRLaunch, StartQRShown, StartQREnded, attemptVars

\* An attempt's step that is none of its four writes leaves Flow alone.
LEMMA QuietAttemptSteps ==
    ASSUME NEW g \in Gens, AttemptStep(g) \/ Environment(g),
           ~OnCode(g), ~OnPass(g), ~FinishAttempt(g)
    PROVE  UNCHANGED <<flowVars, kind>>
BY DEF AttemptStep, Environment, CloseCodeReq, ClosePassReq, ShowToken,
       RunSucceeds, RunFails, Unwind, SendDone, RefreshToken, ScanSucceeds,
       ConnectionLost, RunReturns

\* The late writes of superseded goroutines are no-ops.
THEOREM SupersededWritesIgnoredAlways == Spec => SupersededWritesIgnored
<1> DEFINE Ignored ==
        \A g \in Gens :
            run'[g] # run[g] /\ g # gen /\ g # gen' => UNCHANGED flowVars
<1>1. Inv /\ [Next]_vars => [Ignored]_vars
  <2> SUFFICES ASSUME Inv, Next, NEW g \in Gens,
                      run'[g] # run[g], g # gen, g # gen'
               PROVE  UNCHANGED flowVars
    OBVIOUS
  <2>1. ASSUME NEW r \in Requests, StartLogin(r) \/ StartQR(r) PROVE FALSE
    BY <2>1 DEF StartLogin, StartQR, Begin, Inv, TypeOK, AttemptTypeOK
  <2>2. ASSUME NEW r \in Requests, Logout(r) \/ StartCancelled(r) PROVE FALSE
    BY <2>2 DEF Logout, StartCancelled
  <2>3. ASSUME NEW h \in Gens, OnCode(h) \/ OnPass(h) \/ FinishAttempt(h)
        PROVE  UNCHANGED flowVars
    <3>1. h = g
      BY <2>3 DEF OnCode, OnPass, FinishAttempt, RunGoto, Inv, TypeOK,
                  AttemptTypeOK
    <3> QED
      BY <2>3, <3>1 DEF OnCode, OnPass, FinishAttempt, Transition, flowVars
  <2> QED
    BY <2>1, <2>2, <2>3, QuietSteps, QuietAttemptSteps
       DEF Next, ClientCall, ClientCancels
<1> QED
  BY <1>1, InvAlways, PTL DEF Spec, SupersededWritesIgnored

\* Only the current attempt's goroutine moves the state off logged_out.
THEOREM SoleWriterAlways == Spec => SoleWriter
<1> DEFINE OwnWrite ==
        state' # state /\ state' # "logged_out" =>
            gen' = gen /\ gen # Nil /\ run'[gen] # run[gen]
<1>1. Inv /\ [Next]_vars => [OwnWrite]_vars
  <2> SUFFICES ASSUME Inv, Next, state' # state, state' # "logged_out"
               PROVE  gen' = gen /\ gen # Nil /\ run'[gen] # run[gen]
    OBVIOUS
  <2>1. ASSUME NEW r \in Requests,
               StartLogin(r) \/ StartQR(r) \/ Logout(r) \/ StartCancelled(r)
        PROVE  FALSE
    BY <2>1 DEF StartLogin, StartQR, StartQRClear, Logout, StartCancelled,
                Abandon, flowVars
  <2>2. ASSUME NEW h \in Gens, OnCode(h) \/ OnPass(h) \/ FinishAttempt(h)
        PROVE  gen' = gen /\ gen # Nil /\ run'[gen] # run[gen]
    <3>1. h = gen /\ gen' = gen
      BY <2>2 DEF OnCode, OnPass, FinishAttempt, Transition, flowVars
    <3>2. run'[h] # run[h]
      BY <2>2 DEF OnCode, OnPass, FinishAttempt, RunGoto, Inv, TypeOK,
                  AttemptTypeOK
    <3> QED
      BY <3>1, <3>2, AuthFlowAssumption DEF Gens, Nil
  <2> QED
    BY <2>1, <2>2, QuietSteps, QuietAttemptSteps
       DEF Next, ClientCall, ClientCancels, flowVars
<1> QED
  BY <1>1, InvAlways, PTL DEF Spec, SoleWriter

\* Every step of the detailed machine is a step of the promised lifecycle or
\* leaves it alone.
LEMMA LifecycleStep ==
    Inv /\ [Next]_vars => [Lifecycle!LifecycleNext]_(Lifecycle!lifecycleVars)
<1> SUFFICES ASSUME Inv, [Next]_vars
             PROVE  Lifecycle!LifecycleNext \/ UNCHANGED Lifecycle!lifecycleVars
  OBVIOUS
<1> USE AuthFlowAssumption DEF Gens, Nil
<1>1. ASSUME NEW r \in Requests, StartLogin(r) PROVE Lifecycle!BeginCode
  <2>1. kind'[gen'] = "code" /\ inProgress' /\ state' = state
    BY <1>1 DEF StartLogin, Begin, Inv, TypeOK, FlowTypeOK, AttemptTypeOK
  <2> QED
    BY <1>1, <2>1 DEF StartLogin, Lifecycle!BeginCode
<1>2. ASSUME NEW r \in Requests, StartQR(r) PROVE Lifecycle!BeginQR
  <2>1. kind'[gen'] = "qr" /\ inProgress' /\ state' = "logged_out"
    BY <1>2 DEF StartQR, StartQRClear, Begin, Inv, TypeOK, FlowTypeOK,
                AttemptTypeOK
  <2> QED
    BY <2>1 DEF Lifecycle!BeginQR
<1>3. ASSUME NEW r \in Requests, Logout(r) \/ StartCancelled(r)
      PROVE  Lifecycle!EndLoggedOut \/ UNCHANGED Lifecycle!lifecycleVars
  BY <1>3 DEF Logout, StartCancelled, Abandon, ResetLocked, flowVars,
              Lifecycle!EndLoggedOut, Lifecycle!lifecycleVars
<1>4. ASSUME NEW g \in Gens, OnCode(g)
      PROVE  Lifecycle!AskCode \/ UNCHANGED Lifecycle!lifecycleVars
  <2>1. UNCHANGED <<inProgress, gen, kind>>
    BY <1>4 DEF OnCode
  <2>2. CASE g = gen
    <3>1. inProgress /\ kind[gen] = "code" /\ state \in {"logged_out", "logged_in"}
      BY <1>4, <2>2 DEF OnCode, RunGoto, Inv, AttemptInv, StateInv,
                        StateFollowsFlow
    <3> QED
      BY <1>4, <2>1, <2>2, <3>1 DEF OnCode, Transition, Lifecycle!AskCode
  <2>3. CASE g # gen
    BY <1>4, <2>1, <2>3 DEF OnCode, Transition, Lifecycle!lifecycleVars
  <2> QED
    BY <2>2, <2>3
<1>5. ASSUME NEW g \in Gens, OnPass(g)
      PROVE  Lifecycle!AskPassword \/ UNCHANGED Lifecycle!lifecycleVars
  <2>1. UNCHANGED <<inProgress, gen, kind>>
    BY <1>5 DEF OnPass
  <2>2. CASE g = gen
    <3>1. inProgress /\ kind[gen] = "code" /\ state = "wait_code"
      BY <1>5, <2>2 DEF OnPass, RunGoto, Inv, AttemptInv, StateInv,
                        StateFollowsFlow
    <3> QED
      BY <1>5, <2>1, <2>2, <3>1 DEF OnPass, Transition, Lifecycle!AskPassword
  <2>3. CASE g # gen
    BY <1>5, <2>1, <2>3 DEF OnPass, Transition, Lifecycle!lifecycleVars
  <2> QED
    BY <2>2, <2>3
<1>6. ASSUME NEW g \in Gens, FinishAttempt(g)
      PROVE  \/ Lifecycle!Succeed \/ Lifecycle!EndLoggedOut
             \/ UNCHANGED Lifecycle!lifecycleVars
  <2>1. CASE g = gen
    <3>1. inProgress /\ kind[gen] # "none"
      BY <1>6, <2>1 DEF FinishAttempt, RunGoto, Inv, AttemptInv, HandlesInv
    <3> QED
      BY <1>6, <2>1, <3>1 DEF FinishAttempt, Lifecycle!Succeed,
                              Lifecycle!EndLoggedOut
  <2>2. CASE g # gen
    BY <1>6, <2>2 DEF FinishAttempt, flowVars, Lifecycle!lifecycleVars
  <2> QED
    BY <2>1, <2>2
<1>7. CASE UNCHANGED <<flowVars, kind>>
  BY <1>7 DEF flowVars, Lifecycle!lifecycleVars
<1>8. CASE UNCHANGED vars
  BY <1>8 DEF vars, flowVars, attemptVars, Lifecycle!lifecycleVars
<1> QED
  BY <1>1, <1>2, <1>3, <1>4, <1>5, <1>6, <1>7, <1>8, QuietSteps,
     QuietAttemptSteps
     DEF Next, ClientCall, ClientCancels, Lifecycle!LifecycleNext

\* The detailed login state machine implements the promised lifecycle.
THEOREM LifecycleImplemented == Spec => ImplementsLifecycle
<1>1. Init => Lifecycle!LifecycleInit
  BY DEF Init, Lifecycle!LifecycleInit
<1> QED
  BY <1>1, LifecycleStep, InvAlways, PTL
     DEF Spec, ImplementsLifecycle, Lifecycle!LifecycleSpec

=============================================================================
