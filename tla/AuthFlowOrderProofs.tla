------------------------- MODULE AuthFlowOrderProofs --------------------------
(***************************************************************************)
(* Proofs about AuthFlow, continued: a request is answered after the state *)
(* it is answered with is published, and attempts that preempt each other  *)
(* run one after the other.                                                *)
(***************************************************************************)
EXTENDS AuthFlowProofs

-----------------------------------------------------------------------------
(* What attempts have asked for, and what requests are answered.  A lemma  *)
(* names the definitions of its action; what the invariants say is in use  *)
(* in all of them.                                                         *)

USE AuthFlowAssumption
    DEF Gens, Nil, States, InRun, AfterRun, flowVars, attemptVars, requestVars,
        Inv, TypeOK, FlowTypeOK, AttemptTypeOK, RequestTypeOK, HandlesInv,
        AttemptInv, StateInv, StateFollowsFlow, RequestInv, AskInv, AnswerOK

\* It holds at first.
LEMMA OrderInit == Init => AskInv /\ AnswerInv
BY DEF Init, AnswerInv

\* What is asked stays asked while the flow and the attempts stay as they are.
LEMMA AskStays ==
    ASSUME AskInv, UNCHANGED <<flowVars, attemptVars>>
    PROVE  AskInv'
OBVIOUS

\* A request is turned away, answered or goes on while the flow and the attempts
\* stay as they are: it is told what they say.
LEMMA OrderAnswered ==
    ASSUME Inv, AskInv, AnswerInv, NEW r \in Requests,
           \/ BadRequest(r) \/ StartLoginBusy(r) \/ SubmitRejected(r)
           \/ StartLoginCodeAsked(r) \/ AnswerStatus(r)
           \/ SubmitCodePasswordNeeded(r) \/ SubmitCancelled(r) \/ Status(r)
    PROVE  AskInv' /\ AnswerInv'
<1> USE DEF BadRequest, StartLoginBusy, SubmitRejected, StartLoginCodeAsked,
        AnswerStatus, SubmitCodePasswordNeeded, SubmitCancelled, Status, Call,
        Goto, Return
<1>1. AskInv'
  <2>1. UNCHANGED <<flowVars, attemptVars>>
    OBVIOUS
  <2> QED
    BY ONLY AskInv, <2>1, AskStays
<1>2. ASSUME NEW q \in Requests, AnswerOK(q) PROVE AnswerOK(q)'
  BY <1>2
<1> QED
  BY <1>1, <1>2 DEF AnswerInv

\* A submit holds the attempt that waits for it, and its channel.
LEMMA OrderSubmit ==
    ASSUME Inv, AskInv, AnswerInv, NEW r \in Requests,
           SubmitCode(r) \/ SubmitPassword(r)
    PROVE  AskInv' /\ AnswerInv'
<1> USE DEF SubmitCode, SubmitPassword, Submit, Call, Goto, Hold
<1>1. AskInv'
  OBVIOUS
<1>2. ASSUME NEW q \in Requests, AnswerOK(q) PROVE AnswerOK(q)'
  BY <1>2
<1> QED
  BY <1>1, <1>2 DEF AnswerInv

\* A new QR login is nobody's answer yet, launched or not.
LEMMA OrderStartQR ==
    ASSUME Inv, AskInv, AnswerInv, NEW r \in Requests, StartQR(r)
    PROVE  AskInv' /\ AnswerInv'
<1> USE DEF StartQR, StartQRClear, Begin, CancelCurrent, Call, Goto, Hold
<1>1. AskInv'
  <2>1. gen + 1 \in Gens /\ run[gen + 1] = "none"
    OBVIOUS
  <2>2. gen + 1 \notin codeReq /\ gen + 1 \notin passReq
    BY <2>1
  <2>3. \A g \in Gens \ {gen + 1} : run'[g] = run[g]
    OBVIOUS
  <2> QED
    BY <2>2, <2>3
<1>2. ASSUME NEW q \in Requests, AnswerOK(q) PROVE AnswerOK(q)'
  BY <1>2
<1> QED
  BY <1>1, <1>2 DEF AnswerInv

\* A new login is nobody's answer yet.
LEMMA OrderStartLogin ==
    ASSUME Inv, AskInv, AnswerInv, NEW r \in Requests, StartLogin(r)
    PROVE  AskInv' /\ AnswerInv'
<1>1. AskInv'
  BY DEF StartLogin, Begin, CancelCurrent, Call, Goto, Hold
<1>2. ASSUME NEW q \in Requests, AnswerOK(q) PROVE AnswerOK(q)'
  BY <1>2 DEF StartLogin, Begin, CancelCurrent, Call, Goto, Hold
<1> QED
  BY <1>1, <1>2 DEF AnswerInv

\* A logout takes up a generation number that no request holds.
LEMMA OrderLogout ==
    ASSUME Inv, AskInv, AnswerInv, NEW r \in Requests, Logout(r)
    PROVE  AskInv' /\ AnswerInv'
<1>1. AskInv'
  BY DEF Logout, ResetLocked, CancelCurrent, Call, Goto, Return
<1>2. ASSUME NEW q \in Requests, AnswerOK(q) PROVE AnswerOK(q)'
  BY <1>2 DEF Logout, ResetLocked, CancelCurrent, Call, Goto, Return
<1> QED
  BY <1>1, <1>2 DEF AnswerInv

\* A login that ended is told to the request that started it.
LEMMA OrderStartLoginEnded ==
    ASSUME Inv, AskInv, AnswerInv, NEW r \in Requests, StartLoginEnded(r)
    PROVE  AskInv' /\ AnswerInv'
<1>1. AskInv'
  BY DEF StartLoginEnded, ReceiveDone, Goto, Return
<1>2. ASSUME NEW q \in Requests, AnswerOK(q) PROVE AnswerOK(q)'
  BY <1>2 DEF StartLoginEnded, ReceiveDone, Goto, Return
<1> QED
  BY <1>1, <1>2 DEF AnswerInv

\* A submit that is told logged_in holds the attempt that succeeded.
LEMMA OrderSubmitEnded ==
    ASSUME Inv, AskInv, AnswerInv, NEW r \in Requests, SubmitEnded(r)
    PROVE  AskInv' /\ AnswerInv'
<1>1. AskInv'
  BY DEF SubmitEnded, ReceiveDone, Goto, Return
<1>2. ASSUME NEW q \in Requests, AnswerOK(q) PROVE AnswerOK(q)'
  BY <1>2 DEF SubmitEnded, ReceiveDone, Goto, Return
<1> QED
  BY <1>1, <1>2 DEF AnswerInv

\* A QR login that ended without a URL.
LEMMA OrderStartQREnded ==
    ASSUME Inv, AskInv, AnswerInv, NEW r \in Requests, StartQREnded(r)
    PROVE  AskInv' /\ AnswerInv'
<1>1. AskInv'
  BY DEF StartQREnded, ReceiveDone, Goto, Return
<1>2. ASSUME NEW q \in Requests, AnswerOK(q) PROVE AnswerOK(q)'
  BY <1>2 DEF StartQREnded, ReceiveDone, Goto, Return
<1> QED
  BY <1>1, <1>2 DEF AnswerInv

\* A QR login that shows its URL.
LEMMA OrderStartQRShown ==
    ASSUME Inv, AskInv, AnswerInv, NEW r \in Requests, StartQRShown(r)
    PROVE  AskInv' /\ AnswerInv'
<1>1. AskInv'
  BY DEF StartQRShown, Goto, Return
<1>2. ASSUME NEW q \in Requests, AnswerOK(q) PROVE AnswerOK(q)'
  BY <1>2 DEF StartQRShown, Goto, Return
<1> QED
  BY <1>1, <1>2 DEF AnswerInv

\* A QR login that is launched had not run before.
LEMMA OrderStartQRLaunch ==
    ASSUME Inv, AskInv, AnswerInv, NEW r \in Requests, StartQRLaunch(r)
    PROVE  AskInv' /\ AnswerInv'
<1>1. AskInv'
  BY DEF StartQRLaunch, ReceiveDone, Goto, Hold
<1>2. ASSUME NEW q \in Requests, AnswerOK(q) PROVE AnswerOK(q)'
  BY <1>2 DEF StartQRLaunch, ReceiveDone, Goto, Hold
<1> QED
  BY <1>1, <1>2 DEF AnswerInv

\* An attempt that is abandoned is nobody's any more.
LEMMA OrderStartCancelled ==
    ASSUME Inv, AskInv, AnswerInv, NEW r \in Requests, StartCancelled(r)
    PROVE  AskInv' /\ AnswerInv'
<1>1. AskInv'
  BY DEF StartCancelled, Abandon, ResetLocked, CancelCurrent, Goto, Return
<1>2. ASSUME NEW q \in Requests, AnswerOK(q) PROVE AnswerOK(q)'
  BY <1>2 DEF StartCancelled, Abandon, ResetLocked, CancelCurrent, Goto, Return
<1> QED
  BY <1>1, <1>2 DEF AnswerInv

\* A code reaches the attempt that waits for it.
LEMMA OrderDeliverCode ==
    ASSUME Inv, AskInv, AnswerInv, NEW r \in Requests, DeliverCode(r)
    PROVE  AskInv' /\ AnswerInv'
<1>1. AskInv'
  BY DEF DeliverCode, Deliver, Goto
<1>2. ASSUME NEW q \in Requests, AnswerOK(q) PROVE AnswerOK(q)'
  BY <1>2 DEF DeliverCode, Deliver, Goto
<1> QED
  BY <1>1, <1>2 DEF AnswerInv

\* ... and so does a password.
LEMMA OrderDeliverPassword ==
    ASSUME Inv, AskInv, AnswerInv, NEW r \in Requests, DeliverPassword(r)
    PROVE  AskInv' /\ AnswerInv'
<1>1. AskInv'
  BY DEF DeliverPassword, Deliver, Goto
<1>2. ASSUME NEW q \in Requests, AnswerOK(q) PROVE AnswerOK(q)'
  BY <1>2 DEF DeliverPassword, Deliver, Goto
<1> QED
  BY <1>1, <1>2 DEF AnswerInv

-----------------------------------------------------------------------------

\* The current attempt asks for a code before it closes codeReq.
LEMMA OrderOnCode ==
    ASSUME Inv, AskInv, AnswerInv, NEW g \in Gens, OnCode(g)
    PROVE  AskInv' /\ AnswerInv'
<1>1. AskInv'
  BY DEF OnCode, RunGoto, Transition
<1>2. ASSUME NEW q \in Requests, AnswerOK(q) PROVE AnswerOK(q)'
  BY <1>2 DEF OnCode, RunGoto, Transition
<1> QED
  BY <1>1, <1>2 DEF AnswerInv

\* codeReq is closed while a code is awaited.
LEMMA OrderCloseCodeReq ==
    ASSUME Inv, AskInv, AnswerInv, NEW g \in Gens, CloseCodeReq(g)
    PROVE  AskInv' /\ AnswerInv'
<1>1. AskInv'
  BY DEF CloseCodeReq, RunGoto
<1>2. ASSUME NEW q \in Requests, AnswerOK(q) PROVE AnswerOK(q)'
  BY <1>2 DEF CloseCodeReq, RunGoto
<1> QED
  BY <1>1, <1>2 DEF AnswerInv

\* A password is asked for before passReq is closed.
LEMMA OrderOnPass ==
    ASSUME Inv, AskInv, AnswerInv, NEW g \in Gens, OnPass(g)
    PROVE  AskInv' /\ AnswerInv'
<1>1. AskInv'
  BY DEF OnPass, RunGoto, Transition
<1>2. ASSUME NEW q \in Requests, AnswerOK(q) PROVE AnswerOK(q)'
  BY <1>2 DEF OnPass, RunGoto, Transition
<1> QED
  BY <1>1, <1>2 DEF AnswerInv

\* passReq is closed while a password is awaited.
LEMMA OrderClosePassReq ==
    ASSUME Inv, AskInv, AnswerInv, NEW g \in Gens, ClosePassReq(g)
    PROVE  AskInv' /\ AnswerInv'
<1>1. AskInv'
  BY DEF ClosePassReq, RunGoto
<1>2. ASSUME NEW q \in Requests, AnswerOK(q) PROVE AnswerOK(q)'
  BY <1>2 DEF ClosePassReq, RunGoto
<1> QED
  BY <1>1, <1>2 DEF AnswerInv

\* A token is shown.
LEMMA OrderShowToken ==
    ASSUME Inv, AskInv, AnswerInv, NEW g \in Gens, ShowToken(g)
    PROVE  AskInv' /\ AnswerInv'
<1>1. AskInv'
  BY DEF ShowToken, RunGoto
<1>2. ASSUME NEW q \in Requests, AnswerOK(q) PROVE AnswerOK(q)'
  BY <1>2 DEF ShowToken, RunGoto
<1> QED
  BY <1>1, <1>2 DEF AnswerInv

\* A token is refreshed.
LEMMA OrderRefreshToken ==
    ASSUME Inv, AskInv, AnswerInv, NEW g \in Gens, RefreshToken(g)
    PROVE  AskInv' /\ AnswerInv'
<1>1. AskInv'
  BY DEF RefreshToken, RunGoto
<1>2. ASSUME NEW q \in Requests, AnswerOK(q) PROVE AnswerOK(q)'
  BY <1>2 DEF RefreshToken, RunGoto
<1> QED
  BY <1>1, <1>2 DEF AnswerInv

\* What an attempt came to is recorded before it is told.
LEMMA OrderFinishAttempt ==
    ASSUME Inv, AskInv, AnswerInv, NEW g \in Gens, FinishAttempt(g)
    PROVE  AskInv' /\ AnswerInv'
<1>1. AskInv'
  BY DEF FinishAttempt, RunGoto, CancelCurrent
<1>2. ASSUME NEW q \in Requests, AnswerOK(q) PROVE AnswerOK(q)'
  BY <1>2 DEF FinishAttempt, RunGoto, CancelCurrent
<1> QED
  BY <1>1, <1>2 DEF AnswerInv

\* The result of an attempt is sent.
LEMMA OrderSendDone ==
    ASSUME Inv, AskInv, AnswerInv, NEW g \in Gens, SendDone(g)
    PROVE  AskInv' /\ AnswerInv'
<1>1. AskInv'
  BY DEF SendDone, RunGoto
<1>2. ASSUME NEW q \in Requests, AnswerOK(q) PROVE AnswerOK(q)'
  BY <1>2 DEF SendDone, RunGoto
<1> QED
  BY <1>1, <1>2 DEF AnswerInv

\* A run returns, and leaves the state as it is.
LEMMA OrderRunReturns ==
    ASSUME Inv, AskInv, AnswerInv, NEW g \in Gens, NEW from \in SUBSET InRun,
           NEW e \in {"nil", "err"}, RunReturns(g, from, e)
    PROVE  AskInv' /\ AnswerInv'
<1>1. AskInv'
  BY DEF RunReturns
<1>2. ASSUME NEW q \in Requests, AnswerOK(q) PROVE AnswerOK(q)'
  BY <1>2 DEF RunReturns
<1> QED
  BY <1>1, <1>2 DEF AnswerInv

\* Nothing moves.
LEMMA OrderStutters ==
    ASSUME AskInv, AnswerInv, UNCHANGED vars
    PROVE  AskInv' /\ AnswerInv'
BY DEF vars, AnswerInv

HIDE AuthFlowAssumption
     DEF Gens, Nil, States, InRun, AfterRun, flowVars, attemptVars, requestVars,
         Inv, TypeOK, FlowTypeOK, AttemptTypeOK, RequestTypeOK, HandlesInv,
         AttemptInv, StateInv, StateFollowsFlow, RequestInv, AskInv, AnswerOK

\* Every step keeps the order of what is asked and what is answered.
LEMMA OrderNext ==
    Inv /\ AskInv /\ AnswerInv /\ [Next]_vars => AskInv' /\ AnswerInv'
<1> SUFFICES ASSUME Inv, AskInv, AnswerInv, [Next]_vars
             PROVE  AskInv' /\ AnswerInv'
  OBVIOUS
<1>1. ASSUME NEW r \in Requests, ClientCall(r) PROVE AskInv' /\ AnswerInv'
  BY <1>1, OrderAnswered, OrderSubmit, OrderStartLogin, OrderStartQR,
     OrderLogout DEF ClientCall
<1>2. ASSUME NEW r \in Requests, RequestStep(r) PROVE AskInv' /\ AnswerInv'
  BY <1>2, OrderAnswered, OrderStartLoginEnded, OrderDeliverCode,
     OrderDeliverPassword, OrderSubmitEnded, OrderStartQRLaunch,
     OrderStartQRShown, OrderStartQREnded DEF RequestStep
<1>3. ASSUME NEW r \in Requests, ClientCancels(r) PROVE AskInv' /\ AnswerInv'
  BY <1>3, OrderAnswered, OrderStartCancelled DEF ClientCancels
<1>4. ASSUME NEW g \in Gens, AttemptStep(g) \/ Environment(g)
      PROVE  AskInv' /\ AnswerInv'
  <2>1. CASE RunSucceeds(g) \/ ScanSucceeds(g) \/ RunFails(g) \/ ConnectionLost(g)
    BY <2>1, OrderRunReturns
       DEF RunSucceeds, ScanSucceeds, RunFails, ConnectionLost, InRPC, InRun
  <2> QED
    BY <1>4, <2>1, OrderOnCode, OrderCloseCodeReq, OrderOnPass,
       OrderClosePassReq, OrderShowToken, OrderRefreshToken,
       OrderFinishAttempt, OrderSendDone
       DEF AttemptStep, Environment, Unwind
<1>5. CASE UNCHANGED vars
  BY <1>5, OrderStutters
<1> QED
  BY <1>1, <1>2, <1>3, <1>4, <1>5 DEF Next

-----------------------------------------------------------------------------
(* Attempts that preempt each other.                                       *)

\* An answer is written once, so whoever logged out or was cut off stays so.
LEMMA StillDisturbed ==
    ASSUME Inv, AnswerInv, [Next]_vars, Undisturbed'
    PROVE  Undisturbed
<1> SUFFICES ASSUME NEW r \in Requests, pc[r] = "returned"
             PROVE  answer'[r] = answer[r]
  <2> SUFFICES ASSUME NEW r \in Requests, answer[r] \in {"ok", "cancelled"}
               PROVE  FALSE
    BY DEF Undisturbed
  <2>1. pc[r] = "returned"
    BY DEF AnswerInv, AnswerOK
  <2> QED
    BY <2>1 DEF Undisturbed
<1>1. ASSUME NEW q \in Requests,
             ClientCall(q) \/ RequestStep(q) \/ ClientCancels(q)
      PROVE  answer'[r] = answer[r]
  <2> USE DEF Inv, TypeOK, RequestTypeOK, Goto, Return
  <2>1. CASE ClientCall(q)
    BY <2>1 DEF ClientCall, Call, BadRequest, StartLogin, StartLoginBusy,
       SubmitCode, SubmitPassword, Submit, SubmitRejected, StartQR, Status,
       Logout
  <2>2. CASE RequestStep(q)
    BY <2>2 DEF RequestStep, StartLoginCodeAsked, StartLoginEnded,
       AnswerStatus, DeliverCode, DeliverPassword, Deliver,
       SubmitCodePasswordNeeded, SubmitEnded, StartQRLaunch, StartQRShown,
       StartQREnded
  <2>3. CASE ClientCancels(q)
    BY <2>3 DEF ClientCancels, StartCancelled, SubmitCancelled
  <2> QED
    BY <1>1, <2>1, <2>2, <2>3
<1>2. ASSUME NEW g \in Gens, AttemptStep(g) \/ Environment(g)
      PROVE  answer'[r] = answer[r]
  BY <1>2 DEF AttemptStep, Environment, OnCode, CloseCodeReq, OnPass,
     ClosePassReq, ShowToken, RunSucceeds, RunFails, Unwind, FinishAttempt,
     SendDone, RefreshToken, ScanSucceeds, ConnectionLost, RunReturns,
     requestVars
<1>3. CASE UNCHANGED vars
  BY <1>3 DEF vars, requestVars
<1> QED
  BY <1>1, <1>2, <1>3 DEF Next

\* A step that registers and launches no attempt, puts no request in front of
\* another's done channel and takes no run back keeps the order of the runs.
LEMMA OrderOfRunsKept ==
    ASSUME OneAfterAnother, UNCHANGED <<gen, kind>>,
           \A r \in Requests :
              pc'[r] = "awaitPrev" =>
                pc[r] = "awaitPrev" /\ att'[r] = att[r] /\ chan'[r] = chan[r],
           \A g \in Gens :
              /\ run[g] = "none" => run'[g] = "none"
              /\ run[g] \in {"announce", "exited"} =>
                    run'[g] \in {"announce", "exited"}
    PROVE  OneAfterAnother'
BY DEF OneAfterAnother

\* Only an attempt that is past its run is followed without waiting for it.
LEMMA NextRunIsFree ==
    ASSUME Inv, OneAfterAnother, ~inProgress
    PROVE  \A h \in Gens : h <= gen => run[h] \in {"announce", "exited"}
<1> SUFFICES ASSUME NEW h \in Gens, h <= gen
             PROVE  run[h] \in {"announce", "exited"}
  OBVIOUS
<1> USE AuthFlowAssumption DEF Gens, Inv, TypeOK, FlowTypeOK
<1>1. gen \in 1..gen /\ gen \in Gens
  OBVIOUS
<1>2. run[gen] \in {"announce", "exited"}
  BY <1>1 DEF AttemptInv, OneAfterAnother
<1> QED
  BY <1>1, <1>2 DEF OneAfterAnother

\* StartLogin begins no login while another is in progress.
LEMMA RunsStartLogin ==
    ASSUME Inv, OneAfterAnother, NEW r \in Requests, StartLogin(r)
    PROVE  OneAfterAnother'
<1> USE AuthFlowAssumption
        DEF Gens, StartLogin, Begin, Goto, Hold, Call, Inv, TypeOK, FlowTypeOK,
        AttemptTypeOK, RequestTypeOK
<1>1. \A g \in 1..gen' : kind'[g] # "none"
  BY DEF OneAfterAnother
<1>2. \A q \in Requests : pc'[q] = "awaitPrev" => chan'[q] = att'[q] - 1
  BY DEF OneAfterAnother
<1>3. ASSUME NEW g \in Gens, NEW h \in Gens, h < g, run'[g] # "none"
      PROVE  run'[h] \in {"announce", "exited"}
  <2>1. CASE g = gen + 1
    BY <1>3, <2>1, NextRunIsFree
  <2>2. CASE g # gen + 1
    <3>1. run[g] # "none" /\ g <= gen
      BY <1>3, <2>2 DEF AttemptInv
    <3> QED
      BY <1>3, <3>1 DEF OneAfterAnother
  <2> QED
    BY <2>1, <2>2
<1> QED
  BY <1>1, <1>2, <1>3 DEF OneAfterAnother

\* StartQR launches at once only when nothing is in progress; otherwise it will
\* wait for the attempt just before its own.
LEMMA RunsStartQR ==
    ASSUME Inv, OneAfterAnother, NEW r \in Requests, StartQR(r)
    PROVE  OneAfterAnother'
<1> USE AuthFlowAssumption
        DEF Gens, Nil, StartQR, Begin, MustAwait, Goto, Hold, Call, Inv, TypeOK,
        FlowTypeOK, AttemptTypeOK, RequestTypeOK
<1>1. \A g \in 1..gen' : kind'[g] # "none"
  BY DEF OneAfterAnother
<1>2. inProgress => MustAwait /\ done = gen
  BY DEF HandlesInv
<1>3. ASSUME NEW q \in Requests, pc'[q] = "awaitPrev"
      PROVE  chan'[q] = att'[q] - 1
  <2>1. CASE q = r
    <3>1. MustAwait
      BY <1>3, <2>1
    <3> QED
      BY <1>2, <2>1, <3>1 DEF MustAwait
  <2>2. CASE q # r
    BY <1>3, <2>2 DEF OneAfterAnother
  <2> QED
    BY <2>1, <2>2
<1>4. ASSUME NEW g \in Gens, NEW h \in Gens, h < g, run'[g] # "none"
      PROVE  run'[h] \in {"announce", "exited"}
  <2>1. CASE g = gen + 1
    <3>1. ~MustAwait
      BY <1>4, <2>1 DEF AttemptInv
    <3> QED
      BY <1>2, <1>4, <2>1, <3>1, NextRunIsFree
  <2>2. CASE g # gen + 1
    <3>1. run[g] # "none" /\ g <= gen
      BY <1>4, <2>2 DEF AttemptInv
    <3> QED
      BY <1>4, <3>1 DEF OneAfterAnother
  <2> QED
    BY <2>1, <2>2
<1> QED
  BY <1>1, <1>3, <1>4 DEF OneAfterAnother

\* The attempt StartQR waited for is past its run, and with it those before.
LEMMA RunsStartQRLaunch ==
    ASSUME Inv, OneAfterAnother, NEW r \in Requests, StartQRLaunch(r)
    PROVE  OneAfterAnother'
<1> USE AuthFlowAssumption
        DEF Gens, flowVars, StartQRLaunch, ReceiveDone, Goto, Hold, Inv, TypeOK,
        FlowTypeOK, AttemptTypeOK, RequestTypeOK
<1>1. /\ att[r] \in Gens
      /\ chan[r] \in Gens
      /\ chan[r] = att[r] - 1
      /\ run[att[r]] = "none"
  BY DEF RequestInv, OneAfterAnother
<1>2. run[chan[r]] = "exited"
  BY <1>1 DEF AttemptInv
<1>3. \A h \in Gens : h < att[r] => run[h] \in {"announce", "exited"}
  BY <1>1, <1>2 DEF OneAfterAnother
<1>4. \A g \in Gens : att[r] < g => run[g] = "none"
  BY <1>1 DEF OneAfterAnother
<1>5. \A g \in 1..gen' : kind'[g] # "none"
  BY DEF OneAfterAnother
<1>6. \A q \in Requests : pc'[q] = "awaitPrev" => chan'[q] = att'[q] - 1
  BY DEF OneAfterAnother
<1>7. ASSUME NEW g \in Gens, NEW h \in Gens, h < g, run'[g] # "none"
      PROVE  run'[h] \in {"announce", "exited"}
  <2>1. CASE g = att[r]
    BY <1>1, <1>3, <1>7, <2>1
  <2>2. CASE g # att[r]
    BY <1>1, <1>4, <1>7, <2>2 DEF OneAfterAnother
  <2> QED
    BY <2>1, <2>2
<1> QED
  BY <1>5, <1>6, <1>7 DEF OneAfterAnother

\* Every step keeps the order of the runs, until somebody logs out or is cut off.
LEMMA PreemptionNext ==
    Inv /\ AnswerInv /\ PreemptionInv /\ [Next]_vars => PreemptionInv'
<1> SUFFICES ASSUME Inv, AnswerInv, OneAfterAnother, [Next]_vars, Undisturbed'
             PROVE  OneAfterAnother'
  BY StillDisturbed DEF PreemptionInv
<1>1. ASSUME NEW r \in Requests,
             ClientCall(r) \/ RequestStep(r) \/ ClientCancels(r)
      PROVE  OneAfterAnother'
  <2> USE DEF Inv, TypeOK, RequestTypeOK, Goto, Return
  <2>1. CASE StartLogin(r) \/ StartQR(r) \/ StartQRLaunch(r)
    BY <2>1, RunsStartLogin, RunsStartQR, RunsStartQRLaunch
  <2>2. CASE Logout(r) \/ ClientCancels(r)
    BY <2>2 DEF Logout, ClientCancels, StartCancelled, SubmitCancelled,
       Undisturbed
  <2>3. CASE \/ BadRequest(r) \/ StartLoginBusy(r) \/ SubmitRejected(r)
             \/ Status(r) \/ SubmitCode(r) \/ SubmitPassword(r)
    <3>1. UNCHANGED <<gen, kind, run>>
      BY <2>3 DEF BadRequest, StartLoginBusy, SubmitRejected, Status,
         SubmitCode, SubmitPassword, Submit, flowVars, attemptVars
    <3>2. \A q \in Requests :
             pc'[q] = "awaitPrev" =>
               pc[q] = "awaitPrev" /\ att'[q] = att[q] /\ chan'[q] = chan[q]
      BY <2>3 DEF BadRequest, StartLoginBusy, SubmitRejected, Status,
         SubmitCode, SubmitPassword, Submit, Hold
    <3> QED
      BY ONLY OneAfterAnother, <3>1, <3>2, OrderOfRunsKept
  <2>4. CASE RequestStep(r) /\ ~StartQRLaunch(r)
    <3>1. UNCHANGED <<gen, kind>>
      BY <2>4, QuietSteps DEF flowVars
    <3>2. \A q \in Requests :
             pc'[q] = "awaitPrev" =>
               pc[q] = "awaitPrev" /\ att'[q] = att[q] /\ chan'[q] = chan[q]
      BY <2>4 DEF RequestStep, StartLoginCodeAsked, StartLoginEnded,
         AnswerStatus, DeliverCode, DeliverPassword, Deliver,
         SubmitCodePasswordNeeded, SubmitEnded, StartQRShown, StartQREnded
    <3>3. \A g \in Gens :
             /\ run[g] = "none" => run'[g] = "none"
             /\ run[g] \in {"announce", "exited"} =>
                   run'[g] \in {"announce", "exited"}
      BY <2>4 DEF RequestStep, StartLoginCodeAsked, StartLoginEnded,
         AnswerStatus, DeliverCode, DeliverPassword, Deliver,
         SubmitCodePasswordNeeded, SubmitEnded, StartQRShown, StartQREnded,
         AttemptTypeOK, attemptVars
    <3> QED
      BY ONLY OneAfterAnother, <3>1, <3>2, <3>3, OrderOfRunsKept
  <2> QED
    BY <1>1, <2>1, <2>2, <2>3, <2>4 DEF ClientCall
<1>2. ASSUME NEW g \in Gens, AttemptStep(g) \/ Environment(g)
      PROVE  OneAfterAnother'
  <2> USE DEF AttemptStep, Environment, OnCode, CloseCodeReq, OnPass,
      ClosePassReq, ShowToken, RunSucceeds, RunFails, Unwind, FinishAttempt,
      SendDone, RefreshToken, ScanSucceeds, ConnectionLost, RunReturns,
      flowVars, requestVars
  <2>1. UNCHANGED <<gen, kind, requestVars>>
    BY <1>2
  <2>2. \A h \in Gens :
           /\ run[h] = "none" => run'[h] = "none"
           /\ run[h] \in {"announce", "exited"} =>
                 run'[h] \in {"announce", "exited"}
    BY <1>2 DEF RunGoto, InRPC, Inv, TypeOK, AttemptTypeOK
  <2> QED
    BY <2>1, <2>2, OrderOfRunsKept
<1>3. CASE UNCHANGED vars
  BY <1>3 DEF vars, flowVars, attemptVars, requestVars, OneAfterAnother
<1> QED
  BY <1>1, <1>2, <1>3 DEF Next

-----------------------------------------------------------------------------

\* The inductive invariant, with the order of answers and of runs, holds of
\* every run of the login state machine.
THEOREM FullInvAlways == Spec => []FullInv
<1>1. Init => FullInv
  <2>1. Init => PreemptionInv
    BY DEF Init, PreemptionInv, OneAfterAnother
  <2> QED
    BY <2>1, InitInv, OrderInit DEF FullInv
<1>2. FullInv /\ [Next]_vars => FullInv'
  BY NextInv, OrderNext, PreemptionNext DEF FullInv
<1> QED
  BY <1>1, <1>2, PTL DEF Spec

\* Whoever follows the current attempt is answered after the state it is
\* answered with is published.
THEOREM AnswersPublishedStateAlways == Spec => []AnswersPublishedState
<1>1. FullInv => AnswersPublishedState
  <2> SUFFICES ASSUME FullInv, NEW r \in Requests, gen # Nil, att[r] = gen
               PROVE  /\ answer[r] = "logged_in" => state = "logged_in"
                      /\ answer[r] = "wait_password" =>
                            \/ state = "wait_password"
                            \/ ~inProgress /\ err[gen] # "none"
                      /\ pc[r] = "readStatus" =>
                            state # "logged_out" \/ err[gen] = "err"
    BY DEF AnswersPublishedState
  <2>1. AnswerOK(r) /\ gen \in Gens
    BY AuthFlowAssumption DEF FullInv, AnswerInv, Inv, TypeOK, FlowTypeOK,
       Gens, Nil
  <2>2. ~inProgress /\ err[gen] = "nil" => state = "logged_in"
    BY <2>1 DEF FullInv, Inv, StateInv, AttemptInv, AfterRun
  <2>3. pc[r] = "readStatus" => state # "logged_out" \/ err[gen] = "err"
    BY <2>1 DEF AnswerOK, FullInv, AskInv, Inv, HandlesInv, StateInv,
       AttemptInv, AfterRun, TypeOK, AttemptTypeOK
  <2> QED
    BY <2>1, <2>2, <2>3 DEF AnswerOK
<1> QED
  BY <1>1, FullInvAlways, PTL

\* Two attempts are inside Run together only if somebody logged out or was cut
\* off: a StartQR waits for the attempt it preempts.
THEOREM PreemptionWaitsAlways == Spec => []PreemptionWaits
<1>1. FullInv => PreemptionWaits
  <2> SUFFICES ASSUME FullInv, Undisturbed, NEW g \in Gens, NEW h \in Gens,
                      run[g] \in InRun, run[h] \in InRun, h < g
               PROVE  FALSE
    BY AuthFlowAssumption DEF PreemptionWaits, NoReentrantRun, Undisturbed, Gens
  <2> QED
    BY DEF FullInv, PreemptionInv, OneAfterAnother, InRun
<1> QED
  BY <1>1, FullInvAlways, PTL

=============================================================================
