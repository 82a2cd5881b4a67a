------------------------------ MODULE AuthFlow ------------------------------
(***************************************************************************)
(* The Telegram login state machine of internal/telegram/auth/flow.go and  *)
(* the HTTP handlers of internal/httpapi/auth_routes.go that call it.      *)
(*                                                                         *)
(* Two kinds of process share one Flow value:                              *)
(*   - a request: one HTTP call of a login endpoint, running in its own    *)
(*     goroutine; it takes mu, may launch a login attempt, and then blocks *)
(*     in a select until there is something to answer;                     *)
(*   - an attempt: the goroutine StartLogin / StartQR launches, which runs *)
(*     the whole blocking gotd flow and talks to requests over channels.   *)
(* Attempts are identified by their generation number.  A critical section *)
(* under mu is one atomic action, and so is a channel operation or a ready *)
(* case of a select; everything else interleaves.                          *)
(***************************************************************************)
EXTENDS Integers, FiniteSets

CONSTANTS
    Requests,     \* the HTTP requests the clients make, each of them once
    Ops,          \* the endpoints the clients use
    Impatient,    \* the requests whose context may be cancelled (disconnect)
    MaxInFlight,  \* requests the clients keep open at a time
    MaxGen        \* bound: the last generation number of the model

Endpoints == {"StartLogin", "SubmitCode", "SubmitPassword", "StartQR",
              "Status", "Logout"}

ASSUME AuthFlowAssumption ==
    /\ Ops \subseteq Endpoints
    /\ Impatient \subseteq Requests
    /\ MaxInFlight \in Nat
    /\ MaxGen \in Nat

Nil  == 0
Gens == 1..MaxGen

VARIABLES
    \* The fields of Flow guarded by mu.  A cancel func, an authenticator and
    \* a done channel are represented by the generation that created them.
    state, inProgress, gen, cancel, auth, done,
    \* Per attempt: what it runs, where its goroutine is, the error its run
    \* returned, whether its context is cancelled, and its channels: codeReq
    \* and passReq (closed or not), urlCh (holds a URL), done (its buffer).
    kind, run, err, cancelled, codeReq, passReq, urlCh, doneCh,
    \* Per request: where it is, the attempt whose authenticator or gen it
    \* holds, the attempt whose done channel it holds, and its HTTP answer.
    pc, att, chan, answer

flowVars    == <<state, inProgress, gen, cancel, auth, done>>
attemptVars == <<kind, run, err, cancelled, codeReq, passReq, urlCh, doneCh>>
requestVars == <<pc, att, chan, answer>>
vars        == <<flowVars, attemptVars, requestVars>>

States == {"logged_out", "wait_code", "wait_password", "logged_in"}

\* Where an attempt's goroutine is inside backend.RunAuth / RunQR.
InRun == {"connect", "onCode", "codeWait", "signIn", "onPass", "passWait",
          "checkPass", "scanWait"}

\* ... and after it: the three statements of the goroutine's body.
AfterRun == {"returned", "announce", "exited"}

RequestPCs == {"idle", "awaitCode", "readStatus", "sendCode", "observeCode",
               "sendPass", "observePass", "awaitPrev", "awaitURL", "returned"}

Answers == States \cup {"none", "error", "cancelled", "url", "no_url", "ok"}

FlowTypeOK ==
    /\ state \in States
    /\ inProgress \in BOOLEAN
    /\ gen \in 0..MaxGen
    /\ cancel \in 0..MaxGen
    /\ auth \in 0..MaxGen
    /\ done \in 0..MaxGen

AttemptTypeOK ==
    /\ kind \in [Gens -> {"none", "code", "qr"}]
    /\ run \in [Gens -> {"none"} \cup InRun \cup AfterRun]
    /\ err \in [Gens -> {"none", "nil", "err"}]
    /\ cancelled \subseteq Gens
    /\ codeReq \subseteq Gens
    /\ passReq \subseteq Gens
    /\ urlCh \subseteq Gens
    /\ doneCh \in [Gens -> {"empty", "nil", "err"}]

RequestTypeOK ==
    /\ pc \in [Requests -> RequestPCs]
    /\ att \in [Requests -> 0..MaxGen]
    /\ chan \in [Requests -> 0..MaxGen]
    /\ answer \in [Requests -> Answers]

\* Every variable keeps its type; in particular only attempts that exist are
\* cancelled: a nil cancel func is never called.
TypeOK == FlowTypeOK /\ AttemptTypeOK /\ RequestTypeOK

Init ==
    /\ state = "logged_out"
    /\ inProgress = FALSE
    /\ gen = 0
    /\ cancel = Nil
    /\ auth = Nil
    /\ done = Nil
    /\ kind = [g \in Gens |-> "none"]
    /\ run = [g \in Gens |-> "none"]
    /\ err = [g \in Gens |-> "none"]
    /\ cancelled = {}
    /\ codeReq = {}
    /\ passReq = {}
    /\ urlCh = {}
    /\ doneCh = [g \in Gens |-> "empty"]
    /\ pc = [r \in Requests |-> "idle"]
    /\ att = [r \in Requests |-> Nil]
    /\ chan = [r \in Requests |-> Nil]
    /\ answer = [r \in Requests |-> "none"]

-----------------------------------------------------------------------------
(* Steps on Flow's fields, each part of a critical section under mu.       *)

\* Seeded faults: resetLocked forgets the cancel call, or its nil check.
Bug_CancelDropped   == cancelled' = cancelled
Bug_CancelUnchecked == cancelled' = cancelled \cup {cancel}

\* The cancel func in the cancel field is called, if there is one.
CancelCurrent == cancelled' = cancelled \cup ({cancel} \ {Nil})

\* resetLocked: the attempt, if any, is cancelled and disowned.
ResetLocked ==
    /\ gen < MaxGen
    /\ gen' = gen + 1
    /\ CancelCurrent
    /\ cancel' = Nil
    /\ auth' = Nil
    /\ done' = Nil
    /\ inProgress' = FALSE

\* resetLocked followed by the registration of a fresh attempt of kind k:
\* only a code attempt has an authenticator.
Begin(k) ==
    /\ gen < MaxGen
    /\ gen' = gen + 1
    /\ CancelCurrent
    /\ cancel' = gen'
    /\ auth' = IF k = "code" THEN gen' ELSE Nil
    /\ done' = gen'
    /\ inProgress' = TRUE
    /\ kind' = [kind EXCEPT ![gen + 1] = k]

\* Seeded fault: a superseded attempt publishes its state.
Bug_Transition(g, st) == state' = st

\* transition: a superseded attempt publishes nothing.
Transition(g, st) == state' = IF gen = g THEN st ELSE state

\* abandon: the attempt is torn down, unless it is superseded already.
Abandon(g) ==
    \/ /\ gen = g
       /\ ResetLocked
       /\ state' = "logged_out"
    \/ /\ gen # g
       /\ UNCHANGED <<flowVars, cancelled>>

-----------------------------------------------------------------------------
(* Steps of requests.                                                      *)

InFlight == {r \in Requests : pc[r] \notin {"idle", "returned"}}

\* A client issues request r to endpoint op.
Call(r, op) ==
    /\ pc[r] = "idle"
    /\ op \in Ops
    /\ Cardinality(InFlight) < MaxInFlight

Goto(r, where) == pc' = [pc EXCEPT ![r] = where]

\* The handler writes its response.
Return(r, a) ==
    /\ Goto(r, "returned")
    /\ answer' = [answer EXCEPT ![r] = a]

\* Request r holds the authenticator (or gen) of attempt g and the done
\* channel of attempt h.
Hold(r, g, h) ==
    /\ att' = [att EXCEPT ![r] = g]
    /\ chan' = [chan EXCEPT ![r] = h]

\* The case err := <-done of a select: the one buffered value is taken.
ReceiveDone(r, e) ==
    /\ e # "empty"
    /\ doneCh[chan[r]] = e
    /\ doneCh' = [doneCh EXCEPT ![chan[r]] = "empty"]

\* decodeBody rejects the body, or the phone is empty: 4xx/5xx, no effect.
BadRequest(r) ==
    /\ \E op \in {"StartLogin", "SubmitCode", "SubmitPassword"} : Call(r, op)
    /\ Return(r, "error")
    /\ UNCHANGED <<flowVars, attemptVars, att, chan>>

\* Seeded fault: StartLogin does not reject a second login.
Bug_StartLogin(r) ==
    /\ Call(r, "StartLogin")
    /\ Begin("code")
    /\ run' = [run EXCEPT ![gen + 1] = "connect"]
    /\ Goto(r, "awaitCode")
    /\ Hold(r, gen + 1, gen + 1)
    /\ UNCHANGED <<state, err, codeReq, passReq, urlCh, doneCh, answer>>

\* StartLogin up to its select: a fresh code attempt is registered under mu
\* and its goroutine launched.  state keeps its value until the goroutine
\* writes it.
StartLogin(r) ==
    /\ Call(r, "StartLogin")
    /\ ~inProgress
    /\ Begin("code")
    /\ run' = [run EXCEPT ![gen + 1] = "connect"]
    /\ Goto(r, "awaitCode")
    /\ Hold(r, gen + 1, gen + 1)
    /\ UNCHANGED <<state, err, codeReq, passReq, urlCh, doneCh, answer>>

StartLoginBusy(r) ==
    /\ Call(r, "StartLogin")
    /\ inProgress
    /\ Return(r, "error")
    /\ UNCHANGED <<flowVars, attemptVars, att, chan>>

\* StartLogin's select: codeReq is closed, so it returns nil to the handler.
StartLoginCodeAsked(r) ==
    /\ pc[r] = "awaitCode"
    /\ att[r] \in codeReq
    /\ Goto(r, "readStatus")
    /\ UNCHANGED <<flowVars, attemptVars, att, chan, answer>>

\* StartLogin's select: the attempt ended without asking for a code.
StartLoginEnded(r) ==
    /\ pc[r] = "awaitCode"
    /\ \/ /\ ReceiveDone(r, "nil")
          /\ Goto(r, "readStatus")
          /\ UNCHANGED answer
       \/ /\ ReceiveDone(r, "err")
          /\ Return(r, "error")
    /\ UNCHANGED <<flowVars, kind, run, err, cancelled, codeReq, passReq,
                   urlCh, att, chan>>

\* After a nil StartLogin the handler reads Status and answers with it.
AnswerStatus(r) ==
    /\ pc[r] = "readStatus"
    /\ Return(r, state)
    /\ UNCHANGED <<flowVars, attemptVars, att, chan>>

\* SubmitCode / SubmitPassword in the state they need: the authenticator and
\* the done channel are read under mu.
Submit(r, op, st, where) ==
    /\ Call(r, op)
    /\ state = st
    /\ Goto(r, where)
    /\ Hold(r, auth, done)
    /\ UNCHANGED <<flowVars, attemptVars, answer>>

SubmitCode(r)     == Submit(r, "SubmitCode", "wait_code", "sendCode")
SubmitPassword(r) == Submit(r, "SubmitPassword", "wait_password", "sendPass")

SubmitRejected(r) ==
    /\ \/ Call(r, "SubmitCode") /\ state # "wait_code"
       \/ Call(r, "SubmitPassword") /\ state # "wait_password"
    /\ Return(r, "error")
    /\ UNCHANGED <<flowVars, attemptVars, att, chan>>

\* A value is handed over an unbuffered channel: the sending request and the
\* receiving attempt step together.
Deliver(r, from, recv, next, to) ==
    /\ pc[r] = from
    /\ att[r] \in Gens
    /\ run[att[r]] = recv
    /\ run' = [run EXCEPT ![att[r]] = next]
    /\ Goto(r, to)
    /\ UNCHANGED <<flowVars, kind, err, cancelled, codeReq, passReq, urlCh,
                   doneCh, att, chan, answer>>

DeliverCode(r) == Deliver(r, "sendCode", "codeWait", "signIn", "observeCode")
DeliverPassword(r) ==
    Deliver(r, "sendPass", "passWait", "checkPass", "observePass")

\* SubmitCode's second select: passReq is closed, ErrPasswordNeeded.
SubmitCodePasswordNeeded(r) ==
    /\ pc[r] = "observeCode"
    /\ att[r] \in passReq
    /\ Return(r, "wait_password")
    /\ UNCHANGED <<flowVars, attemptVars, att, chan>>

\* The selects of SubmitCode and SubmitPassword: the attempt ended.
SubmitEnded(r) ==
    /\ pc[r] \in {"sendCode", "observeCode", "sendPass", "observePass"}
    /\ \/ ReceiveDone(r, "nil") /\ Return(r, "logged_in")
       \/ ReceiveDone(r, "err") /\ Return(r, "error")
    /\ UNCHANGED <<flowVars, kind, run, err, cancelled, codeReq, passReq,
                   urlCh, att, chan>>

\* Seeded fault: StartQR leaves the state as it was.
Bug_StartQRClear == UNCHANGED state

\* StartQR clears the state a preempted code login left.
StartQRClear == state' = "logged_out"

\* Seeded fault: StartQR launches at once.
Bug_MustAwait == FALSE

\* StartQR has preempted an attempt, whose goroutine it waits for.
MustAwait == inProgress /\ done # Nil

\* StartQR up to its first select: any attempt is preempted, a QR attempt is
\* registered, and launched at once unless an attempt was preempted.
StartQR(r) ==
    /\ Call(r, "StartQR")
    /\ Begin("qr")
    /\ StartQRClear
    /\ \/ /\ MustAwait
          /\ Goto(r, "awaitPrev")
          /\ Hold(r, gen + 1, done)
          /\ UNCHANGED run
       \/ /\ ~MustAwait
          /\ Goto(r, "awaitURL")
          /\ Hold(r, gen + 1, gen + 1)
          /\ run' = [run EXCEPT ![gen + 1] = "connect"]
    /\ UNCHANGED <<err, codeReq, passReq, urlCh, doneCh, answer>>

\* case <-prevDone: the new goroutine is launched, superseded or not.
StartQRLaunch(r) ==
    /\ pc[r] = "awaitPrev"
    /\ \E e \in {"nil", "err"} : ReceiveDone(r, e)
    /\ run' = [run EXCEPT ![att[r]] = "connect"]
    /\ Goto(r, "awaitURL")
    /\ Hold(r, att[r], att[r])
    /\ UNCHANGED <<flowVars, kind, err, cancelled, codeReq, passReq, urlCh,
                   answer>>

StartQRShown(r) ==
    /\ pc[r] = "awaitURL"
    /\ att[r] \in urlCh
    /\ urlCh' = urlCh \ {att[r]}
    /\ Return(r, "url")
    /\ UNCHANGED <<flowVars, kind, run, err, cancelled, codeReq, passReq,
                   doneCh, att, chan>>

StartQREnded(r) ==
    /\ pc[r] = "awaitURL"
    /\ \/ ReceiveDone(r, "nil") /\ Return(r, "no_url")
       \/ ReceiveDone(r, "err") /\ Return(r, "error")
    /\ UNCHANGED <<flowVars, kind, run, err, cancelled, codeReq, passReq,
                   urlCh, att, chan>>

\* case <-ctx.Done() of StartLogin and StartQR: the attempt is abandoned.
StartCancelled(r) ==
    /\ pc[r] \in {"awaitCode", "awaitPrev", "awaitURL"}
    /\ r \in Impatient
    /\ Abandon(att[r])
    /\ Return(r, "cancelled")
    /\ UNCHANGED <<kind, run, err, codeReq, passReq, urlCh, doneCh, att, chan>>

\* case <-ctx.Done() of SubmitCode and SubmitPassword: nothing is undone.
SubmitCancelled(r) ==
    /\ pc[r] \in {"sendCode", "observeCode", "sendPass", "observePass"}
    /\ r \in Impatient
    /\ Return(r, "cancelled")
    /\ UNCHANGED <<flowVars, attemptVars, att, chan>>

Status(r) ==
    /\ Call(r, "Status")
    /\ Return(r, state)
    /\ UNCHANGED <<flowVars, attemptVars, att, chan>>

Logout(r) ==
    /\ Call(r, "Logout")
    /\ ResetLocked
    /\ state' = "logged_out"
    /\ Return(r, "ok")
    /\ UNCHANGED <<kind, run, err, codeReq, passReq, urlCh, doneCh, att, chan>>

-----------------------------------------------------------------------------
(* Steps of an attempt's goroutine.  gotd's own steps (connecting, sending *)
(* the code, signing in, checking the password, awaiting the scan) are     *)
(* external: each ends in the next callback, in success or in an error.    *)

RunGoto(g, from, to) ==
    /\ run[g] = from
    /\ run' = [run EXCEPT ![g] = to]

\* Seeded fault: Code signals codeReq without calling onCode.
Bug_OnCode(g) ==
    /\ kind[g] = "code"
    /\ RunGoto(g, "connect", "onCode")
    /\ UNCHANGED <<flowVars, kind, err, cancelled, codeReq, passReq, urlCh,
                   doneCh, requestVars>>

\* flowAuthenticator.Code: onCode publishes the state ...
OnCode(g) ==
    /\ kind[g] = "code"
    /\ RunGoto(g, "connect", "onCode")
    /\ Transition(g, "wait_code")
    /\ UNCHANGED <<inProgress, gen, cancel, auth, done, kind, err, cancelled,
                   codeReq, passReq, urlCh, doneCh, requestVars>>

\* ... then codeReq is closed and Code blocks for the code.
CloseCodeReq(g) ==
    /\ RunGoto(g, "onCode", "codeWait")
    /\ codeReq' = codeReq \cup {g}
    /\ UNCHANGED <<flowVars, kind, err, cancelled, passReq, urlCh, doneCh,
                   requestVars>>

\* flowAuthenticator.Password, after SignIn asked for the 2FA password.
OnPass(g) ==
    /\ RunGoto(g, "signIn", "onPass")
    /\ Transition(g, "wait_password")
    /\ UNCHANGED <<inProgress, gen, cancel, auth, done, kind, err, cancelled,
                   codeReq, passReq, urlCh, doneCh, requestVars>>

ClosePassReq(g) ==
    /\ RunGoto(g, "onPass", "passWait")
    /\ passReq' = passReq \cup {g}
    /\ UNCHANGED <<flowVars, kind, err, cancelled, codeReq, urlCh, doneCh,
                   requestVars>>

\* RunQR's first token: the URL goes into urlCh.
ShowToken(g) ==
    /\ kind[g] = "qr"
    /\ RunGoto(g, "connect", "scanWait")
    /\ urlCh' = urlCh \cup {g}
    /\ UNCHANGED <<flowVars, kind, err, cancelled, codeReq, passReq, doneCh,
                   requestVars>>

\* A token that replaces an expired one: kept only if urlCh has room.
RefreshToken(g) ==
    /\ run[g] = "scanWait"
    /\ urlCh' = urlCh \cup {g}
    /\ UNCHANGED <<flowVars, kind, run, err, cancelled, codeReq, passReq,
                   doneCh, requestVars>>

\* RunAuth / RunQR returns e.
RunReturns(g, from, e) ==
    /\ run[g] \in from
    /\ run' = [run EXCEPT ![g] = "returned"]
    /\ err' = [err EXCEPT ![g] = e]
    /\ UNCHANGED <<flowVars, kind, cancelled, codeReq, passReq, urlCh, doneCh,
                   requestVars>>

\* gotd is waiting for Telegram's answer, not for the user.
InRPC == {"connect", "signIn", "checkPass"}

\* Success: already authorized, signed in, or 2FA password accepted.
RunSucceeds(g) == kind[g] = "code" /\ RunReturns(g, InRPC, "nil")

\* Success of a QR login: the phone scanned the token.
ScanSucceeds(g) == RunReturns(g, {"scanWait"}, "nil")

\* Failure of an RPC, or a cancelled context noticed in one.
RunFails(g) == RunReturns(g, InRPC, "err")

\* Run fails while gotd waits for the user: its connection is lost, or the scan
\* is refused (an account with 2FA, a token that cannot be renewed).
ConnectionLost(g) ==
    RunReturns(g, {"codeWait", "passWait", "scanWait"}, "err")

\* A blocked Code / Password / QR.Auth notices that ctx is cancelled.
Unwind(g) == g \in cancelled /\ ConnectionLost(g)

\* Seeded fault: a superseded attempt records its result.
Bug_FinishAttempt(g) ==
    /\ RunGoto(g, "returned", "announce")
    /\ CancelCurrent
    /\ cancel' = Nil
    /\ auth' = Nil
    /\ done' = Nil
    /\ inProgress' = FALSE
    /\ state' = IF err[g] = "nil" THEN "logged_in" ELSE "logged_out"
    /\ UNCHANGED <<gen, kind, err, codeReq, passReq, urlCh, doneCh, requestVars>>

\* finishAttempt: the terminal state is recorded, unless superseded.
FinishAttempt(g) ==
    /\ RunGoto(g, "returned", "announce")
    /\ \/ /\ gen = g
          /\ CancelCurrent
          /\ cancel' = Nil
          /\ auth' = Nil
          /\ done' = Nil
          /\ inProgress' = FALSE
          /\ state' = IF err[g] = "nil" THEN "logged_in" ELSE "logged_out"
          /\ UNCHANGED gen
       \/ /\ gen # g
          /\ UNCHANGED <<flowVars, cancelled>>
    /\ UNCHANGED <<kind, err, codeReq, passReq, urlCh, doneCh, requestVars>>

\* done <- err: never blocks, the buffer has room for the only value.
SendDone(g) ==
    /\ RunGoto(g, "announce", "exited")
    /\ doneCh[g] = "empty"
    /\ doneCh' = [doneCh EXCEPT ![g] = err[g]]
    /\ UNCHANGED <<flowVars, kind, err, cancelled, codeReq, passReq, urlCh,
                   requestVars>>

-----------------------------------------------------------------------------

\* What request r does by itself, once issued.
RequestStep(r) ==
    \/ StartLoginCodeAsked(r) \/ StartLoginEnded(r) \/ AnswerStatus(r)
    \/ DeliverCode(r) \/ DeliverPassword(r)
    \/ SubmitCodePasswordNeeded(r) \/ SubmitEnded(r)
    \/ StartQRLaunch(r) \/ StartQRShown(r) \/ StartQREnded(r)

\* A client calls an endpoint.
ClientCall(r) ==
    \/ BadRequest(r)
    \/ StartLogin(r) \/ StartLoginBusy(r)
    \/ SubmitCode(r) \/ SubmitPassword(r) \/ SubmitRejected(r)
    \/ StartQR(r) \/ Status(r) \/ Logout(r)

ClientCancels(r) == StartCancelled(r) \/ SubmitCancelled(r)

\* What attempt g does without the user's help.
AttemptStep(g) ==
    \/ OnCode(g) \/ CloseCodeReq(g) \/ OnPass(g) \/ ClosePassReq(g)
    \/ ShowToken(g) \/ RunSucceeds(g) \/ RunFails(g) \/ Unwind(g)
    \/ FinishAttempt(g) \/ SendDone(g)

\* What happens to attempt g from outside.
Environment(g) == RefreshToken(g) \/ ScanSucceeds(g) \/ ConnectionLost(g)

Next ==
    \/ \E r \in Requests : ClientCall(r) \/ RequestStep(r) \/ ClientCancels(r)
    \/ \E g \in Gens : AttemptStep(g) \/ Environment(g)

Spec == Init /\ [][Next]_vars

(***************************************************************************)
(* Go schedules every runnable goroutine, a select with a ready case takes *)
(* one, and gotd answers or fails every RPC; a user owes nothing.          *)
(***************************************************************************)
FairSpec ==
    /\ Spec
    /\ \A r \in Requests : WF_vars(RequestStep(r))
    /\ \A g \in Gens : WF_vars(AttemptStep(g))

-----------------------------------------------------------------------------
(* Safety.                                                                 *)

\* While the state asks for a code or a password, the attempt in progress is
\* a code login whose authenticator and done channel are the ones in Flow, so
\* a Submit* call that passes its state check never uses a nil authenticator
\* or the channel of another attempt.
LiveHandle ==
    state \in {"wait_code", "wait_password"} =>
        /\ inProgress
        /\ auth = gen
        /\ done = gen
        /\ gen # Nil

\* The published state and the real flow do not drift apart, whatever is
\* cancelled or preempted mid-flight: the current attempt is asking for a code
\* exactly from onCode until SignIn is over, for a password from onPass until
\* the password is checked, and for neither before that or in a QR login.
StateFollowsFlow ==
    inProgress =>
        /\ run[gen] \in {"onCode", "codeWait", "signIn"} => state = "wait_code"
        /\ run[gen] \in {"onPass", "passWait", "checkPass"} =>
              state = "wait_password"
        /\ run[gen] \in {"none", "connect", "scanWait"} =>
              state \in {"logged_out", "logged_in"}
        /\ kind[gen] = "qr" => state = "logged_out"

\* A login run whose context is not cancelled belongs to the attempt Flow
\* tracks: preemption, Logout and abandon never leave a run nobody can stop.
OnlyCurrentRunsFree ==
    \A g \in Gens :
        run[g] \in InRun /\ g \notin cancelled =>
            g = gen /\ inProgress /\ cancel = g

\* logged_in is only ever the recorded success of the last attempt, or is
\* left over from the success just before a code login that has not asked for
\* its code yet; no request is told logged_in when no attempt succeeded.
LoggedInEarned ==
    /\ state = "logged_in" =>
          \/ ~inProgress /\ gen \in Gens /\ err[gen] = "nil"
          \/ inProgress /\ kind[gen] = "code" /\ gen - 1 \in Gens
             /\ err[gen - 1] = "nil"
    /\ \A r \in Requests :
          answer[r] = "logged_in" => \E g \in Gens : err[g] = "nil"

\* A request that follows the current attempt is answered after the state it
\* is answered with is published: told logged_in, Status says so; told that a
\* password is needed, SubmitPassword is accepted or the attempt is over; and
\* StartLogin returns nil only once a code is awaited or the login is done.
AnswersPublishedState ==
    \A r \in Requests :
        gen # Nil /\ att[r] = gen =>
            /\ answer[r] = "logged_in" => state = "logged_in"
            /\ answer[r] = "wait_password" =>
                  \/ state = "wait_password"
                  \/ ~inProgress /\ err[gen] # "none"
            /\ pc[r] = "readStatus" => state # "logged_out" \/ err[gen] = "err"

\* gotd's Run is not reentrant: two attempts are never inside it together.
NoReentrantRun ==
    \A g, h \in Gens : run[g] \in InRun /\ run[h] \in InRun => g = h

\* StartQR waits for the attempt it preempts: however requests interleave, two
\* attempts are inside Run together only if somebody logged out or was cut off.
PreemptionWaits ==
    NoReentrantRun \/ \E r \in Requests : answer[r] \in {"ok", "cancelled"}

-----------------------------------------------------------------------------
(* Action properties.                                                      *)

\* The goroutine of a superseded attempt changes nothing of Flow: its late
\* transition and finishAttempt calls are no-ops.
SupersededWritesIgnored ==
    [][\A g \in Gens :
          run'[g] # run[g] /\ g # gen /\ g # gen' => UNCHANGED flowVars]_vars

\* Only the goroutine of the current attempt moves the state to anything but
\* logged_out; requests never derive a state themselves.
SoleWriter ==
    [][state' # state /\ state' # "logged_out" =>
          gen' = gen /\ gen # Nil /\ run'[gen] # run[gen]]_vars

-----------------------------------------------------------------------------
(* Liveness, under FairSpec.                                               *)

\* The goroutine of a superseded attempt unwinds, sends its error and exits:
\* preemption, Logout and abandon leak no goroutine.
NoGoroutineLeak ==
    \A g \in Gens : run[g] \in InRun /\ g # gen ~> run[g] = "exited"

\* Every request returns promptly: it waits for Telegram and for nobody else.
EveryRequestReturns ==
    \A r \in Requests : pc[r] # "idle" ~> pc[r] = "returned"

\* Request r submits a code to a login that was given one already, and now
\* awaits the password.
CodeUnread(r) == pc[r] = "sendCode" /\ run[att[r]] = "passWait"

\* A client that makes one call at a time is always answered, whichever of its
\* calls were cut off before: what a call leaves behind blocks none of the next,
\* save a code retried after its login went on to ask for the password.
EveryOtherRequestReturns ==
    \A r \in Requests : pc[r] # "idle" ~> pc[r] = "returned" \/ CodeUnread(r)

\* SubmitCode returns nil, ErrPasswordNeeded or the error of the login.
SubmitCodeReturns ==
    \A r \in Requests :
        pc[r] \in {"sendCode", "observeCode"} ~> pc[r] = "returned"

-----------------------------------------------------------------------------
(* Refinement.                                                             *)

Lifecycle == INSTANCE LoginLifecycle
                 WITH live <- IF inProgress THEN kind[gen] ELSE "none"

\* Whatever requests and goroutines do, callers see one login at a time.
ImplementsLifecycle == Lifecycle!LifecycleSpec

-----------------------------------------------------------------------------
(* The inductive invariant: what ties Flow's fields, the attempts and the  *)
(* requests together.                                                      *)

\* Flow's handles are those of the attempt in progress, or all cleared.
HandlesInv ==
    /\ ~inProgress => cancel = Nil /\ auth = Nil /\ done = Nil
    /\ inProgress =>
          /\ gen \in Gens
          /\ kind[gen] \in {"code", "qr"}
          /\ cancel = gen
          /\ done = gen
          /\ auth = IF kind[gen] = "code" THEN gen ELSE Nil
          /\ run[gen] \notin {"announce", "exited"}

\* An attempt runs what its kind allows, has an error once its run is over,
\* holds a value in done only after it recorded it, and is cancelled as soon
\* as Flow no longer tracks it.
AttemptInv ==
    \A g \in Gens :
        /\ g > gen => kind[g] = "none"
        /\ kind[g] = "none" => run[g] = "none"
        /\ run[g] \in {"onCode", "codeWait", "signIn", "onPass", "passWait",
                       "checkPass"} => kind[g] = "code"
        /\ run[g] = "scanWait" => kind[g] = "qr"
        /\ err[g] = "none" <=> run[g] \notin AfterRun
        /\ doneCh[g] # "empty" => run[g] = "exited" /\ doneCh[g] = err[g]
        /\ kind[g] # "none" /\ (g # gen \/ ~inProgress) => g \in cancelled
        /\ g = gen /\ kind[g] # "none" /\ ~inProgress =>
              run[g] \in {"announce", "exited"}

\* What the state says of the current attempt.
StateInv ==
    /\ state = "wait_code" =>
          /\ inProgress /\ kind[gen] = "code"
          /\ run[gen] \in {"onCode", "codeWait", "signIn", "returned"}
    /\ state = "wait_password" =>
          /\ inProgress /\ kind[gen] = "code"
          /\ run[gen] \in {"onPass", "passWait", "checkPass", "returned"}
    /\ StateFollowsFlow
    /\ ~inProgress /\ gen \in Gens /\ kind[gen] # "none" =>
          state = IF err[gen] = "nil" THEN "logged_in" ELSE "logged_out"
    /\ state = "logged_in" =>
          \/ ~inProgress /\ gen \in Gens /\ err[gen] = "nil"
          \/ inProgress /\ kind[gen] = "code" /\ gen - 1 \in Gens
             /\ err[gen - 1] = "nil"

\* A request in a select holds the channels of attempts that exist, and the
\* attempt a StartQR has yet to launch is its own.
RequestInv ==
    \A r \in Requests :
        /\ att[r] <= gen
        /\ chan[r] <= gen
        /\ pc[r] \notin {"idle", "returned"} => att[r] \in Gens /\ chan[r] \in Gens
        /\ pc[r] = "awaitPrev" =>
              /\ kind[att[r]] = "qr"
              /\ run[att[r]] = "none"
              /\ \A q \in Requests \ {r} :
                    pc[q] = "awaitPrev" => att[q] # att[r]
        /\ answer[r] = "logged_in" => \E g \in Gens : err[g] = "nil"

Inv == TypeOK /\ HandlesInv /\ AttemptInv /\ StateInv /\ RequestInv

\* A channel is closed by the attempt that asks, which goes on from there; while
\* it is the current one, the state is what it asked for.
AskInv ==
    /\ \A g \in codeReq :
          run[g] \in {"codeWait", "signIn", "onPass", "passWait", "checkPass"} \cup AfterRun
    /\ \A g \in passReq : run[g] \in {"passWait", "checkPass"} \cup AfterRun
    /\ inProgress /\ gen \in codeReq => state \in {"wait_code", "wait_password"}
    /\ inProgress /\ gen \in passReq => state = "wait_password"

\* What request r waits for, reads next or was answered is of the attempt it holds.
AnswerOK(r) ==
    /\ pc[r] = "idle" => att[r] = Nil
    /\ pc[r] # "returned" => answer[r] = "none"
    /\ pc[r] \notin {"idle", "awaitPrev", "returned"} => chan[r] = att[r]
    /\ pc[r] = "readStatus" => att[r] \in codeReq \/ run[att[r]] = "exited"
    /\ att[r] = gen /\ gen # Nil =>
          /\ answer[r] = "logged_in" => ~inProgress /\ err[gen] = "nil"
          /\ answer[r] = "wait_password" =>
                state = "wait_password" \/ (~inProgress /\ err[gen] # "none")

AnswerInv == \A r \in Requests : AnswerOK(r)

\* Nobody logged out or was cut off.
Undisturbed == \A r \in Requests : answer[r] \notin {"ok", "cancelled"}

\* Attempts run one after another: one that is launched finds every earlier one
\* past its run, since a StartQR waits for the attempt just before its own.
OneAfterAnother ==
    /\ \A g \in 1..gen : kind[g] # "none"
    /\ \A r \in Requests : pc[r] = "awaitPrev" => chan[r] = att[r] - 1
    /\ \A g, h \in Gens :
          h < g /\ run[g] # "none" => run[h] \in {"announce", "exited"}

\* They do so as long as nobody logs out or is cut off.
PreemptionInv == Undisturbed => OneAfterAnother

\* Inv, and what the order of answers and the order of runs rest on.
FullInv == Inv /\ AskInv /\ AnswerInv /\ PreemptionInv

=============================================================================
