------------------------------ MODULE Transfer ------------------------------
(***************************************************************************)
(* One transfer of a file: an upload (internal/telegram/upload) or the     *)
(* download of a document into an HTTP response (internal/telegram/        *)
(* download under internal/httpapi), through the engine that retries the   *)
(* whole operation (internal/transfer, internal/telegram/retry) and the    *)
(* client middleware that waits out FLOOD_WAIT (internal/telegram/client). *)
(*                                                                         *)
(* A file is the sequence of its parts 1..size, and a part takes one RPC.  *)
(* The network, the source of an upload, the response writer, gotd's       *)
(* uploader and downloader and the client that may disconnect are the      *)
(* environment.  A check of the context and the call it guards are two     *)
(* steps, and the client may disconnect in between.  gotd asks for one     *)
(* part at a time and may ask again for one that failed.  Time is left     *)
(* out: a timer that is set may fire at any time.                          *)
(***************************************************************************)
EXTENDS Integers, Sequences

CONSTANTS
    Kinds,         \* what is transferred: "upload", "download"
    MaxSize,       \* bound: a file has at most this many parts
    MaxAttempts,   \* transferPolicy: attempts of the whole operation,
    Base, Max,     \* its first backoff delay and its longest one
    FloodRetries,  \* retries of one RPC by the flood-wait middleware
    FloodWaits,    \* the delays a FLOOD_WAIT error may ask for
    Width          \* bits of a time.Duration

ASSUME TransferAssumption ==
    /\ Kinds \subseteq {"upload", "download"}
    /\ MaxSize \in Nat /\ MaxAttempts \in Nat \ {0} /\ FloodRetries \in Nat
    /\ Width \in Nat \ {0, 1}
    /\ Base \in Nat /\ Max \in Nat /\ Max <= 2^(Width - 2)
    /\ FloodWaits \subseteq Nat

VARIABLES
    job,       \* what is transferred: kind, size, whether the reader can seek
    ctx,       \* the request's context: "live" or "done"
    pc,        \* where the transfer is
    call,      \* the RPC the middleware drives
    tries,     \* the middleware's attempt at it
    attempt,   \* retry.Do's attempt
    wait,      \* the delay of the timer that was set last
    err,       \* the last error, and what the transfer returns
    pos,       \* parts the reader gave, or this attempt's stream wrote
    done,      \* progressReader / progressWriter: parts of this attempt,
    finalSent, \* whether its final report was sent,
    report,    \* and the last report
    body,      \* upload: the parts Telegram has of this attempt
    posted,    \* upload: the documents posted to the channel
    out,       \* download: the parts the response writer accepted,
    n,         \* countingWriter: how many,
    wrote,     \* streamWriter: whether anything was written to it
    response,  \* download: how the HTTP handler answers, "none" before
    late       \* history: the calls that ended after the client disconnected

streamVars   == <<pos, body, posted, out, n, wrote>>
progressVars == <<done, finalSent, report>>
retryVars    == <<attempt, wait, err>>
vars == <<job, ctx, pc, call, tries, retryVars, streamVars, progressVars, response, late>>

Goto(where) == pc' = where

NoError     == [what |-> "none", secs |-> 0]
Fault       == [what |-> "fault", secs |-> 0]
Canceled    == [what |-> "canceled", secs |-> 0]
Mismatch    == [what |-> "mismatch", secs |-> 0]
Flood(secs) == [what |-> "flood", secs |-> secs]

\* The parts of a file, in order.
Doc(size) == [i \in 1..size |-> i]

\* An upload begins with its attempts, a download with the fetch of the message
\* that carries the document.
Init ==
    /\ job \in [kind : Kinds, size : 0..MaxSize, seekable : BOOLEAN]
    /\ job.kind = "download" => ~job.seekable
    /\ ctx = "live"
    /\ pc = IF job.kind = "upload" THEN "attempt" ELSE "rpc"
    /\ call = IF job.kind = "upload" THEN "none" ELSE "fetch"
    /\ tries = 0 /\ attempt = 0 /\ wait = 0 /\ err = NoError
    /\ pos = 0 /\ body = <<>> /\ posted = <<>> /\ out = <<>> /\ n = 0 /\ wrote = FALSE
    /\ done = 0 /\ finalSent = FALSE /\ report = [done |-> 0, final |-> FALSE]
    /\ response = "none" /\ late = 0

\* The transfer returns e.
Return(e) ==
    /\ Goto("returned")
    /\ err' = e
    /\ call' = "none"

\* The client disconnects.
Cancel ==
    /\ ctx = "live" /\ pc # "returned"
    /\ ctx' = "done"
    /\ UNCHANGED <<job, pc, call, tries, retryVars, streamVars, progressVars, response, late>>

\* A call ends: a read of the source, an RPC, or a write to the response.
CallEnds == late' = IF ctx = "done" THEN late + 1 ELSE late

-----------------------------------------------------------------------------
(* Package retry.                                                          *)

\* What a signed integer of Width bits holds of x.
Wrap(x) == ((x + 2^(Width - 1)) % 2^Width) - 2^(Width - 1)

\* Seeded fault: the delay is compared with the maximum only in the end.
Bug_Backoff(i, base, max) ==
    LET d[j \in 0..i] == IF j = 0 THEN base ELSE Wrap(2 * d[j - 1])
    IN  IF i < 0 THEN base ELSE IF d[i] > max THEN max ELSE d[i]

\* The delays up to attempt last: the delay is doubled once per attempt, and not
\* any more once it has reached the maximum.
Delays(last, base, max) ==
    LET d[j \in 0..last] ==
            IF j = 0 THEN base
            ELSE IF d[j - 1] >= max THEN max ELSE Wrap(2 * d[j - 1])
    IN  d

\* Backoff of attempt i.
Backoff(i, base, max) ==
    LET last  == IF i < 0 THEN 0 ELSE i
        delay == Delays(last, base, max)[last]
    IN  IF delay > max THEN max ELSE delay

\* Seeded fault: the policy of transfers is used for every reader.
Bug_Attempts == MaxAttempts

\* uploadWithRetry: a reader that cannot seek is not retried.
Attempts == IF job.kind = "upload" /\ ~job.seekable THEN 1 ELSE MaxAttempts

\* Seeded fault: the operation is retried however often it failed.
Bug_AttemptFailed(e) ==
    /\ Goto("backoff")
    /\ err' = e
    /\ call' = "none"
    /\ attempt' = (attempt + 1) % MaxAttempts
    /\ wait' = Backoff(attempt, Base, Max)

\* Do: the attempt has failed with e.  Do waits as long as a FLOOD_WAIT asks
\* for, else for the backoff delay; after the last attempt it returns e.
AttemptFailed(e) ==
    \/ /\ attempt < Attempts - 1
       /\ Goto("backoff")
       /\ err' = e
       /\ call' = "none"
       /\ attempt' = attempt + 1
       /\ wait' = IF e.what = "flood" THEN e.secs ELSE Backoff(attempt, Base, Max)
    \/ /\ attempt = Attempts - 1
       /\ Return(e)
       /\ UNCHANGED <<attempt, wait>>

\* Do's wait ends with its timer, or at once with the context.
BackoffWait ==
    /\ pc = "backoff"
    /\ \/ Goto("attempt") /\ UNCHANGED <<call, err>>
       \/ ctx = "done" /\ Return(Canceled)
    /\ UNCHANGED <<job, ctx, tries, attempt, wait, streamVars, progressVars, response, late>>

-----------------------------------------------------------------------------
(* The flood-wait middleware, which every RPC passes.                      *)

StartCall(rpc) ==
    /\ Goto("rpc")
    /\ call' = rpc
    /\ tries' = 0

\* Telegram answers the RPC: the message that carries the document, a part of
\* it, or that a part was stored, or that the document was posted.
Answered ==
    \/ /\ call = "fetch"
       /\ Goto("attempt") /\ call' = "none"
       /\ UNCHANGED <<body, posted, err>>
    \/ /\ call = "part" /\ job.kind = "download"
       /\ Goto("write") /\ call' = "none"
       /\ UNCHANGED <<body, posted, err>>
    \/ /\ call = "part" /\ job.kind = "upload"
       /\ body' = Append(body, pos)
       /\ Goto("stream") /\ call' = "none"
       /\ UNCHANGED <<posted, err>>
    \/ /\ call = "send"
       /\ posted' = Append(posted, body)
       /\ Return(NoError)
       /\ UNCHANGED body

\* gotd's uploader or downloader gives a part up, and the attempt fails with e,
\* or it waits to ask for the part again, as often as it likes.
PartFailed(e) ==
    \/ AttemptFailed(e)
    \/ e # Canceled /\ Goto("partWait") /\ err' = e /\ UNCHANGED <<call, attempt, wait>>

\* The RPC has failed with e: that of a part fails to gotd, any other one ends
\* the transfer.
CallFailed(e) ==
    \/ call = "part" /\ PartFailed(e)
    \/ call # "part" /\ Return(e) /\ UNCHANGED <<attempt, wait>>

\* gotd's wait ends with its timer, or at once with the context.
PartWait ==
    /\ pc = "partWait"
    /\ \/ StartCall(call) /\ UNCHANGED retryVars
       \/ ctx = "done" /\ AttemptFailed(Canceled) /\ UNCHANGED tries
    /\ UNCHANGED <<job, ctx, streamVars, progressVars, response, late>>

\* FLOOD_WAIT: the middleware waits a second longer than it was asked to and
\* calls again, up to FloodRetries times.
Flooded(secs) ==
    \/ /\ tries < FloodRetries
       /\ Goto("floodWait")
       /\ tries' = tries + 1
       /\ wait' = secs + 1
       /\ err' = Flood(secs)
       /\ UNCHANGED <<call, attempt>>
    \/ /\ tries = FloodRetries
       /\ CallFailed(Flood(secs))
       /\ UNCHANGED tries

\* sendMedia may have posted the document although its answer is lost, or
\* carries no document.
MayHavePosted ==
    \/ UNCHANGED posted
    \/ call = "send" /\ posted' = Append(posted, body)

\* Seeded fault: the middleware calls again after every error.
Bug_Failed == Flooded(0) /\ MayHavePosted

\* Every other error is passed on: a failed RPC, or a reply without document.
Failed == CallFailed(Fault) /\ MayHavePosted /\ UNCHANGED tries

\* A turn of the middleware's loop begins with a look at the context.
Invoke ==
    /\ pc = "rpc"
    /\ \/ ctx = "live" /\ Goto("inFlight") /\ UNCHANGED <<call, retryVars>>
       \/ ctx = "done" /\ CallFailed(Canceled)
    /\ UNCHANGED <<job, ctx, tries, streamVars, progressVars, response, late>>

\* The RPC ends.  When the client disconnects while it is in flight it is given
\* up, or still answered.
Reply ==
    /\ pc = "inFlight"
    /\ \/ Answered /\ UNCHANGED <<tries, attempt, wait>>
       \/ Failed /\ UNCHANGED body
       \/ (\E secs \in FloodWaits : Flooded(secs)) /\ UNCHANGED <<body, posted>>
       \/ ctx = "done" /\ CallFailed(Canceled) /\ MayHavePosted /\ UNCHANGED <<tries, body>>
    /\ CallEnds
    /\ UNCHANGED <<job, ctx, pos, out, n, wrote, progressVars, response>>

\* The middleware's wait ends with its timer, or at once with the context.
FloodWait ==
    /\ pc = "floodWait"
    /\ \/ Goto("rpc") /\ UNCHANGED <<call, retryVars>>
       \/ ctx = "done" /\ CallFailed(Canceled)
    /\ UNCHANGED <<job, ctx, tries, streamVars, progressVars, response, late>>

-----------------------------------------------------------------------------
(* The attempts at the operation.                                          *)

\* emitProgress: at most one final report per attempt, which says that the
\* whole file is done.
Emit(parts, final) ==
    \/ /\ final /\ finalSent
       /\ UNCHANGED <<finalSent, report>>
    \/ /\ ~(final /\ finalSent)
       /\ finalSent' = (finalSent \/ final)
       /\ report' = [done |-> IF final /\ parts < job.size THEN job.size ELSE parts,
                     final |-> final]

\* Seeded fault: no reader of an upload is rewound.
Bug_Rewound == pos' = IF job.kind = "upload" THEN pos ELSE 0

\* An upload's reader seeks to its start before every attempt but the first, if
\* it can; a download's stream begins anew.
Rewound ==
    pos' = IF job.kind = "upload" /\ (attempt = 0 \/ ~job.seekable) THEN pos ELSE 0

\* Seeded fault: an attempt goes on counting where the last one failed.
Bug_ResetProgress == UNCHANGED <<done, finalSent>>

\* The counters of progressReader / progressWriter are reset.
ResetProgress == done' = 0 /\ finalSent' = FALSE

\* Do's next attempt.  If the reader fails to seek it has failed, before the
\* counters are reset.
StartAttempt ==
    /\ pc = "attempt"
    /\ \/ /\ ctx = "live"
          /\ Rewound /\ ResetProgress /\ body' = <<>>
          /\ Goto("stream")
          /\ UNCHANGED <<call, retryVars>>
       \/ /\ ctx = "live" /\ job.seekable /\ attempt > 0
          /\ AttemptFailed(Fault)
          /\ UNCHANGED <<pos, body, done, finalSent>>
       \/ /\ ctx = "done"
          /\ Return(Canceled)
          /\ UNCHANGED <<attempt, wait, pos, body, done, finalSent>>
    /\ UNCHANGED <<job, ctx, tries, posted, out, n, wrote, report, response, late>>

\* Upload: gotd's uploader reads on, which progressReader lets it do only while
\* the context is live.
Read ==
    /\ pc = "stream" /\ job.kind = "upload"
    /\ \/ ctx = "live" /\ Goto("read") /\ UNCHANGED <<call, retryVars>>
       \/ ctx = "done" /\ AttemptFailed(Canceled)
    /\ UNCHANGED <<job, ctx, tries, streamVars, progressVars, response, late>>

\* The next part is read, to be stored by gotd's uploader; at the end of the
\* file the document is sent to the channel.
ReadPart ==
    /\ pc = "read"
    /\ \/ /\ pos < job.size
          /\ pos' = pos + 1 /\ done' = done + 1
          /\ Emit(done + 1, FALSE)
          /\ StartCall("part")
          /\ UNCHANGED retryVars
       \/ /\ pos = job.size
          /\ Emit(done, TRUE)
          /\ StartCall("send")
          /\ UNCHANGED <<retryVars, pos, done>>
       \/ /\ pos < job.size /\ AttemptFailed(Fault)
          /\ UNCHANGED <<tries, pos, progressVars>>
    /\ CallEnds
    /\ UNCHANGED <<job, ctx, body, posted, out, n, wrote, response>>

\* Download: gotd's downloader asks for the next part, or ends the stream; that
\* it may do so too early is what the check of the length is for.
NextPart ==
    /\ pc = "stream" /\ job.kind = "download"
    /\ \/ pos < job.size /\ StartCall("part")
       \/ Goto("verify") /\ UNCHANGED <<call, tries>>
    /\ UNCHANGED <<job, ctx, retryVars, streamVars, progressVars, response, late>>

\* Seeded fault: progressWriter does not look at the context.
Bug_WriterGuard == TRUE

\* progressWriter.Write goes on only while the context is live.
WriterGuard == ctx = "live"

Write ==
    /\ pc = "write"
    /\ \/ WriterGuard /\ Goto("writing") /\ UNCHANGED <<call, retryVars>>
       \/ ctx = "done" /\ AttemptFailed(Canceled)
    /\ UNCHANGED <<job, ctx, tries, streamVars, progressVars, response, late>>

\* The part is written through countingWriter and streamWriter, or the write
\* fails.
WritePart ==
    /\ pc = "writing"
    /\ \/ /\ out' = Append(out, pos + 1) /\ n' = n + 1 /\ wrote' = TRUE
          /\ pos' = pos + 1 /\ done' = done + 1
          /\ Emit(done + 1, FALSE)
          /\ Goto("stream")
          /\ UNCHANGED <<call, retryVars>>
       \/ /\ wrote' = TRUE
          /\ AttemptFailed(Fault)
          /\ UNCHANGED <<out, n, pos, progressVars>>
    /\ CallEnds
    /\ UNCHANGED <<job, ctx, tries, body, posted, response>>

\* Seeded fault: the length is not checked.
Bug_Verdict == NoError

\* download.File: as many bytes must have been written as the document has.
Verdict == IF n = job.size THEN NoError ELSE Mismatch

\* DownloadTo ends with the final report, then File checks the length.
Verify ==
    /\ pc = "verify"
    /\ Emit(done, TRUE)
    /\ Return(Verdict)
    /\ UNCHANGED <<job, ctx, tries, attempt, wait, streamVars, done, response, late>>

\* Seeded fault: the error envelope is written whatever was written before.
Bug_Status == IF err = NoError THEN "200" ELSE "500"

\* The handler writes the error envelope if nothing was written before;
\* otherwise the response ends as a 200 with what was written.
Status == IF err = NoError \/ wrote THEN "200" ELSE "500"

Respond ==
    /\ pc = "returned" /\ job.kind = "download" /\ response = "none"
    /\ response' = Status
    /\ UNCHANGED <<job, ctx, pc, call, tries, retryVars, streamVars, progressVars, late>>

-----------------------------------------------------------------------------

Step ==
    \/ BackoffWait \/ Invoke \/ Reply \/ FloodWait \/ PartWait \/ StartAttempt
    \/ Read \/ ReadPart \/ NextPart \/ Write \/ WritePart \/ Verify \/ Respond

Next == Step \/ Cancel

Spec == Init /\ [][Next]_vars

\* Telegram takes a part or gives it out, or gotd gives the part up.
PartSettled == Reply /\ call = "part" /\ pc' \notin {"floodWait", "partWait"}

\* A timer that is set fires and an RPC is answered or fails; nobody has to
\* disconnect.  How often gotd asks for a part has no limit in this code: the
\* environment is trusted to settle a part that is asked for again and again.
FairSpec == Spec /\ WF_vars(Step) /\ SF_vars(PartSettled)

-----------------------------------------------------------------------------
(* Properties.                                                             *)

Errors == {NoError, Fault, Canceled, Mismatch} \cup {Flood(s) : s \in FloodWaits}

\* Every variable keeps its type.
TypeOK ==
    /\ job \in [kind : Kinds, size : 0..MaxSize, seekable : BOOLEAN]
    /\ ctx \in {"live", "done"}
    /\ pc \in {"attempt", "stream", "read", "rpc", "inFlight", "floodWait", "partWait",
               "write", "writing", "backoff", "verify", "returned"}
    /\ call \in {"none", "fetch", "part", "send"}
    /\ tries \in 0..FloodRetries /\ attempt \in 0..MaxAttempts - 1
    /\ wait \in Int /\ err \in Errors
    /\ pos \in 0..job.size /\ done \in 0..job.size
    /\ finalSent \in BOOLEAN
    /\ report \in [done : 0..job.size, final : BOOLEAN]
    /\ body \in Seq(1..job.size) /\ posted \in Seq(Seq(1..job.size))
    /\ out \in Seq(1..job.size) /\ n \in Nat /\ wrote \in BOOLEAN
    /\ response \in {"none", "200", "500"} /\ late \in Nat

Accepted == pc = "returned" /\ err = NoError

\* Whatever failed, was rewound and was retried on the way, a document that an
\* upload posts is the whole file, each part once and in order.
PostedIsWhole == \A i \in 1..Len(posted) : posted[i] = Doc(job.size)

\* An upload posts its file at most once, however often its parts or its send
\* were repeated, and has posted it when it succeeds.
PostedOnce ==
    /\ Len(posted) <= 1
    /\ Accepted /\ job.kind = "upload" => Len(posted) = 1

\* A download that succeeds wrote the document, so that a corrupt or partial one
\* is never taken for it (the comment of download.File).
AcceptedIsWhole == Accepted /\ job.kind = "download" => out = Doc(job.size)

\* That is so of a download whose operation was not repeated: a stream that ended
\* early, however often its parts were asked for, is found out.
UnrepeatedIsWhole ==
    Accepted /\ job.kind = "download" /\ attempt = 0 => out = Doc(job.size)

\* The error envelope is a response of its own: it never follows a part of the
\* file, in whichever attempt that was written.
EnvelopeAlone == response = "500" => out = <<>>

\* Progress is that of one attempt: no report exceeds the file, and a transfer
\* that succeeds has ended with a report that the file is done.
ProgressOfOneAttempt ==
    /\ report.done <= job.size
    /\ Accepted => report = [done |-> job.size, final |-> TRUE]

\* Whatever the transfer is at when the client disconnects, at most one call
\* still ends, the one that was past its check: a read of the source, an RPC
\* (sendMedia may yet post) or a write.  No layer begins another.
OneLateCall == late <= 1

\* The smaller of base * 2^i and max.
Capped(i, base, max) == IF base * 2^i > max THEN max ELSE base * 2^i

\* No delay overflows, for any maximum up to a quarter of the range of a
\* Duration and however many attempts are made.
NoDelayOverflows ==
    \A i \in 0..Width + 1, base \in 0..2^(Width - 1) - 1, max \in 0..2^(Width - 2) :
        Backoff(i, base, max) = Capped(i, base, max)

\* Between attempts Do waits as long as Telegram asks for, else base * 2^attempt
\* up to the maximum.
DelayInv ==
    pc = "backoff" =>
        wait = IF err.what = "flood" THEN err.secs ELSE Capped(attempt - 1, Base, Max)

\* That is what Do waits for, and no such delay overflows.
BackoffIsCapped == NoDelayOverflows /\ DelayInv

\* The middleware drives an RPC that fits what is transferred; no stage is of
\* the other kind.
CallInv ==
    /\ call # "none" <=> pc \in {"rpc", "inFlight", "floodWait", "partWait"}
    /\ pc = "partWait" => call = "part"
    /\ call = "send" \/ pc = "read" => job.kind = "upload"
    /\ call = "fetch" \/ pc \in {"write", "writing", "verify"} => job.kind = "download"
    /\ job.kind = "download" => ~job.seekable
    /\ response # "none" => pc = "returned"

\* Do counts the attempts it may make; the first one finds its reader at the
\* start, and a reader that cannot seek is read once.
RetryInv ==
    /\ attempt < Attempts
    /\ pc = "backoff" => attempt > 0
    /\ attempt = 0 /\ (pc = "attempt" \/ call = "fetch") => pos = 0
    /\ call = "fetch" => attempt = 0

\* Telegram has the parts of this attempt that were read, the one under way
\* excepted, and posts them once the reader is at the end.
UploadInv ==
    job.kind = "upload" =>
        /\ out = <<>>
        /\ body \in {Doc(pos), Doc(pos - 1)}
        /\ pc \in {"stream", "read"} => body = Doc(pos)
        /\ call = "part" => pos > 0 /\ body = Doc(pos - 1)
        /\ call = "send" => pos = job.size /\ body = Doc(pos)
        /\ posted # <<>> => pc = "returned" /\ posted = <<Doc(job.size)>>
        /\ Accepted => posted # <<>>

\* The response holds what this attempt wrote behind what earlier ones did;
\* counted, it is this attempt's alone only if nothing was left behind.
DownloadInv ==
    job.kind = "download" =>
        /\ posted = <<>> /\ body = <<>>
        /\ n = Len(out) /\ Len(out) >= pos
        /\ Len(out) = pos => out = Doc(pos)
        /\ out # <<>> => wrote
        /\ attempt = 0 => Len(out) = pos
        /\ pc \in {"write", "writing"} \/ call = "part" => pos < job.size
        /\ response = "500" => ~wrote
        /\ Accepted => n = job.size

\* The counters are those of the attempt, whose final report comes last.
ProgressInv ==
    /\ done = pos
    /\ call = "send" \/ Accepted => finalSent
    /\ finalSent =>
          /\ call = "send" \/ pc = "returned"
          /\ report = [done |-> job.size, final |-> TRUE]

\* A call that is past its check is the first to end since the disconnect.
LateInv ==
    /\ late <= 1
    /\ ctx = "live" \/ pc \in {"read", "inFlight", "writing"} => late = 0

\* How far every layer is while one of them runs.
StageInv ==
    /\ TypeOK /\ CallInv /\ RetryInv /\ DelayInv
    /\ UploadInv /\ DownloadInv /\ ProgressInv

\* The inductive invariant: the stages of the layers, and what the disconnect
\* leaves under way.
Inv == StageInv /\ LateInv

\* Every transfer ends, and every download is answered.
EveryTransferEnds ==
    <>(pc = "returned" /\ (job.kind = "download" => response # "none"))

=============================================================================
