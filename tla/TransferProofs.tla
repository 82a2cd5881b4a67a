--------------------------- MODULE TransferProofs ---------------------------
(***************************************************************************)
(* Proofs about Transfer: Backoff is what it is meant to be for integers   *)
(* of any width, and Inv is inductive, so that what an upload posts, what  *)
(* a download accepts and what either reports is right for files of any    *)
(* size, whatever the limits of the retries.                               *)
(***************************************************************************)
EXTENDS Transfer, FiniteSetTheorems, WellFoundedInduction, TLAPS

(***************************************************************************)
(* Package retry.  The induction theorems of the library are not within    *)
(* the provers' reach; a least counterexample takes their place.           *)
(***************************************************************************)

\* A non-empty set of natural numbers has a least one.
LEMMA LeastNatural ==
    ASSUME NEW T, T \subseteq Nat, T # {}
    PROVE  \E m \in T : \A k \in T : m <= k
<1>1. IsWellFoundedOn(OpToRel(<, Nat), Nat)
  BY NatLessThanWellFounded, Zenon
<1>2. \E m \in T : \A k \in T : <<k, m>> \notin OpToRel(<, Nat)
  BY <1>1, WFMin, Zenon
<1>3. \E m \in T : \A k \in T : ~(k < m)
  BY <1>2, Zenon DEF OpToRel
<1> QED
  BY <1>3

\* A set of n + 1 numbers has twice as many subsets as one of n.
LEMMA PowerDoubles ==
    ASSUME NEW k \in Nat
    PROVE  2^k \in Nat /\ 2^(k + 1) = 2 * 2^k
<1> DEFINE S == 1..k
           Without == SUBSET S
           With == {T \cup {k + 1} : T \in Without}
           f == [T \in Without |-> T \cup {k + 1}]
<1>1. /\ IsFiniteSet(S) /\ Cardinality(S) = k
      /\ IsFiniteSet(1..(k + 1)) /\ Cardinality(1..(k + 1)) = k + 1
  BY FS_Interval
<1>2. IsFiniteSet(Without) /\ Cardinality(Without) = 2^k
  BY <1>1, FS_SUBSET
<1>3. Cardinality(SUBSET (1..(k + 1))) = 2^(k + 1)
  BY <1>1, FS_SUBSET
<1>4. \A T, U \in Without : T \cup {k + 1} = U \cup {k + 1} => T = U
  <2>1. k + 1 \notin S
    OBVIOUS
  <2> QED
    BY <2>1
<1>5. f \in Bijection(Without, With)
  <2>1. f \in [Without -> With]
    OBVIOUS
  <2>2. f \in Injection(Without, With)
    BY <1>4, <2>1 DEF Injection, IsInjective
  <2>3. f \in Surjection(Without, With)
    BY <2>1 DEF Surjection
  <2> QED
    BY <2>2, <2>3 DEF Bijection
<1>6. IsFiniteSet(With) /\ Cardinality(With) = Cardinality(Without)
  BY <1>2, <1>5, FS_Bijection DEF ExistsBijection
<1>7. SUBSET (1..(k + 1)) = Without \cup With
  <2>1. ASSUME NEW T \in SUBSET (1..(k + 1)), k + 1 \in T
        PROVE  T \in With
    <3>1. T = (T \ {k + 1}) \cup {k + 1}
      BY <2>1
    <3>2. T \ {k + 1} \in Without
      OBVIOUS
    <3> QED
      BY <3>1, <3>2
  <2>2. ASSUME NEW T \in SUBSET (1..(k + 1)), k + 1 \notin T
        PROVE  T \in Without
    BY <2>2
  <2>3. \A T \in Without \cup With : T \in SUBSET (1..(k + 1))
    OBVIOUS
  <2> HIDE DEF Without, With
  <2> QED
    BY <2>1, <2>2, <2>3
<1>8. Without \cap With = {}
  OBVIOUS
<1>9. Cardinality(Without) \in Nat
  BY <1>2, FS_CardinalityType
<1> HIDE DEF With, Without
<1>10. Cardinality(Without \cup With) = Cardinality(Without) + Cardinality(With)
  <2>1. IsFiniteSet({}) /\ Cardinality({}) = 0
    BY FS_EmptySet
  <2> QED
    BY <1>2, <1>6, <1>8, <1>9, <2>1, FS_Union
<1>11. 2^(k + 1) = 2^k + 2^k
  BY <1>2, <1>3, <1>6, <1>7, <1>10
<1>12. 2^k \in Nat
  BY <1>2, <1>9
<1> QED
  BY <1>11, <1>12

\* The recursion of Delays has a solution: it says what each delay is.
LEMMA DelaysDefined ==
    ASSUME NEW last \in Nat, NEW base, NEW max
    PROVE  LET d == Delays(last, base, max)
           IN  d = [j \in 0..last |->
                       IF j = 0 THEN base
                       ELSE IF d[j - 1] >= max THEN max ELSE Wrap(2 * d[j - 1])]
<1> DEFINE Double(x) == IF x >= max THEN max ELSE Wrap(2 * x)
           Solves(f, k) == f = [j \in 0..k |-> IF j = 0 THEN base ELSE Double(f[j - 1])]
           Unsolved == {k \in Nat : ~\E f : Solves(f, k)}
<1>1. Unsolved = {}
  <2> HIDE DEF Double
  <2> SUFFICES ASSUME Unsolved # {} PROVE FALSE
    OBVIOUS
  <2>1. PICK k \in Unsolved : \A i \in Unsolved : k <= i
    BY LeastNatural
  <2>2. CASE k = 0
    <3>1. Solves([j \in 0..0 |-> base], 0)
      OBVIOUS
    <3> QED
      BY <2>1, <2>2, <3>1
  <2>3. CASE k # 0
    <3>1. k \in Nat
      BY <2>1
    <3>2. k - 1 \notin Unsolved
      <4> HIDE DEF Unsolved
      <4> QED
        BY <2>1, <3>1
    <3>3. PICK g : Solves(g, k - 1)
      BY <2>3, <3>1, <3>2
    <3> DEFINE f == [j \in 0..k |-> IF j < k THEN g[j] ELSE Double(g[k - 1])]
    <3>4. ASSUME NEW j \in 0..k
          PROVE  f[j] = IF j = 0 THEN base ELSE Double(f[j - 1])
      BY <2>3, <3>1, <3>3
    <3>5. Solves(f, k)
      BY <3>4
    <3> QED
      BY <2>1, <3>5
  <2> QED
    BY <2>2, <2>3
<1>2. \E f : Solves(f, last)
  BY <1>1
<1> QED
  BY <1>2 DEF Delays

\* A delay below the range of a Duration's halves is doubled exactly.
LEMMA WrapFits ==
    ASSUME NEW x \in Nat, x < 2^(Width - 1)
    PROVE  Wrap(x) = x
<1>1. Width - 1 \in Nat /\ Width = (Width - 1) + 1
  BY TransferAssumption
<1> DEFINE half == 2^(Width - 1)
<1>2. half \in Nat /\ 2^Width = 2 * half
  BY <1>1, PowerDoubles
<1> HIDE DEF half
<1>3. (x + half) % (2 * half) = x + half
  <2>1. x < half
    BY DEF half
  <2>2. 0 <= x + half /\ x + half < 2 * half
    BY <1>2, <2>1
  <2> QED
    BY <1>2, <2>2
<1> QED
  BY <1>2, <1>3 DEF Wrap, half

\* Backoff returns the smaller of base * 2^i and max.
LEMMA BackoffCaps ==
    ASSUME NEW i \in Nat, NEW base \in Nat, NEW max \in Nat, max <= 2^(Width - 2)
    PROVE  Backoff(i, base, max) = Capped(i, base, max) /\ Backoff(i, base, max) \in Nat
<1> DEFINE d == Delays(i, base, max)
           Good(j) == /\ d[j] \in Nat
                      /\ IF d[j] < max THEN d[j] = base * 2^j ELSE base * 2^j >= max
           Bad == {j \in 0..i : ~Good(j)}
<1>1. \A j \in 0..i :
        d[j] = IF j = 0 THEN base ELSE IF d[j - 1] >= max THEN max ELSE Wrap(2 * d[j - 1])
  BY DelaysDefined
<1>2. \A x \in Nat : x < max => Wrap(2 * x) = 2 * x
  <2>1. Width - 2 \in Nat /\ Width - 1 = (Width - 2) + 1
    BY TransferAssumption
  <2>2. 2^(Width - 2) \in Nat /\ 2^(Width - 1) = 2 * 2^(Width - 2)
    BY <2>1, PowerDoubles
  <2>3. \A x \in Nat : x < max => 2 * x \in Nat /\ 2 * x < 2^(Width - 1)
    BY <2>2
  <2> QED
    BY <2>3, WrapFits
<1> HIDE DEF d
<1>3. Good(0)
  BY <1>1
<1>4. ASSUME NEW j \in 1..i, Good(j - 1)
      PROVE  Good(j)
  <2> DEFINE pow == 2^(j - 1)
  <2>1. pow \in Nat /\ 2^j = 2 * pow
    <3>1. j - 1 \in Nat /\ j = (j - 1) + 1
      OBVIOUS
    <3> QED
      BY <3>1, PowerDoubles
  <2>2. base * 2^j = 2 * (base * pow) /\ base * pow \in Nat
    BY <2>1
  <2> HIDE DEF pow
  <2>3. d[j] = IF d[j - 1] >= max THEN max ELSE 2 * d[j - 1]
    BY <1>1, <1>2, <1>4
  <2>4. d[j - 1] \in Nat /\ IF d[j - 1] < max THEN d[j - 1] = base * pow ELSE base * pow >= max
    BY <1>4 DEF pow
  <2> QED
    BY <2>2, <2>3, <2>4
<1>5. Bad = {}
  <2> SUFFICES ASSUME Bad # {} PROVE FALSE
    OBVIOUS
  <2> HIDE DEF Good
  <2>1. Bad \subseteq Nat
    OBVIOUS
  <2>2. \A k \in 0..i : k \notin Bad => Good(k)
    OBVIOUS
  <2>3. \A k \in Bad : k \in 0..i /\ ~Good(k)
    OBVIOUS
  <2> HIDE DEF Bad
  <2>4. PICK j \in Bad : \A k \in Bad : j <= k
    BY <2>1, LeastNatural
  <2>5. j \in 0..i /\ ~Good(j)
    BY <2>3
  <2>6. j # 0
    BY <1>3, <2>5
  <2>7. j - 1 \in 0..i /\ j \in 1..i
    BY <2>5, <2>6
  <2>8. Good(j - 1)
    BY <2>2, <2>4, <2>5, <2>7
  <2> QED
    BY <1>4, <2>5, <2>7, <2>8
<1>6. Good(i)
  BY <1>5
<1>7. 2^i \in Nat
  BY PowerDoubles
<1> HIDE DEF Bad
<1>8. Backoff(i, base, max) = IF d[i] > max THEN max ELSE d[i]
  BY DEF Backoff, d
<1> QED
  BY <1>6, <1>7, <1>8 DEF Capped

-----------------------------------------------------------------------------
(* The parts of a file.                                                    *)

LEMMA DocIsSeq ==
    ASSUME NEW k \in Nat
    PROVE  /\ Doc(k) \in Seq(1..k) /\ Len(Doc(k)) = k
           /\ Append(Doc(k), k + 1) = Doc(k + 1)
           /\ Doc(k) = <<>> <=> k = 0
<1>1. Doc(k) \in Seq(1..k) /\ Len(Doc(k)) = k
  BY DEF Doc
<1>2. Append(Doc(k), k + 1) = Doc(k + 1)
  BY DEF Doc
<1>3. Doc(k) = <<>> <=> k = 0
  BY <1>1
<1> QED
  BY <1>1, <1>2, <1>3

LEMMA DocBeforeStart == Doc(0 - 1) = <<>>
BY DEF Doc

\* An upload of one part more than Telegram has, and what it posts, are
\* sequences of parts of the file.
LEMMA DocTypes ==
    ASSUME NEW size \in Nat
    PROVE  /\ \A k \in 0..size : Doc(k) \in Seq(1..size)
           /\ \A k \in 0..size : Doc(k - 1) \in Seq(1..size)
<1>1. \A k \in 0..size : Doc(k) \in Seq(1..size)
  <2> TAKE k \in 0..size
  <2>1. Doc(k) \in [1..k -> 1..size]
    BY DEF Doc
  <2> QED
    BY <2>1
<1>2. \A k \in 0..size : k # 0 => k - 1 \in 0..size
  OBVIOUS
<1>3. Doc(0 - 1) \in Seq(1..size)
  <2>1. <<>> \in Seq(1..size)
    OBVIOUS
  <2> QED
    BY <2>1, DocBeforeStart, Zenon
<1> QED
  BY <1>1, <1>2, <1>3

-----------------------------------------------------------------------------
(* Inv is inductive.                                                       *)

LEMMA InitInv == Init => Inv
<1> SUFFICES ASSUME Init PROVE Inv
  OBVIOUS
<1> USE TransferAssumption DEF Init
<1> DEFINE S == 1..job.size
<1>1. TypeOK
  <2>1. job.kind \in {"upload", "download"} /\ job.size \in 0..MaxSize
    OBVIOUS
  <2>2. body \in Seq(S) /\ posted \in Seq(Seq(S)) /\ out \in Seq(S)
    OBVIOUS
  <2>3. 0 \in 0..job.size /\ 0 \in 0..FloodRetries /\ 0 \in 0..MaxAttempts - 1
    BY <2>1
  <2>4. err \in Errors
    BY DEF Errors
  <2>5. report \in [done : 0..job.size, final : BOOLEAN]
    BY <2>3
  <2>6. pc \in {"attempt", "rpc"} /\ call \in {"none", "fetch"}
    OBVIOUS
  <2>7. finalSent \in BOOLEAN /\ wrote \in BOOLEAN
    BY Zenon
  <2>8. late \in Nat
    OBVIOUS
  <2> HIDE DEF S, Init
  <2>9. QED
    BY <2>2, <2>3, <2>4, <2>5, <2>6, <2>7, <2>8 DEF TypeOK, S, Init
<1>2. CallInv
  BY DEF CallInv
<1>3. RetryInv
  BY DEF RetryInv, Attempts
<1>4. DelayInv
  BY DEF DelayInv
<1>5. UploadInv /\ DownloadInv /\ ProgressInv
  <2>1. Doc(0) = <<>>
    BY DocIsSeq
  <2> QED
    BY <2>1 DEF UploadInv, DownloadInv, ProgressInv, Accepted
<1>6. LateInv
  BY DEF LateInv
<1> QED
  BY <1>1, <1>2, <1>3, <1>4, <1>5, <1>6 DEF Inv, StageInv

\* What a step that fails with e leaves behind: the transfer returns e, or waits
\* for an attempt that it still has.
FailsWith(e) ==
    /\ call' = "none" /\ err' = e
    /\ pc' \in {"backoff", "returned"}
    /\ attempt' \in 0..MaxAttempts - 1 /\ attempt' < Attempts
    /\ attempt' = 0 => attempt = 0
    /\ wait' \in Int
    /\ pc' = "backoff" =>
          /\ attempt' > 0
          /\ wait' = IF e.what = "flood" THEN e.secs ELSE Capped(attempt' - 1, Base, Max)

LEMMA AttemptsInRange == Attempts \in 1..MaxAttempts
BY TransferAssumption DEF Attempts

LEMMA FloodSecs ==
    ASSUME NEW e \in Errors, e.what = "flood"
    PROVE  e.secs \in Nat
<1>1. PICK s \in FloodWaits : e = Flood(s)
  BY DEF Errors, NoError, Fault, Canceled, Mismatch
<1>2. e.secs = s
  BY <1>1 DEF Flood
<1> QED
  BY <1>2, TransferAssumption

LEMMA AttemptFails ==
    ASSUME TypeOK, RetryInv, NEW e \in Errors, AttemptFailed(e)
    PROVE  FailsWith(e)
<1> USE TransferAssumption, AttemptsInRange DEF TypeOK, RetryInv
<1>1. CASE attempt = Attempts - 1 /\ Return(e) /\ UNCHANGED <<attempt, wait>>
  BY <1>1 DEF Return, Goto, FailsWith
<1>2. CASE /\ attempt < Attempts - 1
           /\ Goto("backoff") /\ err' = e /\ call' = "none" /\ attempt' = attempt + 1
           /\ wait' = IF e.what = "flood" THEN e.secs ELSE Backoff(attempt, Base, Max)
  <2>1. /\ Backoff(attempt, Base, Max) = Capped(attempt, Base, Max)
        /\ Backoff(attempt, Base, Max) \in Nat
    BY BackoffCaps
  <2>2. e.what = "flood" => e.secs \in Nat
    BY FloodSecs, Zenon
  <2>3. attempt' - 1 = attempt /\ attempt' \in 0..MaxAttempts - 1 /\ attempt' < Attempts
    BY <1>2
  <2> QED
    BY <1>2, <2>1, <2>2, <2>3 DEF Goto, FailsWith
<1> QED
  BY <1>1, <1>2 DEF AttemptFailed

\* gotd will ask for a part again that failed with e.
PartRefused(e) ==
    /\ call = "part" /\ pc' = "partWait" /\ err' = e
    /\ UNCHANGED <<call, attempt, wait>>

LEMMA CallFails ==
    ASSUME TypeOK, RetryInv, NEW e \in Errors, CallFailed(e)
    PROVE  \/ FailsWith(e) /\ (call # "part" => pc' = "returned")
           \/ PartRefused(e)
<1>1. CASE call = "part" /\ AttemptFailed(e)
  BY <1>1, AttemptFails
<1>2. CASE call = "part" /\ Goto("partWait") /\ err' = e /\ UNCHANGED <<call, attempt, wait>>
  BY <1>2 DEF Goto, PartRefused
<1>3. CASE call # "part" /\ Return(e) /\ UNCHANGED <<attempt, wait>>
  BY <1>3 DEF TypeOK, RetryInv, Return, Goto, FailsWith
<1> QED
  BY <1>1, <1>2, <1>3 DEF CallFailed, PartFailed

LEMMA AppendInSeq ==
    ASSUME NEW S, NEW STATE s, s \in Seq(S), NEW STATE x, x \in S
    PROVE  Append(s, x) \in Seq(S)
OBVIOUS

LEMMA AppendLengthens ==
    ASSUME NEW S, NEW STATE s, s \in Seq(S), NEW STATE x
    PROVE  Len(Append(s, x)) = Len(s) + 1 /\ Append(s, x) # <<>>
<1>1. Len(s) \in Nat /\ Len(<<>>) = 0
  OBVIOUS
<1>2. Len(Append(s, x)) = Len(s) + 1
  OBVIOUS
<1> QED
  BY <1>1, <1>2

\* A report of a part, and the final report of an attempt that sent none yet.
LEMMA EmitPart ==
    ASSUME TypeOK, NEW STATE parts, parts \in 0..job.size, Emit(parts, FALSE)
    PROVE  /\ finalSent' = finalSent
           /\ report' = [done |-> parts, final |-> FALSE]
<1>1. finalSent' = (finalSent \/ FALSE) /\ report' = [done |-> parts, final |-> FALSE]
  BY Zenon DEF Emit
<1> QED
  BY <1>1, Zenon DEF TypeOK

LEMMA EmitFinal ==
    ASSUME TypeOK, ~finalSent, Emit(done, TRUE)
    PROVE  finalSent' = TRUE /\ report' = [done |-> job.size, final |-> TRUE]
<1>1. /\ finalSent' = (finalSent \/ TRUE)
      /\ report' = [done |-> IF done < job.size THEN job.size ELSE done, final |-> TRUE]
  BY Zenon DEF Emit
<1>2. job.size \in Nat /\ done \in 0..job.size
  BY TransferAssumption DEF TypeOK
<1>3. (IF done < job.size THEN job.size ELSE done) = job.size
  BY <1>2
<1> QED
  BY <1>1, <1>3, Zenon

\* A step that fails with e leaves the invariant as it was, also if Telegram has
\* posted the document nevertheless.
LEMMA InvFails ==
    ASSUME StageInv,
           NEW e \in Errors \ {NoError},
           FailsWith(e),
           pc # "returned",
           call = "send" => pc' = "returned",
           UNCHANGED <<job, ctx, pos, body, out, n, progressVars, response>>,
           late' \in Nat,
           tries' \in 0..FloodRetries,
           MayHavePosted,
           wrote' \in {wrote, TRUE}
    PROVE  StageInv'
<1> USE TransferAssumption
    DEF FailsWith, MayHavePosted, progressVars, StageInv, TypeOK
<1>1. TypeOK'
  <2>1. wrote' \in BOOLEAN
    BY Zenon
  <2>2. posted' \in Seq(Seq(1..job.size))
    <3>1. posted \in Seq(Seq(1..job.size)) /\ body \in Seq(1..job.size)
      OBVIOUS
    <3>2. posted' = posted \/ posted' = Append(posted, body)
      OBVIOUS
    <3>3. Append(posted, body) \in Seq(Seq(1..job.size))
      BY <3>1, AppendInSeq
    <3> QED
      BY <3>1, <3>2, <3>3, Zenon
  <2> QED
    BY <2>1, <2>2
<1>2. CallInv'
  BY DEF CallInv
<1>3. RetryInv'
  BY DEF CallInv, RetryInv, Attempts
<1>4. DelayInv'
  BY DEF RetryInv, DelayInv
<1>5. UploadInv'
  <2>1. CASE UNCHANGED posted
    BY <2>1 DEF CallInv, UploadInv, Accepted
  <2>2. CASE call = "send" /\ posted' = Append(posted, body)
    <3>1. job.kind = "upload" => posted = <<>> /\ body = Doc(job.size)
      BY <2>2 DEF UploadInv
    <3>2. job.kind = "upload" => posted' = <<Doc(job.size)>>
      BY <2>2, <3>1
    <3>3. ~Accepted'
      BY DEF Accepted
    <3> QED
      BY <2>2, <3>2, <3>3 DEF CallInv, UploadInv
  <2> QED
    BY <2>1, <2>2
<1>6. DownloadInv'
  BY DEF CallInv, DownloadInv, Accepted
<1>7. ProgressInv'
  BY DEF CallInv, ProgressInv, Accepted
<1> QED
  BY <1>1, <1>2, <1>3, <1>4, <1>5, <1>6, <1>7

\* The client disconnects.
LEMMA InvCancel ==
    ASSUME StageInv,
           Cancel
    PROVE  StageInv'
<1> USE TransferAssumption
    DEF Cancel, retryVars, streamVars, progressVars, StageInv, TypeOK
<1>1. TypeOK'
  OBVIOUS
<1>2. CallInv'
  BY DEF CallInv
<1>3. RetryInv'
  BY DEF CallInv, RetryInv, Attempts
<1>4. DelayInv'
  BY DEF RetryInv, DelayInv
<1>5. UploadInv'
  BY DEF CallInv, UploadInv, Accepted
<1>6. DownloadInv'
  BY DEF CallInv, DownloadInv, Accepted
<1>7. ProgressInv'
  BY DEF CallInv, ProgressInv, Accepted
<1> QED
  BY <1>1, <1>2, <1>3, <1>4, <1>5, <1>6, <1>7

\* The wait of Do ends: its reader can be rewound.
LEMMA InvBackoffTimer ==
    ASSUME StageInv,
           pc = "backoff",
           pc' = "attempt",
           UNCHANGED <<job, ctx, call, tries, retryVars, streamVars, progressVars, response>>,
           late' \in Nat
    PROVE  StageInv'
<1> USE TransferAssumption
    DEF retryVars, streamVars, progressVars, StageInv, TypeOK
<1>1. TypeOK'
  OBVIOUS
<1>2. CallInv'
  BY DEF CallInv
<1>3. RetryInv'
  BY DEF CallInv, RetryInv, Attempts
<1>4. DelayInv'
  BY DEF RetryInv, DelayInv
<1>5. UploadInv'
  BY DEF CallInv, UploadInv, Accepted
<1>6. DownloadInv'
  BY DEF CallInv, DownloadInv, Accepted
<1>7. ProgressInv'
  BY DEF CallInv, ProgressInv, Accepted
<1> QED
  BY <1>1, <1>2, <1>3, <1>4, <1>5, <1>6, <1>7

\* The message that carries the document has been fetched.
LEMMA InvFetched ==
    ASSUME StageInv,
           pc = "inFlight",
           call = "fetch",
           pc' = "attempt",
           call' = "none",
           UNCHANGED <<job, ctx, tries, retryVars, streamVars, progressVars, response>>,
           late' \in Nat
    PROVE  StageInv'
<1> USE TransferAssumption
    DEF retryVars, streamVars, progressVars, StageInv, TypeOK
<1>1. TypeOK'
  OBVIOUS
<1>2. CallInv'
  BY DEF CallInv
<1>3. RetryInv'
  BY DEF CallInv, RetryInv, Attempts
<1>4. DelayInv'
  BY DEF RetryInv, DelayInv
<1>5. UploadInv'
  BY DEF CallInv, UploadInv, Accepted
<1>6. DownloadInv'
  BY DEF CallInv, DownloadInv, Accepted
<1>7. ProgressInv'
  BY DEF CallInv, ProgressInv, Accepted
<1> QED
  BY <1>1, <1>2, <1>3, <1>4, <1>5, <1>6, <1>7

\* A part of a document has been fetched.
LEMMA InvPartFetched ==
    ASSUME StageInv,
           pc = "inFlight",
           call = "part",
           job.kind = "download",
           pc' = "write",
           call' = "none",
           UNCHANGED <<job, ctx, tries, attempt, wait, err, pos, body, posted, out, n,
                       wrote, done, finalSent, report, response>>,
           late' \in Nat
    PROVE  StageInv'
<1> USE TransferAssumption
    DEF StageInv, TypeOK
<1>1. TypeOK'
  OBVIOUS
<1>2. CallInv'
  BY DEF CallInv
<1>3. RetryInv'
  BY DEF CallInv, RetryInv, Attempts
<1>4. DelayInv'
  BY DEF RetryInv, DelayInv
<1>5. UploadInv'
  BY DEF CallInv, UploadInv, Accepted
<1>6. DownloadInv'
  BY DEF CallInv, DownloadInv, Accepted
<1>7. ProgressInv'
  BY DEF CallInv, ProgressInv, Accepted
<1> QED
  BY <1>1, <1>2, <1>3, <1>4, <1>5, <1>6, <1>7

\* A part of an upload has been stored.
LEMMA InvPartStored ==
    ASSUME StageInv,
           pc = "inFlight",
           call = "part",
           job.kind = "upload",
           pc' = "stream",
           call' = "none",
           body' = Append(body, pos),
           UNCHANGED <<job, ctx, tries, attempt, wait, err, pos, posted, out, n, wrote,
                       done, finalSent, report, response>>,
           late' \in Nat
    PROVE  StageInv'
<1> USE TransferAssumption
    DEF StageInv, TypeOK
<1>1. TypeOK'
  <2>1. job.size \in Nat /\ pos \in 1..job.size
    BY DEF UploadInv
  <2>2. body' \in Seq(1..job.size)
    BY <2>1, AppendInSeq
  <2> QED
    BY <2>2
<1>2. CallInv'
  BY DEF CallInv
<1>3. RetryInv'
  BY DEF CallInv, RetryInv, Attempts
<1>4. DelayInv'
  BY DEF RetryInv, DelayInv
<1>5. UploadInv'
  <2>1. pos - 1 \in Nat /\ (pos - 1) + 1 = pos /\ body = Doc(pos - 1)
    BY DEF UploadInv
  <2>2. body' = Doc(pos)
    BY <2>1, DocIsSeq
  <2> QED
    BY <2>2 DEF CallInv, UploadInv, Accepted
<1>6. DownloadInv'
  BY DEF CallInv, DownloadInv, Accepted
<1>7. ProgressInv'
  BY DEF CallInv, ProgressInv, Accepted
<1> QED
  BY <1>1, <1>2, <1>3, <1>4, <1>5, <1>6, <1>7

\* The document of an upload has been posted.
LEMMA InvPosted ==
    ASSUME StageInv,
           pc = "inFlight",
           call = "send",
           posted' = Append(posted, body),
           Return(NoError),
           UNCHANGED <<job, ctx, tries, attempt, wait, pos, body, out, n, wrote, done,
                       finalSent, report, response>>,
           late' \in Nat
    PROVE  StageInv'
<1> USE TransferAssumption
    DEF Return, Goto, StageInv, TypeOK
<1>1. TypeOK'
  <2>1. posted \in Seq(Seq(1..job.size)) /\ body \in Seq(1..job.size)
    OBVIOUS
  <2>2. posted' \in Seq(Seq(1..job.size))
    BY <2>1, AppendInSeq
  <2>3. err' \in Errors
    BY DEF Errors
  <2> QED
    BY <2>2, <2>3
<1>2. CallInv'
  BY DEF CallInv
<1>3. RetryInv'
  BY DEF CallInv, RetryInv, Attempts
<1>4. DelayInv'
  BY DEF RetryInv, DelayInv
<1>5. UploadInv'
  <2>1. job.kind = "upload" => posted' = <<Doc(job.size)>>
    <3>1. job.kind = "upload" => posted = <<>> /\ body = Doc(job.size)
      BY DEF UploadInv
    <3> QED
      BY <3>1
  <2>2. <<Doc(job.size)>> # <<>>
    OBVIOUS
  <2> QED
    BY <2>1, <2>2 DEF CallInv, UploadInv, Accepted
<1>6. DownloadInv'
  BY DEF CallInv, DownloadInv, Accepted
<1>7. ProgressInv'
  BY DEF CallInv, ProgressInv, Accepted
<1> QED
  BY <1>1, <1>2, <1>3, <1>4, <1>5, <1>6, <1>7

\* The middleware waits out a FLOOD_WAIT, and calls again.
LEMMA InvFlooded ==
    ASSUME StageInv,
           NEW secs \in FloodWaits,
           pc = "inFlight",
           pc' = "floodWait",
           tries' \in 0..FloodRetries,
           wait' = secs + 1,
           err' = Flood(secs),
           UNCHANGED <<job, ctx, call, attempt, pos, body, posted, out, n, wrote, done,
                       finalSent, report, response>>,
           late' \in Nat
    PROVE  StageInv'
<1> USE TransferAssumption
    DEF StageInv, TypeOK
<1>1. TypeOK'
  <2>1. secs \in Nat
    OBVIOUS
  <2>2. err' \in Errors
    BY DEF Errors
  <2>3. wait' \in Int
    BY <2>1
  <2> QED
    BY <2>2, <2>3
<1>2. CallInv'
  BY DEF CallInv
<1>3. RetryInv'
  BY DEF CallInv, RetryInv, Attempts
<1>4. DelayInv'
  BY DEF RetryInv, DelayInv
<1>5. UploadInv'
  BY DEF CallInv, UploadInv, Accepted
<1>6. DownloadInv'
  BY DEF CallInv, DownloadInv, Accepted
<1>7. ProgressInv'
  BY DEF CallInv, ProgressInv, Accepted
<1> QED
  BY <1>1, <1>2, <1>3, <1>4, <1>5, <1>6, <1>7

\* gotd will ask for a part again.
LEMMA InvPartRefused ==
    ASSUME StageInv,
           NEW e \in Errors \ {NoError},
           PartRefused(e),
           UNCHANGED <<job, ctx, pos, body, posted, out, n, wrote, progressVars, response>>,
           late' \in Nat,
           tries' \in 0..FloodRetries
    PROVE  StageInv'
<1> USE TransferAssumption
    DEF PartRefused, progressVars, StageInv, TypeOK
<1>1. TypeOK'
  OBVIOUS
<1>2. CallInv'
  BY DEF CallInv
<1>3. RetryInv'
  BY DEF CallInv, RetryInv, Attempts
<1>4. DelayInv'
  BY DEF RetryInv, DelayInv
<1>5. UploadInv'
  BY DEF CallInv, UploadInv, Accepted
<1>6. DownloadInv'
  BY DEF CallInv, DownloadInv, Accepted
<1>7. ProgressInv'
  BY DEF CallInv, ProgressInv, Accepted
<1> QED
  BY <1>1, <1>2, <1>3, <1>4, <1>5, <1>6, <1>7

\* A check of the context is passed, or a wait below Do ends.
Moves == {<<"rpc", "inFlight">>, <<"stream", "read">>, <<"write", "writing">>,
          <<"floodWait", "rpc">>, <<"partWait", "rpc">>}

LEMMA InvMoves ==
    ASSUME StageInv,
           <<pc, pc'>> \in Moves,
           pc' = "read" => job.kind = "upload",
           tries' \in 0..FloodRetries,
           UNCHANGED <<job, ctx, call, attempt, wait, err, pos, body, posted, out, n,
                       wrote, done, finalSent, report, response>>,
           late' \in Nat
    PROVE  StageInv'
<1> USE TransferAssumption
    DEF Moves, StageInv, TypeOK
<1>1. TypeOK'
  OBVIOUS
<1>2. CallInv'
  BY DEF CallInv
<1>3. RetryInv'
  BY DEF CallInv, RetryInv, Attempts
<1>4. DelayInv'
  BY DEF RetryInv, DelayInv
<1>5. UploadInv'
  BY DEF CallInv, UploadInv, Accepted
<1>6. DownloadInv'
  BY DEF CallInv, DownloadInv, Accepted
<1>7. ProgressInv'
  BY DEF CallInv, ProgressInv, Accepted
<1> QED
  BY <1>1, <1>2, <1>3, <1>4, <1>5, <1>6, <1>7

\* An attempt starts, with its reader at the start of the file.
LEMMA InvRewound ==
    ASSUME StageInv,
           pc = "attempt",
           pc' = "stream",
           Rewound,
           ResetProgress,
           body' = <<>>,
           UNCHANGED <<job, ctx, call, tries, attempt, wait, err, posted, out, n, wrote,
                       report, response>>,
           late' \in Nat
    PROVE  StageInv'
<1> USE TransferAssumption
    DEF Rewound, ResetProgress, StageInv, TypeOK
<1>1. TypeOK'
  <2>1. 0 \in 0..job.size /\ pos' \in 0..job.size
    OBVIOUS
  <2>2. finalSent' \in BOOLEAN
    BY Zenon
  <2>3. body' \in Seq(1..job.size)
    OBVIOUS
  <2> QED
    BY <2>1, <2>2, <2>3
<1>2. CallInv'
  BY DEF CallInv
<1>3. RetryInv'
  BY DEF CallInv, RetryInv, Attempts
<1>4. DelayInv'
  BY DEF RetryInv, DelayInv
<1>5. UploadInv'
  <2>1. pos' = 0
    BY DEF RetryInv, Attempts
  <2>2. body' = Doc(0)
    BY DocIsSeq
  <2> QED
    BY <2>1, <2>2 DEF CallInv, UploadInv, Accepted
<1>6. DownloadInv'
  <2>1. Len(out) = 0 => out = Doc(0)
    BY DocIsSeq
  <2>2. job.kind = "download" => pos' = 0 /\ (attempt = 0 => Len(out) = 0)
    BY DEF RetryInv, DownloadInv
  <2>3. Len(out) \in Nat
    OBVIOUS
  <2> QED
    BY <2>1, <2>2, <2>3 DEF CallInv, DownloadInv, Accepted
<1>7. ProgressInv'
  <2>1. pos' = 0
    BY DEF RetryInv, Attempts
  <2> QED
    BY <2>1 DEF CallInv, ProgressInv, Accepted
<1> QED
  BY <1>1, <1>2, <1>3, <1>4, <1>5, <1>6, <1>7

\* A part of an upload is read.
LEMMA InvPartRead ==
    ASSUME StageInv,
           pc = "read",
           job.kind = "upload",
           pos < job.size,
           pos' = pos + 1,
           done' = done + 1,
           Emit(done + 1, FALSE),
           StartCall("part"),
           UNCHANGED <<job, ctx, attempt, wait, err, body, posted, out, n, wrote, response>>,
           late' \in Nat
    PROVE  StageInv'
<1> USE TransferAssumption
    DEF StartCall, Goto, StageInv, TypeOK
<1>1. TypeOK'
  <2>1. pos + 1 \in 0..job.size /\ done + 1 \in 0..job.size
    BY DEF ProgressInv, DownloadInv
  <2>2. finalSent' = finalSent /\ report' = [done |-> done + 1, final |-> FALSE]
    BY <2>1, EmitPart
  <2> QED
    BY <2>1, <2>2
<1>2. CallInv'
  BY DEF CallInv
<1>3. RetryInv'
  BY DEF CallInv, RetryInv, Attempts
<1>4. DelayInv'
  BY DEF RetryInv, DelayInv
<1>5. UploadInv'
  BY DEF CallInv, UploadInv, Accepted
<1>6. DownloadInv'
  BY DEF CallInv, DownloadInv, Accepted
<1>7. ProgressInv'
  <2>1. done + 1 \in 0..job.size
    BY DEF ProgressInv
  <2>2. finalSent' = finalSent
    BY <2>1, EmitPart
  <2> QED
    BY <2>2 DEF CallInv, ProgressInv, Accepted
<1> QED
  BY <1>1, <1>2, <1>3, <1>4, <1>5, <1>6, <1>7

\* The reader of an upload is at the end of the file.
LEMMA InvEndRead ==
    ASSUME StageInv,
           pc = "read",
           job.kind = "upload",
           pos = job.size,
           Emit(done, TRUE),
           StartCall("send"),
           UNCHANGED <<job, ctx, attempt, wait, err, pos, body, posted, out, n, wrote,
                       done, response>>,
           late' \in Nat
    PROVE  StageInv'
<1> USE TransferAssumption
    DEF StartCall, Goto, StageInv, TypeOK
<1>1. TypeOK'
  <2>1. finalSent' = TRUE /\ report' = [done |-> job.size, final |-> TRUE]
    BY EmitFinal DEF CallInv, ProgressInv
  <2>2. finalSent' \in BOOLEAN
    BY <2>1
  <2> QED
    BY <2>1, <2>2
<1>2. CallInv'
  BY DEF CallInv
<1>3. RetryInv'
  BY DEF CallInv, RetryInv, Attempts
<1>4. DelayInv'
  BY DEF RetryInv, DelayInv
<1>5. UploadInv'
  BY DEF CallInv, UploadInv, Accepted
<1>6. DownloadInv'
  BY DEF CallInv, DownloadInv, Accepted
<1>7. ProgressInv'
  <2>1. finalSent' = TRUE /\ report' = [done |-> job.size, final |-> TRUE]
    BY EmitFinal DEF CallInv, ProgressInv
  <2> QED
    BY <2>1 DEF CallInv, ProgressInv, Accepted
<1> QED
  BY <1>1, <1>2, <1>3, <1>4, <1>5, <1>6, <1>7

\* The downloader asks for a part, or takes the document to be complete.
LEMMA InvNextPart ==
    ASSUME StageInv,
           NextPart
    PROVE  StageInv'
<1> USE TransferAssumption
    DEF NextPart, StartCall, Goto, retryVars, streamVars, progressVars, StageInv, TypeOK
<1>1. TypeOK'
  OBVIOUS
<1>2. CallInv'
  BY DEF CallInv
<1>3. RetryInv'
  BY DEF CallInv, RetryInv, Attempts
<1>4. DelayInv'
  BY DEF RetryInv, DelayInv
<1>5. UploadInv'
  BY DEF CallInv, UploadInv, Accepted
<1>6. DownloadInv'
  BY DEF CallInv, DownloadInv, Accepted
<1>7. ProgressInv'
  BY DEF CallInv, ProgressInv, Accepted
<1> QED
  BY <1>1, <1>2, <1>3, <1>4, <1>5, <1>6, <1>7

\* A part of a document is written.
LEMMA InvPartWritten ==
    ASSUME StageInv,
           pc = "writing",
           out' = Append(out, pos + 1),
           n' = n + 1,
           wrote' = TRUE,
           pos' = pos + 1,
           done' = done + 1,
           Emit(done + 1, FALSE),
           pc' = "stream",
           UNCHANGED <<job, ctx, call, tries, attempt, wait, err, body, posted, response>>,
           late' \in Nat
    PROVE  StageInv'
<1> USE TransferAssumption
    DEF StageInv, TypeOK
<1>1. TypeOK'
  <2>1. pos + 1 \in 0..job.size /\ done + 1 \in 0..job.size /\ pos + 1 \in 1..job.size
    BY DEF CallInv, ProgressInv, DownloadInv
  <2>2. finalSent' = finalSent /\ report' = [done |-> done + 1, final |-> FALSE]
    BY <2>1, EmitPart
  <2>3. out' \in Seq(1..job.size)
    BY <2>1, AppendInSeq
  <2> QED
    BY <2>1, <2>2, <2>3
<1>2. CallInv'
  BY DEF CallInv
<1>3. RetryInv'
  BY DEF CallInv, RetryInv, Attempts
<1>4. DelayInv'
  BY DEF RetryInv, DelayInv
<1>5. UploadInv'
  BY DEF CallInv, UploadInv, Accepted
<1>6. DownloadInv'
  <2>1. Len(out') = Len(out) + 1 /\ out' # <<>>
    <3>1. out \in Seq(1..job.size) /\ out' = Append(out, pos + 1)
      OBVIOUS
    <3> QED
      BY <3>1, AppendLengthens
  <2>2. pos \in Nat /\ Len(out) >= pos /\ (Len(out) = pos => out = Doc(pos)) /\ n = Len(out)
    BY DEF CallInv, DownloadInv
  <2>3. Len(out) = pos => out' = Doc(pos + 1)
    BY <2>2, DocIsSeq
  <2> QED
    BY <2>1, <2>2, <2>3 DEF CallInv, DownloadInv, Accepted
<1>7. ProgressInv'
  <2>1. done + 1 \in 0..job.size
    BY DEF CallInv, DownloadInv, ProgressInv
  <2>2. finalSent' = finalSent
    BY <2>1, EmitPart
  <2> QED
    BY <2>2 DEF CallInv, ProgressInv, Accepted
<1> QED
  BY <1>1, <1>2, <1>3, <1>4, <1>5, <1>6, <1>7

\* The length of what was written is checked.
LEMMA InvVerify ==
    ASSUME StageInv,
           Verify
    PROVE  StageInv'
<1> USE TransferAssumption
    DEF Verify, Verdict, Return, Goto, retryVars, streamVars, progressVars, StageInv, TypeOK
<1>1. TypeOK'
  <2>1. finalSent' = TRUE /\ report' = [done |-> job.size, final |-> TRUE]
    BY EmitFinal DEF CallInv, ProgressInv
  <2>2. finalSent' \in BOOLEAN
    BY <2>1
  <2>3. err' \in Errors
    BY DEF Errors
  <2> QED
    BY <2>1, <2>2, <2>3
<1>2. CallInv'
  BY DEF CallInv
<1>3. RetryInv'
  BY DEF CallInv, RetryInv, Attempts
<1>4. DelayInv'
  BY DEF RetryInv, DelayInv
<1>5. UploadInv'
  BY DEF CallInv, UploadInv, Accepted
<1>6. DownloadInv'
  <2>1. err' = NoError => n = job.size
    BY DEF NoError, Mismatch
  <2>2. response = "none"
    BY DEF CallInv
  <2> QED
    BY <2>1, <2>2 DEF CallInv, DownloadInv, Accepted
<1>7. ProgressInv'
  <2>1. finalSent' = TRUE /\ report' = [done |-> job.size, final |-> TRUE]
    BY EmitFinal DEF CallInv, ProgressInv
  <2> QED
    BY <2>1 DEF CallInv, ProgressInv, Accepted
<1> QED
  BY <1>1, <1>2, <1>3, <1>4, <1>5, <1>6, <1>7

\* The handler answers a download.
LEMMA InvRespond ==
    ASSUME StageInv,
           Respond
    PROVE  StageInv'
<1> USE TransferAssumption
    DEF Respond, Status, retryVars, streamVars, progressVars, StageInv, TypeOK
<1>1. TypeOK'
  OBVIOUS
<1>2. CallInv'
  BY DEF CallInv
<1>3. RetryInv'
  BY DEF CallInv, RetryInv, Attempts
<1>4. DelayInv'
  BY DEF RetryInv, DelayInv
<1>5. UploadInv'
  BY DEF CallInv, UploadInv, Accepted
<1>6. DownloadInv'
  BY DEF CallInv, DownloadInv, Accepted
<1>7. ProgressInv'
  BY DEF CallInv, ProgressInv, Accepted
<1> QED
  BY <1>1, <1>2, <1>3, <1>4, <1>5, <1>6, <1>7

-----------------------------------------------------------------------------
(* The steps, put together.                                                *)

LEMMA ErrorsOfSteps ==
    /\ Fault \in Errors \ {NoError} /\ Canceled \in Errors \ {NoError}
    /\ \A secs \in FloodWaits : Flood(secs) \in Errors \ {NoError}
BY DEF Errors, NoError, Fault, Canceled, Flood

LEMMA CallEndsOnce ==
    ASSUME TypeOK, CallEnds
    PROVE  late' \in Nat
BY DEF TypeOK, CallEnds

\* A step that fails an RPC with e, whether or not the part is asked for again.
LEMMA InvCallFails ==
    ASSUME StageInv, NEW e \in Errors \ {NoError}, CallFailed(e), pc # "returned",
           UNCHANGED <<job, ctx, pos, body, out, n, wrote, progressVars, response>>,
           late' \in Nat, tries' \in 0..FloodRetries, MayHavePosted
    PROVE  StageInv'
<1>1. CASE FailsWith(e) /\ (call # "part" => pc' = "returned")
  <2>1. wrote' \in {wrote, TRUE} /\ (call = "send" => pc' = "returned")
    BY <1>1, Zenon
  <2> QED
    BY <1>1, <2>1, InvFails
<1>2. CASE PartRefused(e)
  <2>1. UNCHANGED posted
    BY <1>2 DEF PartRefused, MayHavePosted
  <2> QED
    BY <1>2, <2>1, InvPartRefused
<1>3. TypeOK /\ RetryInv
  BY DEF StageInv
<1> QED
  BY <1>1, <1>2, <1>3, CallFails

LEMMA InvInvoke ==
    ASSUME StageInv, Invoke
    PROVE  StageInv'
<1> USE DEF Invoke
<1>1. pc = "rpc" /\ TypeOK /\ late' \in Nat /\ tries' \in 0..FloodRetries
  BY DEF StageInv, TypeOK
<1>2. CASE Goto("inFlight") /\ UNCHANGED <<call, retryVars>>
  <2>1. <<pc, pc'>> \in Moves /\ pc' # "read"
    BY <1>1, <1>2 DEF Goto, Moves
  <2> QED
    BY <1>1, <1>2, <2>1, InvMoves DEF retryVars, streamVars, progressVars
<1>3. CASE CallFailed(Canceled)
  BY <1>1, <1>3, InvCallFails, ErrorsOfSteps DEF streamVars, MayHavePosted
<1> QED
  BY <1>2, <1>3

LEMMA InvReply ==
    ASSUME StageInv, Reply
    PROVE  StageInv'
<1> USE DEF Reply
<1>1. /\ pc = "inFlight" /\ TypeOK /\ CallInv /\ RetryInv /\ late' \in Nat
      /\ UNCHANGED <<job, ctx, pos, out, n, wrote, done, finalSent, report, response>>
  BY CallEndsOnce DEF StageInv, progressVars
<1>2. CASE Answered /\ UNCHANGED <<tries, attempt, wait>>
  <2>1. CASE /\ call = "fetch" /\ Goto("attempt") /\ call' = "none"
             /\ UNCHANGED <<body, posted, err>>
    BY <1>1, <1>2, <2>1, InvFetched DEF Goto, retryVars, streamVars, progressVars
  <2>2. CASE /\ call = "part" /\ job.kind = "download" /\ Goto("write") /\ call' = "none"
             /\ UNCHANGED <<body, posted, err>>
    BY <1>1, <1>2, <2>2, InvPartFetched DEF Goto
  <2>3. CASE /\ call = "part" /\ job.kind = "upload" /\ body' = Append(body, pos)
             /\ Goto("stream") /\ call' = "none" /\ UNCHANGED <<posted, err>>
    BY <1>1, <1>2, <2>3, InvPartStored DEF Goto
  <2>4. CASE /\ call = "send" /\ posted' = Append(posted, body) /\ Return(NoError)
             /\ UNCHANGED body
    BY <1>1, <1>2, <2>4, InvPosted
  <2> QED
    BY <1>2, <2>1, <2>2, <2>3, <2>4 DEF Answered
<1>3. ASSUME NEW e \in Errors \ {NoError}, CallFailed(e),
             MayHavePosted, UNCHANGED <<tries, body>>
      PROVE  StageInv'
  <2>1. tries' \in 0..FloodRetries /\ pc # "returned"
    BY <1>1, <1>3 DEF TypeOK
  <2>2. UNCHANGED <<job, ctx, pos, body, out, n, wrote, progressVars, response>>
    BY <1>1, <1>3 DEF progressVars
  <2> QED
    BY <1>1, <1>3, <2>1, <2>2, InvCallFails
<1>4. CASE Failed /\ UNCHANGED body
  BY <1>3, <1>4, ErrorsOfSteps DEF Failed
<1>5. ASSUME NEW secs \in FloodWaits, Flooded(secs), UNCHANGED <<body, posted>>
      PROVE  StageInv'
  <2>1. CASE /\ tries < FloodRetries /\ Goto("floodWait") /\ tries' = tries + 1
             /\ wait' = secs + 1 /\ err' = Flood(secs) /\ UNCHANGED <<call, attempt>>
    <3>1. tries' \in 0..FloodRetries
      BY <1>1, <2>1, TransferAssumption DEF TypeOK
    <3> QED
      BY <1>1, <1>5, <2>1, <3>1, InvFlooded DEF Goto
  <2>2. CASE CallFailed(Flood(secs)) /\ UNCHANGED tries
    BY <1>3, <1>5, <2>2, ErrorsOfSteps DEF MayHavePosted
  <2> QED
    BY <1>5, <2>1, <2>2 DEF Flooded
<1>6. CASE CallFailed(Canceled) /\ MayHavePosted /\ UNCHANGED <<tries, body>>
  BY <1>3, <1>6, ErrorsOfSteps
<1> QED
  BY <1>2, <1>4, <1>5, <1>6

LEMMA InvAttemptFails ==
    ASSUME StageInv, NEW e \in Errors \ {NoError}, FailsWith(e), pc # "returned",
           call # "send", late' \in Nat,
           UNCHANGED <<job, ctx, tries, pos, body, posted, out, n, progressVars, response>>,
           wrote' = wrote \/ wrote' = TRUE
    PROVE  StageInv'
<1>1. tries' \in 0..FloodRetries
  BY DEF StageInv, TypeOK
<1>2. call = "send" => pc' = "returned"
  OBVIOUS
<1>3. wrote' \in {wrote, TRUE} /\ MayHavePosted
  BY Zenon DEF MayHavePosted
<1> QED
  BY <1>1, <1>2, <1>3, InvFails

LEMMA InvStep ==
    ASSUME StageInv, Step
    PROVE  StageInv'
<1>1. TypeOK /\ CallInv /\ RetryInv
  BY DEF StageInv
<1>2. ASSUME BackoffWait PROVE StageInv'
  <2>0. late' \in Nat
    BY <1>1, <1>2 DEF BackoffWait, TypeOK
  <2>1. CASE Goto("attempt") /\ UNCHANGED <<call, err>>
    BY <1>2, <2>0, <2>1, InvBackoffTimer DEF BackoffWait, Goto, retryVars
  <2>2. CASE Return(Canceled)
    <3>1. FailsWith(Canceled)
      BY <1>1, <1>2, <2>2 DEF FailsWith, BackoffWait, Return, Goto, TypeOK, RetryInv, Attempts
    <3>2. call = "none"
      BY <1>1, <1>2 DEF CallInv, BackoffWait
    <3> QED
      BY <1>2, <2>0, <2>2, <3>1, <3>2, InvAttemptFails, ErrorsOfSteps
         DEF BackoffWait, streamVars, progressVars
  <2> QED
    BY <1>2, <2>1, <2>2 DEF BackoffWait
<1>3. ASSUME FloodWait PROVE StageInv'
  <2>0. pc = "floodWait" /\ late' \in Nat /\ tries' \in 0..FloodRetries
    BY <1>1, <1>3 DEF FloodWait, TypeOK
  <2>1. CASE Goto("rpc") /\ UNCHANGED <<call, retryVars>>
    <3>1. <<pc, pc'>> \in Moves /\ pc' # "read"
      BY <2>0, <2>1 DEF Goto, Moves
    <3> QED
      BY <1>3, <2>0, <2>1, <3>1, InvMoves DEF FloodWait, retryVars, streamVars, progressVars
  <2>2. CASE CallFailed(Canceled)
    BY <1>3, <2>0, <2>2, InvCallFails, ErrorsOfSteps DEF FloodWait, streamVars, MayHavePosted
  <2> QED
    BY <1>3, <2>1, <2>2 DEF FloodWait
<1>4. ASSUME PartWait PROVE StageInv'
  <2>0. pc = "partWait" /\ call = "part" /\ late' \in Nat
    BY <1>1, <1>4 DEF PartWait, TypeOK, CallInv
  <2>1. CASE StartCall(call) /\ UNCHANGED retryVars
    <3>1. <<pc, pc'>> \in Moves /\ pc' # "read" /\ tries' \in 0..FloodRetries /\ call' = call
      BY <2>0, <2>1, TransferAssumption DEF StartCall, Goto, Moves
    <3> QED
      BY <1>4, <2>0, <2>1, <3>1, InvMoves DEF PartWait, retryVars, streamVars, progressVars
  <2>2. CASE AttemptFailed(Canceled) /\ UNCHANGED tries
    <3>1. FailsWith(Canceled)
      BY <1>1, <2>2, AttemptFails, ErrorsOfSteps
    <3> QED
      BY <1>4, <2>0, <2>2, <3>1, InvAttemptFails, ErrorsOfSteps DEF PartWait, streamVars
  <2> QED
    BY <1>4, <2>1, <2>2 DEF PartWait
<1>5. ASSUME StartAttempt PROVE StageInv'
  <2>1. call = "none" /\ late' \in Nat
    BY <1>1, <1>5 DEF CallInv, StartAttempt, TypeOK
  <2>2. CASE /\ Rewound /\ ResetProgress /\ body' = <<>> /\ Goto("stream")
             /\ UNCHANGED <<call, retryVars>>
    BY <1>5, <2>1, <2>2, InvRewound DEF StartAttempt, Goto, retryVars
  <2>3. CASE AttemptFailed(Fault) /\ UNCHANGED <<pos, body, done, finalSent>>
    <3>1. FailsWith(Fault)
      BY <1>1, <2>3, AttemptFails, ErrorsOfSteps
    <3> QED
      BY <1>5, <2>1, <2>3, <3>1, InvAttemptFails, ErrorsOfSteps DEF StartAttempt, progressVars
  <2>4. CASE Return(Canceled) /\ UNCHANGED <<attempt, wait, pos, body, done, finalSent>>
    <3>1. FailsWith(Canceled)
      BY <1>1, <2>4, <1>5 DEF FailsWith, StartAttempt, Return, Goto, TypeOK, RetryInv, Attempts
    <3> QED
      BY <1>5, <2>1, <2>4, <3>1, InvAttemptFails, ErrorsOfSteps DEF StartAttempt, progressVars
  <2> QED
    BY <1>5, <2>2, <2>3, <2>4 DEF StartAttempt
<1>6. ASSUME Read \/ Write PROVE StageInv'
  <2>1. /\ call = "none" /\ late' \in Nat /\ tries' \in 0..FloodRetries /\ pc # "returned"
        /\ UNCHANGED <<job, ctx, tries, streamVars, progressVars, response>>
    BY <1>1, <1>6 DEF CallInv, TypeOK, Read, Write
  <2>2. CASE /\ <<pc, pc'>> \in Moves /\ (pc' = "read" => job.kind = "upload")
             /\ UNCHANGED <<call, retryVars>>
    BY <2>1, <2>2, InvMoves DEF retryVars, streamVars, progressVars
  <2>3. CASE AttemptFailed(Canceled)
    <3>1. FailsWith(Canceled)
      BY <1>1, <2>3, AttemptFails, ErrorsOfSteps
    <3> QED
      BY <2>1, <3>1, InvAttemptFails, ErrorsOfSteps DEF streamVars
  <2> QED
    BY <1>6, <2>2, <2>3 DEF Read, Write, Goto, Moves
<1>7. ASSUME ReadPart PROVE StageInv'
  <2>1. call = "none" /\ job.kind = "upload" /\ late' \in Nat
    BY <1>1, <1>7, CallEndsOnce DEF CallInv, ReadPart
  <2>2. CASE /\ pos < job.size /\ pos' = pos + 1 /\ done' = done + 1 /\ Emit(done + 1, FALSE)
             /\ StartCall("part") /\ UNCHANGED retryVars
    BY <1>7, <2>1, <2>2, InvPartRead DEF ReadPart, retryVars
  <2>3. CASE /\ pos = job.size /\ Emit(done, TRUE) /\ StartCall("send")
             /\ UNCHANGED <<retryVars, pos, done>>
    BY <1>7, <2>1, <2>3, InvEndRead DEF ReadPart, retryVars
  <2>4. CASE AttemptFailed(Fault) /\ UNCHANGED <<tries, pos, progressVars>>
    <3>1. FailsWith(Fault)
      BY <1>1, <2>4, AttemptFails, ErrorsOfSteps
    <3> QED
      BY <1>7, <2>1, <2>4, <3>1, InvAttemptFails, ErrorsOfSteps DEF ReadPart, progressVars
  <2> QED
    BY <1>7, <2>2, <2>3, <2>4 DEF ReadPart
<1>8. ASSUME WritePart PROVE StageInv'
  <2>1. call = "none" /\ late' \in Nat
    BY <1>1, <1>8, CallEndsOnce DEF CallInv, WritePart
  <2>2. CASE /\ out' = Append(out, pos + 1) /\ n' = n + 1 /\ wrote' = TRUE
             /\ pos' = pos + 1 /\ done' = done + 1 /\ Emit(done + 1, FALSE)
             /\ Goto("stream") /\ UNCHANGED <<call, retryVars>>
    BY <1>8, <2>1, <2>2, InvPartWritten DEF WritePart, retryVars, Goto
  <2>3. CASE wrote' = TRUE /\ AttemptFailed(Fault) /\ UNCHANGED <<out, n, pos, progressVars>>
    <3>1. FailsWith(Fault)
      BY <1>1, <2>3, AttemptFails, ErrorsOfSteps
    <3> QED
      BY <1>8, <2>1, <2>3, <3>1, InvAttemptFails, ErrorsOfSteps DEF WritePart, progressVars
  <2> QED
    BY <1>8, <2>2, <2>3 DEF WritePart
<1> QED
  BY <1>2, <1>3, <1>4, <1>5, <1>6, <1>7, <1>8, InvInvoke, InvReply, InvNextPart, InvVerify,
     InvRespond
     DEF Step

\* A step either looks at a live context before it goes to a call, or ends the
\* call and goes elsewhere.
LEMMA LateStep ==
    ASSUME LateInv, [Next]_vars
    PROVE  LateInv'
<1> DEFINE Calls == {"read", "inFlight", "writing"}
<1>1. CASE Reply \/ ReadPart \/ WritePart
  <2>1. pc \in Calls /\ ctx' = ctx /\ CallEnds
    BY <1>1 DEF Reply, ReadPart, WritePart
  <2>2. late = 0
    BY <2>1 DEF LateInv
  <2>3. late' = IF ctx = "done" THEN 1 ELSE 0
    BY <2>1, <2>2 DEF CallEnds
  <2>4. pc' \notin Calls
    BY <1>1 DEF Reply, Answered, Failed, Flooded, CallFailed, PartFailed, AttemptFailed, Return,
                ReadPart, StartCall, WritePart, Goto
  <2> QED
    BY <2>1, <2>3, <2>4 DEF LateInv
<1>2. CASE Invoke \/ Read \/ Write
  <2>1. UNCHANGED <<ctx, late>>
    BY <1>2 DEF Invoke, Read, Write
  <2>2. pc' \in Calls => ctx = "live"
    BY <1>2 DEF Invoke, CallFailed, PartFailed, AttemptFailed, Return, Read, Write, WriterGuard,
                Goto
  <2> QED
    BY <2>1, <2>2 DEF LateInv
<1>3. CASE BackoffWait \/ FloodWait \/ PartWait \/ StartAttempt \/ NextPart \/ Verify
  <2>1. UNCHANGED <<ctx, late>>
    BY <1>3 DEF BackoffWait, FloodWait, PartWait, StartAttempt, NextPart, Verify
  <2>2. pc' \notin Calls
    BY <1>3 DEF BackoffWait, FloodWait, PartWait, StartAttempt, NextPart, Verify, StartCall,
                CallFailed, PartFailed, AttemptFailed, Return, Goto
  <2> QED
    BY <2>1, <2>2 DEF LateInv
<1>4. CASE Respond \/ UNCHANGED vars
  BY <1>4 DEF Respond, vars, LateInv
<1>5. CASE Cancel
  BY <1>5 DEF Cancel, LateInv
<1> QED
  BY <1>1, <1>2, <1>3, <1>4, <1>5 DEF Next, Step

\* However parts, attempts and calls fail and are repeated, every layer knows
\* how far the others are.
THEOREM InvAlways == Spec => []Inv
<1>1. StageInv /\ UNCHANGED vars => StageInv'
  BY DEF vars, retryVars, streamVars, progressVars, StageInv, TypeOK, CallInv, RetryInv, Attempts,
         DelayInv, UploadInv, DownloadInv, ProgressInv, Accepted
<1>2. Inv /\ [Next]_vars => Inv'
  BY <1>1, InvStep, InvCancel, LateStep DEF Next, Inv
<1> QED
  BY <1>2, InitInv, PTL DEF Spec

-----------------------------------------------------------------------------
(* What follows from the invariant.                                        *)

\* Every variable keeps its type.
THEOREM TypeCorrect == Spec => []TypeOK
<1>1. Inv => TypeOK
  BY DEF Inv, StageInv
<1> QED
  BY <1>1, InvAlways, PTL

\* A document that an upload has posted is the file.
LEMMA PostedIsDoc ==
    ASSUME Inv
    PROVE  posted = <<>> \/ posted = <<Doc(job.size)>>
BY TransferAssumption DEF Inv, StageInv, TypeOK, UploadInv, DownloadInv

\* Whatever failed, was rewound and was retried on the way, a document that an
\* upload posts is the whole file, each part once and in order.
THEOREM PostedWhole == Spec => []PostedIsWhole
<1>1. Inv => PostedIsWhole
  BY PostedIsDoc DEF PostedIsWhole
<1> QED
  BY <1>1, InvAlways, PTL

\* An upload posts its file at most once, and has posted it when it succeeds.
THEOREM PostedOnceAlways == Spec => []PostedOnce
<1>1. ASSUME Inv PROVE PostedOnce
  <2>1. Accepted /\ job.kind = "upload" => posted # <<>>
    BY <1>1 DEF Inv, StageInv, UploadInv
  <2>2. CASE posted = <<>>
    BY <2>1, <2>2 DEF PostedOnce
  <2>3. CASE posted = <<Doc(job.size)>>
    BY <2>3 DEF PostedOnce
  <2> QED
    BY <1>1, <2>2, <2>3, PostedIsDoc
<1> QED
  BY <1>1, InvAlways, PTL

\* A download that succeeds and was not repeated wrote the whole document.
THEOREM UnrepeatedWhole == Spec => []UnrepeatedIsWhole
<1>1. ASSUME Inv PROVE UnrepeatedIsWhole
  BY <1>1, TransferAssumption DEF Inv, StageInv, TypeOK, DownloadInv, UnrepeatedIsWhole
<1> QED
  BY <1>1, InvAlways, PTL

\* The error envelope is never written behind a part of the file.
THEOREM EnvelopesAlone == Spec => []EnvelopeAlone
<1>1. ASSUME Inv, job.kind = "download" PROVE EnvelopeAlone
  BY <1>1 DEF Inv, StageInv, DownloadInv, EnvelopeAlone
<1>2. ASSUME Inv, job.kind = "upload" PROVE EnvelopeAlone
  BY <1>2 DEF Inv, StageInv, UploadInv, EnvelopeAlone
<1>3. Inv => EnvelopeAlone
  BY <1>1, <1>2, TransferAssumption DEF Inv, StageInv, TypeOK
<1> QED
  BY <1>3, InvAlways, PTL

\* Progress is that of one attempt, and ends with the whole file.
THEOREM ProgressRight == Spec => []ProgressOfOneAttempt
<1>1. ASSUME Inv PROVE ProgressOfOneAttempt
  <2>1. report.done \in 0..job.size
    BY <1>1 DEF Inv, StageInv, TypeOK
  <2>2. Accepted => report = [done |-> job.size, final |-> TRUE]
    BY <1>1 DEF Inv, StageInv, ProgressInv
  <2> QED
    BY <1>1, <2>1, <2>2, TransferAssumption DEF Inv, StageInv, TypeOK, ProgressOfOneAttempt
<1> QED
  BY <1>1, InvAlways, PTL

\* No delay overflows, whatever the width of a Duration, for any number of
\* attempts; Do waits as long as it is asked to, or base * 2^attempt up to the
\* maximum.
THEOREM DelaysCapped == Spec => []BackoffIsCapped
<1>1. NoDelayOverflows
  <2> SUFFICES ASSUME NEW i \in 0..Width + 1, NEW base \in 0..2^(Width - 1) - 1,
                      NEW max \in 0..2^(Width - 2)
               PROVE  Backoff(i, base, max) = Capped(i, base, max)
    BY DEF NoDelayOverflows
  <2>1. Width - 2 \in Nat /\ Width - 1 \in Nat
    BY TransferAssumption
  <2>2. 2^(Width - 2) \in Nat /\ 2^(Width - 1) \in Nat
    BY <2>1, PowerDoubles
  <2>3. i \in Nat /\ base \in Nat /\ max \in Nat /\ max <= 2^(Width - 2)
    BY <2>1, <2>2
  <2> QED
    BY <2>3, BackoffCaps
<1>2. Inv => BackoffIsCapped
  BY <1>1 DEF Inv, StageInv, BackoffIsCapped
<1> QED
  BY <1>2, InvAlways, PTL

\* Whatever is under way when the client disconnects, at most one call ends
\* afterwards, in whichever layer: no check of the context is missing.
THEOREM LateCallsBounded == Spec => []OneLateCall
<1>1. Inv => OneLateCall
  BY DEF Inv, LateInv, OneLateCall
<1> QED
  BY <1>1, InvAlways, PTL

=============================================================================
