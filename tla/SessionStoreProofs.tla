------------------------- MODULE SessionStoreProofs -------------------------
(***************************************************************************)
(* Proofs about SessionStore: Inv is inductive, so that no load finds a    *)
(* torn session and no single failure leaves a temporary file behind, and  *)
(* the file-system calls implement the atomic register, for any number of  *)
(* processes, sessions and files, however often the daemon crashes.        *)
(***************************************************************************)
EXTENDS SessionStore, TLAPS

\* The invariant holds before the first session is stored.
LEMMA InitInv == Init => Inv
BY SessionStoreAssumption
   DEF Init, Inv, TypeOK, DiskInv, FileInv, StoreInv, LoadInv, IdleInv,
       Processes, WriterPCs, ReaderPCs, Storing

-----------------------------------------------------------------------------
(* Every step preserves the invariant.                                     *)

\* A call begins.
LEMMA InvCall ==
    ASSUME Inv, NEW p \in Processes, NEW where, NEW s,
           \/ p \in Writers /\ where = "create" /\ s \in Sessions
           \/ p \in Readers /\ where = "open" /\ s = NotFound,
           Call(p, where, s)
    PROVE  Inv'
<1> USE SessionStoreAssumption
    DEF Call, Goto, Processes, diskVars, processVars,
        Inv, TypeOK, WriterPCs, ReaderPCs, Storing
<1>1. TypeOK'
  OBVIOUS
<1>2. DiskInv'
  BY DEF DiskInv, FileInv, StoreInv
<1>3. FileInv'
  BY DEF DiskInv, FileInv, StoreInv, LoadInv
<1>4. StoreInv'
  BY DEF DiskInv, FileInv, StoreInv, LoadInv
<1>5. LoadInv'
  BY DEF DiskInv, FileInv, StoreInv, LoadInv
<1>6. IdleInv'
  BY DEF IdleInv
<1> QED
  BY <1>1, <1>2, <1>3, <1>4, <1>5, <1>6

\* A store creates its file, which nobody else refers to.
LEMMA InvCreateTemp ==
    ASSUME Inv, NEW w \in Writers, CreateTemp(w)
    PROVE  Inv'
<1> USE SessionStoreAssumption
    DEF CreateTemp, Free, Goto, Processes, diskVars, processVars,
        Inv, TypeOK, WriterPCs, ReaderPCs, Storing
<1>1. TypeOK'
  OBVIOUS
<1>2. DiskInv'
  BY DEF DiskInv, FileInv, StoreInv
<1>3. FileInv'
  BY DEF DiskInv, FileInv, StoreInv, LoadInv
<1>4. StoreInv'
  BY DEF DiskInv, FileInv, StoreInv, LoadInv
<1>5. LoadInv'
  BY DEF DiskInv, FileInv, StoreInv, LoadInv
<1>6. IdleInv'
  BY DEF IdleInv
<1> QED
  BY <1>1, <1>2, <1>3, <1>4, <1>5, <1>6

\* A store writes its file, which is still temporary and its own.
LEMMA InvWrite ==
    ASSUME Inv, NEW w \in Writers, Write(w)
    PROVE  Inv'
<1> USE SessionStoreAssumption
    DEF Write, Goto, Processes, diskVars, processVars,
        Inv, TypeOK, WriterPCs, ReaderPCs, Storing
<1>1. TypeOK'
  BY DEF StoreInv
<1>2. DiskInv'
  BY DEF DiskInv, FileInv, StoreInv
<1>3. FileInv'
  BY DEF DiskInv, FileInv, StoreInv, LoadInv
<1>4. StoreInv'
  BY DEF DiskInv, FileInv, StoreInv, LoadInv
<1>5. LoadInv'
  BY DEF DiskInv, FileInv, StoreInv, LoadInv
<1>6. IdleInv'
  BY DEF IdleInv
<1> QED
  BY <1>1, <1>2, <1>3, <1>4, <1>5, <1>6

\* A store syncs its file.
LEMMA InvSync ==
    ASSUME Inv, NEW w \in Writers, Sync(w)
    PROVE  Inv'
<1> USE SessionStoreAssumption
    DEF Sync, Goto, Processes, diskVars, processVars,
        Inv, TypeOK, WriterPCs, ReaderPCs, Storing
<1>1. TypeOK'
  OBVIOUS
<1>2. DiskInv'
  BY DEF DiskInv, FileInv, StoreInv
<1>3. FileInv'
  BY DEF DiskInv, FileInv, StoreInv, LoadInv
<1>4. StoreInv'
  BY DEF DiskInv, FileInv, StoreInv, LoadInv
<1>5. LoadInv'
  BY DEF DiskInv, FileInv, StoreInv, LoadInv
<1>6. IdleInv'
  BY DEF IdleInv
<1> QED
  BY <1>1, <1>2, <1>3, <1>4, <1>5, <1>6

\* The rename puts a session in place that is whole and on disk.
LEMMA InvRename ==
    ASSUME Inv, NEW w \in Writers, Rename(w)
    PROVE  Inv'
<1> USE SessionStoreAssumption
    DEF Rename, Goto, Processes, diskVars, processVars,
        Inv, TypeOK, WriterPCs, ReaderPCs, Storing
<1>1. TypeOK'
  OBVIOUS
<1>2. DiskInv'
  BY DEF DiskInv, FileInv, StoreInv
<1>3. FileInv'
  BY DEF DiskInv, FileInv, StoreInv, LoadInv
<1>4. StoreInv'
  BY DEF DiskInv, FileInv, StoreInv, LoadInv
<1>5. LoadInv'
  BY DEF DiskInv, FileInv, StoreInv, LoadInv
<1>6. IdleInv'
  BY DEF IdleInv
<1> QED
  BY <1>1, <1>2, <1>3, <1>4, <1>5, <1>6

\* A store succeeds.
LEMMA InvChmodTarget ==
    ASSUME Inv, NEW w \in Writers, ChmodTarget(w)
    PROVE  Inv'
<1> USE SessionStoreAssumption
    DEF ChmodTarget, Goto, Processes, diskVars, processVars,
        Inv, TypeOK, WriterPCs, ReaderPCs, Storing
<1>1. TypeOK'
  OBVIOUS
<1>2. DiskInv'
  BY DEF DiskInv, FileInv, StoreInv
<1>3. FileInv'
  BY DEF DiskInv, FileInv, StoreInv, LoadInv
<1>4. StoreInv'
  BY DEF DiskInv, FileInv, StoreInv, LoadInv
<1>5. LoadInv'
  BY DEF DiskInv, FileInv, StoreInv, LoadInv
<1>6. IdleInv'
  BY DEF IdleInv
<1> QED
  BY <1>1, <1>2, <1>3, <1>4, <1>5, <1>6

\* A store fails, wherever it is.
LEMMA InvFail ==
    ASSUME Inv, NEW w \in Writers, Fail(w)
    PROVE  Inv'
<1> USE SessionStoreAssumption
    DEF Fail, Goto, Processes, diskVars, processVars,
        Inv, TypeOK, WriterPCs, ReaderPCs, Storing
<1>1. TypeOK'
  OBVIOUS
<1>2. DiskInv'
  BY DEF DiskInv, FileInv, StoreInv
<1>3. FileInv'
  BY DEF DiskInv, FileInv, StoreInv, LoadInv
<1>4. StoreInv'
  BY DEF DiskInv, FileInv, StoreInv, LoadInv
<1>5. LoadInv'
  BY DEF DiskInv, FileInv, StoreInv, LoadInv
<1>6. IdleInv'
  BY DEF IdleInv
<1> QED
  BY <1>1, <1>2, <1>3, <1>4, <1>5, <1>6

\* The deferred removal changes no file but the store's own, if that is
\* temporary.
LEMMA RemoveKeeps ==
    ASSUME Inv, NEW w \in Writers, Remove(w)
    PROVE  /\ content' \in [Files -> Sessions \cup {"torn"}]
           /\ synced' \in [Files -> BOOLEAN]
           /\ \A f \in Files : f # file[w] \/ f \notin temps =>
                 content'[f] = content[f] /\ synced'[f] = synced[f]
           /\ temps' \subseteq temps
<1> USE DEF Inv, TypeOK
<1>1. CASE file[w] \in temps
  <2>1. Keep(Files \ {file[w]})
    BY <1>1 DEF Remove
  <2>2. temps' \subseteq temps
    BY DEF Remove
  <2> QED
    BY <1>1, <2>1, <2>2 DEF Keep
<1>2. CASE file[w] \notin temps
  BY <1>2 DEF Remove
<1> QED
  BY <1>1, <1>2

\* The deferred removal takes away no file but the store's own.
LEMMA InvRemove ==
    ASSUME Inv, NEW w \in Writers, Remove(w)
    PROVE  Inv'
<1> USE SessionStoreAssumption, RemoveKeeps DEF Processes, Inv
<1>1. /\ pc' = [pc EXCEPT ![w] = "idle"]
      /\ session' = [session EXCEPT ![w] = NotFound]
      /\ file' = [file EXCEPT ![w] = NoFile]
      /\ \E a \in {"ok", "failed"} : answer' = [answer EXCEPT ![w] = a]
      /\ UNCHANGED <<target, durable>>
      /\ refused' \in {{}, {file[w]}} /\ (refused' # {} => file[w] \in temps)
  BY DEF Remove, Return, Goto
<1>2. TypeOK'
  BY <1>1 DEF TypeOK, WriterPCs, ReaderPCs
<1>3. DiskInv'
  BY <1>1 DEF TypeOK, DiskInv
<1>4. FileInv'
  BY <1>1 DEF TypeOK, FileInv
<1>5. StoreInv'
  <2>1. \A v \in Writers : v # w /\ file[v] = file[w] => file[v] \notin temps
    BY DEF FileInv
  <2>2. ASSUME NEW v \in Writers, v # w, pc[v] \in {"write", "sync", "rename"}
        PROVE  /\ file[v] \in temps'
               /\ content'[file[v]] = content[file[v]] /\ synced'[file[v]] = synced[file[v]]
    <3>1. file[v] \in temps /\ file[v] # file[w] /\ file[v] \in Files
      BY <2>1, <2>2 DEF StoreInv, TypeOK
    <3>2. file[v] \in temps'
      BY <3>1 DEF Remove
    <3> QED
      BY <3>1, <3>2
  <2> QED
    BY <1>1, <2>2 DEF TypeOK, StoreInv
<1>6. LoadInv'
  <2>1. \A r \in Readers : file'[r] = file[r] /\ answer'[r] = answer[r] /\ file[r] \notin temps
    BY <1>1 DEF TypeOK, LoadInv
  <2>2. \A r \in Readers : file[r] # NoFile => content'[file[r]] = content[file[r]]
    BY <2>1 DEF TypeOK
  <2> QED
    BY <2>1, <2>2 DEF LoadInv
<1>7. IdleInv'
  BY <1>1 DEF TypeOK, IdleInv
<1> QED
  BY <1>2, <1>3, <1>4, <1>5, <1>6, <1>7

\* A load opens what is in place.
LEMMA InvOpen ==
    ASSUME Inv, NEW r \in Readers, Open(r)
    PROVE  Inv'
<1> USE SessionStoreAssumption
    DEF Open, Goto, Processes, diskVars, processVars,
        Inv, TypeOK, WriterPCs, ReaderPCs, Storing
<1>1. TypeOK'
  OBVIOUS
<1>2. DiskInv'
  BY DEF DiskInv, FileInv, StoreInv
<1>3. FileInv'
  BY DEF DiskInv, FileInv, StoreInv, LoadInv
<1>4. StoreInv'
  BY DEF DiskInv, FileInv, StoreInv, LoadInv
<1>5. LoadInv'
  BY DEF DiskInv, FileInv, StoreInv, LoadInv
<1>6. IdleInv'
  BY DEF IdleInv
<1> QED
  BY <1>1, <1>2, <1>3, <1>4, <1>5, <1>6

\* A load returns what it opened.
LEMMA InvRead ==
    ASSUME Inv, NEW r \in Readers, Read(r)
    PROVE  Inv'
<1> USE SessionStoreAssumption
    DEF Read, Return, Decrypted, Goto, Processes, diskVars, processVars,
        Inv, TypeOK, WriterPCs, ReaderPCs, Storing
<1>1. TypeOK'
  OBVIOUS
<1>2. DiskInv'
  BY DEF DiskInv, FileInv, StoreInv
<1>3. FileInv'
  BY DEF DiskInv, FileInv, StoreInv, LoadInv
<1>4. StoreInv'
  BY DEF DiskInv, FileInv, StoreInv, LoadInv
<1>5. LoadInv'
  BY DEF DiskInv, FileInv, StoreInv, LoadInv
<1>6. IdleInv'
  BY DEF IdleInv
<1> QED
  BY <1>1, <1>2, <1>3, <1>4, <1>5, <1>6

\* The directory reaches the disk.
LEMMA InvFlush ==
    ASSUME Inv, Flush
    PROVE  Inv'
<1> USE SessionStoreAssumption
    DEF Flush, Goto, Processes, diskVars, processVars,
        Inv, TypeOK, WriterPCs, ReaderPCs, Storing
<1>1. TypeOK'
  OBVIOUS
<1>2. DiskInv'
  BY DEF DiskInv, FileInv, StoreInv
<1>3. FileInv'
  BY DEF DiskInv, FileInv, StoreInv, LoadInv
<1>4. StoreInv'
  BY DEF DiskInv, FileInv, StoreInv, LoadInv
<1>5. LoadInv'
  BY DEF DiskInv, FileInv, StoreInv, LoadInv
<1>6. IdleInv'
  BY DEF IdleInv
<1> QED
  BY <1>1, <1>2, <1>3, <1>4, <1>5, <1>6

\* A crash keeps what the path names.
LEMMA InvCrash ==
    ASSUME Inv, Crash
    PROVE  Inv'
<1> USE SessionStoreAssumption
    DEF Crash, LoseProcesses, Keep, Goto, Processes, diskVars, processVars,
        Inv, TypeOK, WriterPCs, ReaderPCs, Storing
<1>1. TypeOK'
  OBVIOUS
<1>2. DiskInv'
  BY DEF DiskInv, FileInv, StoreInv
<1>3. FileInv'
  BY DEF DiskInv, FileInv, StoreInv, LoadInv
<1>4. StoreInv'
  BY DEF DiskInv, FileInv, StoreInv, LoadInv
<1>5. LoadInv'
  BY DEF DiskInv, FileInv, StoreInv, LoadInv
<1>6. IdleInv'
  BY DEF IdleInv
<1> QED
  BY <1>1, <1>2, <1>3, <1>4, <1>5, <1>6

\* A power failure keeps what the path names on disk.
LEMMA InvPowerFailure ==
    ASSUME Inv, PowerFailure
    PROVE  Inv'
<1> USE SessionStoreAssumption DEF Inv, TypeOK, Processes, LoseProcesses
<1>1. PICK kept \in {{durable}, {durable} \cap {f \in Files : synced[f]}} : Keep(kept)
  BY DEF PowerFailure
<1>2. /\ target' = durable /\ durable' = durable /\ LoseProcesses
      /\ temps' \in {temps, {}} /\ refused' = {}
  BY DEF PowerFailure
<1>3. TypeOK'
  <2>1. content' \in [Files -> Sessions \cup {"torn"}] /\ synced' \in [Files -> BOOLEAN]
    BY <1>1 DEF Keep
  <2>2. temps' \subseteq Files /\ refused' \subseteq Files
    BY <1>2
  <2> QED
    BY <1>2, <2>1, <2>2 DEF WriterPCs, ReaderPCs
<1>4. durable # NoFile => content'[durable] = content[durable] /\ synced'[durable]
  BY <1>1 DEF Keep, DiskInv
<1>5. DiskInv'
  BY <1>2, <1>4 DEF DiskInv
<1>6. FileInv' /\ StoreInv' /\ LoadInv' /\ IdleInv'
  BY <1>2 DEF FileInv, StoreInv, LoadInv, IdleInv
<1> QED
  BY <1>3, <1>5, <1>6

\* Every step preserves the invariant.
LEMMA InvNext == Inv /\ [Next]_vars => Inv'
<1> SUFFICES ASSUME Inv, [Next]_vars PROVE Inv'
  OBVIOUS
<1>1. ASSUME NEW w \in Writers, NEW s \in Sessions, Call(w, "create", s) PROVE Inv'
  BY <1>1, InvCall DEF Processes
<1>2. ASSUME NEW w \in Writers, StoreStep(w) PROVE Inv'
  BY <1>2, InvCreateTemp, InvWrite, InvSync, InvRename, InvChmodTarget, InvFail,
     InvRemove DEF StoreStep
<1>3. ASSUME NEW r \in Readers, Call(r, "open", NotFound) \/ Open(r) \/ Read(r) PROVE Inv'
  BY <1>3, InvCall, InvOpen, InvRead DEF Processes
<1>4. ASSUME Flush \/ Crash \/ PowerFailure PROVE Inv'
  BY <1>4, InvFlush, InvCrash, InvPowerFailure
<1>5. ASSUME UNCHANGED vars PROVE Inv'
  BY <1>5 DEF Inv, TypeOK, DiskInv, FileInv, StoreInv, LoadInv, IdleInv,
     vars, diskVars, processVars
<1> QED
  BY <1>1, <1>2, <1>3, <1>4, <1>5 DEF Next

\* What StoreSession relies on after each of its calls holds at all times.
THEOREM InvAlways == Spec => []Inv
<1>1. Init => Inv
  BY InitInv
<1>2. Inv /\ [Next]_vars => Inv'
  BY InvNext
<1> QED
  BY <1>1, <1>2, PTL DEF Spec

-----------------------------------------------------------------------------
(* What follows from the invariant.                                        *)

\* Every variable keeps its type.
THEOREM TypeCorrect == Spec => []TypeOK
<1>1. Inv => TypeOK
  BY DEF Inv
<1> QED
  BY <1>1, InvAlways, PTL

\* Wherever stores overlap, fail, or are cut off by a crash or a power failure,
\* no load ever finds a session that is truncated.
THEOREM NeverTornAlways == Spec => []NeverTorn
<1>1. Inv => NeverTorn
  BY SessionStoreAssumption DEF Inv, TypeOK, DiskInv, LoadInv, NeverTorn, Decrypted
<1> QED
  BY <1>1, InvAlways, PTL

\* A store that fails removes its file: one is left behind only if that fails as
\* well, or by a crash.
THEOREM LeaksNeedTwoFailures == Spec => LeakNeedsTwoFailures
<1> DEFINE BothFail ==
             \E w \in Writers : pc[w] = "removeFailed" /\ Leaked' \subseteq Leaked \cup refused'
<1>1. ASSUME Inv, [Next]_vars
      PROVE  \/ Leaked' \subseteq Leaked \/ BothFail
             \/ Crash \/ PowerFailure \/ UNCHANGED vars
  <2> USE <1>1, SessionStoreAssumption
      DEF Inv, TypeOK, Leaked, Goto, Processes, diskVars, processVars
  <2>1. ASSUME NEW p \in Processes, NEW where, NEW s, Call(p, where, s)
        PROVE  Leaked' \subseteq Leaked
    BY <2>1 DEF Call
  <2>2. ASSUME NEW w \in Writers, StoreStep(w)
        PROVE  Leaked' \subseteq Leaked \/ BothFail
    <3>1. CASE CreateTemp(w)
      BY <3>1 DEF CreateTemp, Free, FileInv
    <3>2. CASE Write(w) \/ Sync(w) \/ ChmodTarget(w) \/ Fail(w)
      BY <3>2 DEF Write, Sync, ChmodTarget, Fail
    <3>3. CASE Rename(w)
      BY <3>3 DEF Rename
    <3>4. CASE Remove(w) /\ pc[w] = "removeDone"
      BY <3>4 DEF Remove, Return, StoreInv
    <3>5. CASE Remove(w) /\ pc[w] = "removeFailed"
      <4>1. Leaked' \subseteq Leaked \cup refused'
        BY <3>5 DEF Remove, Return
      <4> QED
        BY <3>5, <4>1
    <3>6. Remove(w) => pc[w] \in {"removeDone", "removeFailed"}
      BY DEF Remove
    <3> QED
      BY <2>2, <3>1, <3>2, <3>3, <3>4, <3>5, <3>6 DEF StoreStep
  <2>3. ASSUME NEW r \in Readers, Open(r) \/ Read(r)
        PROVE  Leaked' \subseteq Leaked
    BY <2>3 DEF Open, Read, Return
  <2>4. ASSUME Flush
        PROVE  Leaked' \subseteq Leaked
    BY <2>4 DEF Flush
  <2> QED
    BY <1>1, <2>1, <2>2, <2>3, <2>4 DEF Next
<1> QED
  BY <1>1, InvAlways, PTL DEF Spec, LeakNeedsTwoFailures

-----------------------------------------------------------------------------
(* The refinement of the register.                                         *)

\* The register's view of a process.
Op(p) == [phase |-> Phase(p),
          session |-> IF p \in Readers THEN Decrypted(file[p]) ELSE session[p]]

\* The calls under way, as the register has them.
Ops == [p \in Processes |-> Op(p)]

LEMMA OneCallChanges ==
    ASSUME NEW p \in Processes, NEW STATE call,
           Op(p)' = call, \A q \in Processes : q # p => Op(q)' = Op(q)
    PROVE  Ops' = [Ops EXCEPT ![p] = call]
BY DEF Ops, Processes

\* What a step leaves as it is.
LEMMA AtomicVars ==
    ASSUME UNCHANGED <<Decrypted(target), Decrypted(durable), answer>>,
           \A p \in Processes : Op(p)' = Op(p)
    PROVE  UNCHANGED Atomic!vars
BY DEF Atomic!vars, Op

\* The store's first file-system calls are not seen by the register, nor are
\* its failures; a store that fails after the rename has taken effect.
LEMMA StoreStutters ==
    ASSUME Inv, NEW w \in Writers,
           \/ CreateTemp(w) \/ Write(w) \/ Sync(w) \/ ChmodTarget(w) \/ Fail(w)
    PROVE  UNCHANGED Atomic!vars
<1> USE SessionStoreAssumption DEF Inv, TypeOK, Processes, Goto, Storing, diskVars
<1>1. CASE CreateTemp(w)
  <2>1. UNCHANGED <<Decrypted(target), Decrypted(durable), answer>>
    BY <1>1 DEF CreateTemp, Free, Decrypted
  <2>2. \A r \in Readers : Decrypted(file[r])' = Decrypted(file[r])
    BY <1>1 DEF CreateTemp, Free, Decrypted
  <2>3. \A p \in Processes : Phase(p)' = Phase(p)
    BY <1>1 DEF CreateTemp, Free, FileInv, Phase
  <2> QED
    BY <1>1, <2>1, <2>2, <2>3, AtomicVars DEF CreateTemp, Op
<1>2. CASE Write(w)
  <2>1. UNCHANGED <<Decrypted(target), Decrypted(durable), answer>>
    BY <1>2 DEF Write, StoreInv, DiskInv, Decrypted
  <2>2. \A r \in Readers : Decrypted(file[r])' = Decrypted(file[r])
    BY <1>2 DEF Write, StoreInv, LoadInv, Decrypted
  <2>3. \A p \in Processes : Phase(p)' = Phase(p)
    BY <1>2 DEF Write, Phase
  <2> QED
    BY <1>2, <2>1, <2>2, <2>3, AtomicVars DEF Write, Op
<1>3. CASE Sync(w)
  <2>1. \A p \in Processes : Phase(p)' = Phase(p)
    BY <1>3 DEF Sync, Phase
  <2> QED
    BY <1>3, <2>1, AtomicVars DEF Sync, Op, Decrypted
<1>4. CASE ChmodTarget(w)
  <2>1. \A p \in Processes : Phase(p)' = Phase(p)
    BY <1>4 DEF ChmodTarget, Phase
  <2> QED
    BY <1>4, <2>1, AtomicVars DEF ChmodTarget, Op, Decrypted
<1>5. CASE Fail(w)
  <2>1. \A p \in Processes : Phase(p)' = Phase(p)
    BY <1>5 DEF Fail, Phase, FileInv, StoreInv
  <2> QED
    BY <1>5, <2>1, AtomicVars DEF Fail, Op, Decrypted
<1> QED
  BY <1>1, <1>2, <1>3, <1>4, <1>5

\* The rename is the point at which a store takes effect.
LEMMA RenameStores ==
    ASSUME Inv, NEW w \in Writers, Rename(w)
    PROVE  Atomic!Store(w)
<1> USE SessionStoreAssumption DEF Inv, TypeOK, Processes, Goto, Storing, Rename, Op
<1>1. Op(w).phase = "called" /\ Op(w).session = session[w]
  BY DEF Phase
<1>2. Decrypted(target)' = session[w]
  BY DEF StoreInv, Decrypted
<1>3. UNCHANGED <<Decrypted(durable), answer>>
  BY DEF Decrypted
<1>4. Op(w)' = [phase |-> "applied", session |-> Op(w).session]
  BY DEF Phase, StoreInv
<1>5. \A p \in Processes : p # w => Op(p)' = Op(p)
  BY DEF Phase, StoreInv, FileInv, Decrypted
<1>6. w \in Processes
  OBVIOUS
<1> HIDE DEF Inv, TypeOK, Processes, Goto, Storing, Rename, Op
<1>7. Ops' = [Ops EXCEPT ![w] = [phase |-> "applied", session |-> Op(w).session]]
  BY <1>4, <1>5, <1>6, OneCallChanges
<1>8. Ops' = [Ops EXCEPT ![w].phase = "applied"]
  BY <1>6, <1>7 DEF Ops, Op
<1>9. Ops[w] = Op(w)
  BY <1>6 DEF Ops
<1> QED
  BY <1>1, <1>2, <1>3, <1>8, <1>9 DEF Atomic!Store, Ops, Op

\* A call of the store or of a load is one of the register.
LEMMA CallCalls ==
    ASSUME Inv, NEW p \in Processes, NEW where, NEW s,
           \/ p \in Writers /\ where = "create" /\ s \in Sessions
           \/ p \in Readers /\ where = "open" /\ s = NotFound,
           Call(p, where, s)
    PROVE  Atomic!Call(p, s)
<1> USE SessionStoreAssumption DEF Inv, TypeOK, Processes, Goto, diskVars, Call, Op
<1>1. Op(p) = Atomic!Idle
  BY DEF Atomic!Idle, Phase, FileInv, IdleInv, Decrypted
<1>2. Op(p)' = [phase |-> "called", session |-> s]
  BY DEF Phase, FileInv, Decrypted
<1>3. \A q \in Processes : q # p => Op(q)' = Op(q)
  BY DEF Phase, Decrypted
<1>4. UNCHANGED <<Decrypted(target), Decrypted(durable)>>
  BY DEF Decrypted
<1>5. answer' = [answer EXCEPT ![p] = "none"]
  OBVIOUS
<1>6. p \in Processes /\ p \in Atomic!Processes
  BY DEF Atomic!Processes
<1> HIDE DEF Inv, TypeOK, Processes, Goto, diskVars, Call, Op
<1>7. Ops' = [Ops EXCEPT ![p] = [phase |-> "called", session |-> s]]
  BY <1>2, <1>3, <1>6, OneCallChanges
<1>8. Ops[p] = Op(p)
  BY <1>6 DEF Ops
<1> QED
  BY <1>1, <1>4, <1>5, <1>6, <1>7, <1>8 DEF Atomic!Call, Ops, Op

\* The deferred removal is the store's return.
LEMMA RemoveReturns ==
    ASSUME Inv, NEW w \in Writers, Remove(w)
    PROVE  Atomic!ReturnStore(w)
<1> USE SessionStoreAssumption DEF Inv, TypeOK, Processes, Goto, Remove, Return, Op
<1>1. Op(w)' = Atomic!Idle
  BY DEF Atomic!Idle, Phase
<1>2. \A p \in Processes : p # w => Op(p)' = Op(p)
  <2>1. \A p \in Writers : p # w => Phase(p)' = Phase(p)
    <3> SUFFICES ASSUME NEW p \in Writers, p # w PROVE Phase(p)' = Phase(p)
      OBVIOUS
    <3>1. pc'[p] = pc[p] /\ file'[p] = file[p]
      OBVIOUS
    <3>2. file[p] \in temps' <=> file[p] \in temps
      BY DEF FileInv
    <3> QED
      BY <3>1, <3>2 DEF Phase
  <2>2. \A p \in Readers : Phase(p)' = Phase(p) /\ Decrypted(file[p])' = Decrypted(file[p])
    <3> SUFFICES ASSUME NEW p \in Readers
                 PROVE  Phase(p)' = Phase(p) /\ Decrypted(file[p])' = Decrypted(file[p])
      OBVIOUS
    <3>1. pc'[p] = pc[p] /\ file'[p] = file[p] /\ pc[p] \in ReaderPCs
      OBVIOUS
    <3>2. file[p] \notin temps /\ (file[p] # NoFile => file[p] \in Files)
      BY DEF LoadInv
    <3>3. \A f \in Files : f \notin temps => content'[f] = content[f]
      BY RemoveKeeps
    <3>4. file[p] # NoFile => content'[file[p]] = content[file[p]]
      BY <3>2, <3>3
    <3> QED
      BY <3>1, <3>4 DEF Phase, Decrypted, ReaderPCs
  <2> QED
    BY <2>1, <2>2
<1>3. UNCHANGED <<Decrypted(target), Decrypted(durable)>>
  BY RemoveKeeps DEF DiskInv, Decrypted
<1>4. \/ Op(w).phase = "applied" /\ answer' = [answer EXCEPT ![w] = "ok"]
      \/ Op(w).phase # "idle" /\ answer' = [answer EXCEPT ![w] = "failed"]
  BY DEF Phase
<1>5. w \in Processes
  OBVIOUS
<1> HIDE DEF Inv, TypeOK, Processes, Goto, Remove, Return, Op
<1>6. Ops' = [Ops EXCEPT ![w] = Atomic!Idle]
  BY <1>1, <1>2, <1>5, OneCallChanges
<1>7. Ops[w] = Op(w)
  BY <1>5 DEF Ops
<1> QED
  BY <1>3, <1>4, <1>6, <1>7 DEF Atomic!ReturnStore, Atomic!Return, Ops, Op

\* A load sees the session in place when it opens the file.
LEMMA OpenLoads ==
    ASSUME Inv, NEW r \in Readers, Open(r)
    PROVE  Atomic!Load(r)
<1> USE SessionStoreAssumption DEF Inv, TypeOK, Processes, Goto, Open, diskVars, Op
<1>1. Op(r).phase = "called"
  BY DEF Phase
<1>2. Op(r)' = [phase |-> "applied", session |-> Decrypted(target)]
  BY DEF Phase, Decrypted
<1>3. \A p \in Processes : p # r => Op(p)' = Op(p)
  BY DEF Phase, Decrypted
<1>4. UNCHANGED <<Decrypted(target), Decrypted(durable), answer>>
  BY DEF Decrypted
<1>5. r \in Processes
  OBVIOUS
<1> HIDE DEF Inv, TypeOK, Processes, Goto, Open, diskVars, Op
<1>6. Ops' = [Ops EXCEPT ![r] = [phase |-> "applied", session |-> Decrypted(target)]]
  BY <1>2, <1>3, <1>5, OneCallChanges
<1>7. Ops[r] = Op(r)
  BY <1>5 DEF Ops
<1> QED
  BY <1>1, <1>4, <1>6, <1>7 DEF Atomic!Load, Ops, Op

\* A load returns what it saw, or fails.
LEMMA ReadReturns ==
    ASSUME Inv, NEW r \in Readers, Read(r)
    PROVE  Atomic!ReturnLoad(r)
<1> USE SessionStoreAssumption DEF Inv, TypeOK, Processes, Goto, Read, Return, diskVars, Op
<1>1. Op(r) = [phase |-> "applied", session |-> Decrypted(file[r])]
  BY DEF Phase
<1>2. Op(r)' = Atomic!Idle
  BY DEF Atomic!Idle, Phase, Decrypted
<1>3. \A p \in Processes : p # r => Op(p)' = Op(p)
  BY DEF Phase, Decrypted
<1>4. UNCHANGED <<Decrypted(target), Decrypted(durable)>>
  BY DEF Decrypted
<1>5. \/ answer' = [answer EXCEPT ![r] = Decrypted(file[r])]
      \/ answer' = [answer EXCEPT ![r] = "failed"]
  OBVIOUS
<1>6. r \in Processes
  OBVIOUS
<1> HIDE DEF Inv, TypeOK, Processes, Goto, Read, Return, diskVars, Op
<1>7. Ops' = [Ops EXCEPT ![r] = Atomic!Idle]
  BY <1>2, <1>3, <1>6, OneCallChanges
<1>8. Ops[r] = Op(r)
  BY <1>6 DEF Ops
<1>9. Op(r).phase = "applied" /\ Op(r).session = Decrypted(file[r])
  BY <1>1
<1> QED
  BY <1>4, <1>5, <1>7, <1>8, <1>9 DEF Atomic!ReturnLoad, Atomic!Return, Ops, Op

\* After a failure no call is under way.
LEMMA CallsAreLost ==
    ASSUME LoseProcesses
    PROVE  Atomic!LoseCalls
<1>1. \A p \in Processes : Op(p)' = Atomic!Idle
  BY SessionStoreAssumption DEF LoseProcesses, Op, Atomic!Idle, Phase, Decrypted, Processes
<1> QED
  BY <1>1 DEF LoseProcesses, Atomic!LoseCalls, Atomic!Processes, Processes, Op

\* The directory reaches the disk, and the daemon or the power fails.
LEMMA FailuresMap ==
    ASSUME Inv
    PROVE  /\ Flush => Atomic!Flush
           /\ Crash => Atomic!Crash
           /\ PowerFailure => Atomic!PowerFailure
<1> USE SessionStoreAssumption DEF Inv, TypeOK
<1>1. ASSUME Flush PROVE Atomic!Flush
  <2>1. \A p \in Processes : Op(p)' = Op(p)
    BY <1>1 DEF Flush, processVars, Op, Phase, Decrypted
  <2> QED
    BY <1>1, <2>1 DEF Flush, processVars, Atomic!Flush, Decrypted, Op
<1>2. ASSUME Crash PROVE Atomic!Crash
  <2>1. UNCHANGED <<Decrypted(target), Decrypted(durable)>>
    BY <1>2 DEF Crash, Keep, Decrypted
  <2> QED
    BY <1>2, <2>1, CallsAreLost DEF Crash, Atomic!Crash
<1>3. ASSUME PowerFailure PROVE Atomic!PowerFailure
  <2>1. PICK kept \in {{durable}, {durable} \cap {f \in Files : synced[f]}} : Keep(kept)
    BY <1>3 DEF PowerFailure
  <2>2. durable # NoFile => content'[durable] = content[durable]
    BY <2>1 DEF Keep, DiskInv
  <2>3. Decrypted(target)' = Decrypted(durable) /\ Decrypted(durable)' = Decrypted(durable)
    BY <1>3, <2>2 DEF PowerFailure, Decrypted
  <2> QED
    BY <1>3, <2>3, CallsAreLost DEF PowerFailure, Atomic!PowerFailure
<1> QED
  BY <1>1, <1>2, <1>3

\* StoreSession and LoadSession are operations on an atomic register: no load
\* sees a session that was not in place during it, a store that fails before
\* its rename has no effect, and a failure of the power goes back to a session
\* that was in place before.
THEOREM RegisterImplemented == Spec => ImplementsAtomicSession
<1>1. Init => Atomic!Init
  BY SessionStoreAssumption
     DEF Init, Atomic!Init, Atomic!Idle, Atomic!Processes, Processes, Phase, Decrypted
<1>2. ASSUME Inv, [Next]_vars
      PROVE  [Atomic!Next]_Atomic!vars
  <2>1. ASSUME NEW w \in Writers, NEW s \in Sessions, Call(w, "create", s)
        PROVE  Atomic!Next
    BY <1>2, <2>1, CallCalls DEF Atomic!Next, Processes
  <2>2. ASSUME NEW w \in Writers, StoreStep(w)
        PROVE  [Atomic!Next]_Atomic!vars
    BY <1>2, <2>2, StoreStutters, RenameStores, RemoveReturns DEF StoreStep, Atomic!Next
  <2>3. ASSUME NEW r \in Readers, Call(r, "open", NotFound) \/ Open(r) \/ Read(r)
        PROVE  Atomic!Next
    BY <1>2, <2>3, CallCalls, OpenLoads, ReadReturns DEF Atomic!Next, Processes
  <2>4. ASSUME Flush \/ Crash \/ PowerFailure
        PROVE  Atomic!Next
    BY <1>2, <2>4, FailuresMap DEF Atomic!Next
  <2>5. ASSUME UNCHANGED vars
        PROVE  UNCHANGED Atomic!vars
    BY <2>5 DEF vars, diskVars, processVars, Atomic!vars, Phase, Decrypted
  <2> QED
    BY <1>2, <2>1, <2>2, <2>3, <2>4, <2>5 DEF Next
<1> QED
  BY <1>1, <1>2, InvAlways, PTL DEF Spec, ImplementsAtomicSession, Atomic!Spec

=============================================================================
