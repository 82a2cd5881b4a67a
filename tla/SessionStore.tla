---------------------------- MODULE SessionStore ----------------------------
(***************************************************************************)
(* The encrypted session on disk, internal/telegram/session: LoadSession   *)
(* and StoreSession, one action per file-system call, by processes that    *)
(* may overlap.  Any call may fail, the daemon may crash between two of    *)
(* them, and the power may fail.                                           *)
(*                                                                         *)
(* The file system is external: what is written to a file survives a power *)
(* failure once the file is synced, and may be lost in part before; a      *)
(* rename is atomic, visible at once and on disk some time later.  The     *)
(* random names of temporary files are fresh, so a temporary file is       *)
(* identified with its name.  Encryption is authenticated: only the whole  *)
(* ciphertext of a session decrypts.  Permissions are left out.            *)
(***************************************************************************)
EXTENDS FiniteSets

CONSTANTS
    Writers, Readers,  \* the calls of StoreSession, of LoadSession under way
    Sessions,          \* the session data gotd stores
    Files,             \* bound: the files the disk has room for
    NoFile,            \* no file
    NotFound           \* session.ErrNotFound

ASSUME SessionStoreAssumption ==
    /\ Writers \cap Readers = {}
    /\ NoFile \notin Files
    /\ NotFound \notin Sessions
    /\ (Sessions \cup {NotFound}) \cap {"torn", "none", "ok", "failed", "corrupt"} = {}

VARIABLES
    content,  \* what each file holds: a session's ciphertext, or "torn"
    synced,   \* whether that is on disk
    temps,    \* the files that have a temporary name,
    refused,  \* that whose removal was tried last, if it failed (history)
    target,   \* the file under the session's path,
    durable,  \* and the one the path names on disk
    pc,       \* where each process is
    session,  \* the data it stores
    file,     \* the file it has created or opened
    answer    \* what its last call returned

diskVars    == <<content, synced, temps, refused, target, durable>>
processVars == <<pc, session, file, answer>>
vars        == <<diskVars, processVars>>

Processes == Writers \cup Readers

Init ==
    /\ content = [f \in Files |-> "torn"]
    /\ synced = [f \in Files |-> FALSE]
    /\ temps = {}
    /\ refused = {}
    /\ target = NoFile
    /\ durable = NoFile
    /\ pc = [p \in Processes |-> "idle"]
    /\ session = [p \in Processes |-> NotFound]
    /\ file = [p \in Processes |-> NoFile]
    /\ answer = [p \in Processes |-> "none"]

Goto(p, where) == pc' = [pc EXCEPT ![p] = where]

Return(p, a) ==
    /\ Goto(p, "idle")
    /\ session' = [session EXCEPT ![p] = NotFound]
    /\ file' = [file EXCEPT ![p] = NoFile]
    /\ answer' = [answer EXCEPT ![p] = a]

\* Only what these files hold matters from now on.
Keep(kept) ==
    /\ content' = [f \in Files |-> IF f \in kept THEN content[f] ELSE "torn"]
    /\ synced' = [f \in Files |-> f \in kept /\ synced[f]]

\* StoreSession(s), LoadSession.
Call(p, where, s) ==
    /\ pc[p] = "idle"
    /\ Goto(p, where)
    /\ session' = [session EXCEPT ![p] = s]
    /\ answer' = [answer EXCEPT ![p] = "none"]
    /\ UNCHANGED <<file, diskVars>>

-----------------------------------------------------------------------------
(* StoreSession.                                                           *)

\* A store's next call: the temporary file is created, written (after its
\* permissions were set), synced, renamed (after it was closed), and the
\* permissions of the result are set.  Setting permissions and closing change
\* nothing that is modelled; if they fail so does the call they precede.
Storing == {"create", "write", "sync", "rename", "chmodTarget"}

\* Files nothing refers to.
Free == Files \ (temps \cup {target, durable} \cup {file[p] : p \in Processes})

\* Seeded fault: the handle of the new file is dropped.
Bug_CreateTemp(w) ==
    /\ pc[w] = "create"
    /\ \E f \in Free :
          /\ content' = [content EXCEPT ![f] = "torn"]
          /\ synced' = [synced EXCEPT ![f] = FALSE]
          /\ temps' = temps \cup {f}
    /\ Goto(w, "write")
    /\ UNCHANGED <<refused, target, durable, session, file, answer>>

\* os.CreateTemp: a new, empty file.
CreateTemp(w) ==
    /\ pc[w] = "create"
    /\ \E f \in Free :
          /\ content' = [content EXCEPT ![f] = "torn"]
          /\ synced' = [synced EXCEPT ![f] = FALSE]
          /\ temps' = temps \cup {f}
          /\ file' = [file EXCEPT ![w] = f]
    /\ Goto(w, "write")
    /\ UNCHANGED <<refused, target, durable, session, answer>>

\* The ciphertext is written whole, before which a part of it is in the file.
Write(w) ==
    /\ pc[w] = "write"
    /\ content' = [content EXCEPT ![file[w]] = session[w]]
    /\ Goto(w, "sync")
    /\ UNCHANGED <<synced, temps, refused, target, durable, session, file, answer>>

\* Seeded fault: the file is not synced.
Bug_Sync(w) ==
    /\ pc[w] = "sync"
    /\ Goto(w, "rename")
    /\ UNCHANGED <<session, file, answer, diskVars>>

Sync(w) ==
    /\ pc[w] = "sync"
    /\ synced' = [synced EXCEPT ![file[w]] = TRUE]
    /\ Goto(w, "rename")
    /\ UNCHANGED <<content, temps, refused, target, durable, session, file, answer>>

\* The temporary file takes the place of the session.
Rename(w) ==
    /\ pc[w] = "rename"
    /\ target' = file[w]
    /\ temps' = temps \ {file[w]}
    /\ Goto(w, "chmodTarget")
    /\ UNCHANGED <<content, synced, refused, durable, session, file, answer>>

\* The final permissions are set, and StoreSession has succeeded.
ChmodTarget(w) ==
    /\ pc[w] = "chmodTarget"
    /\ Goto(w, "removeDone")
    /\ UNCHANGED <<session, file, answer, diskVars>>

\* Seeded fault: an error while the file is written is not returned.
Bug_Fail(w) ==
    /\ pc[w] \in Storing
    /\ Goto(w, IF pc[w] \in {"write", "sync"} THEN "removeDone" ELSE "removeFailed")
    /\ UNCHANGED <<session, file, answer, diskVars>>

\* A call fails, and StoreSession with it; encryption fails before the first.
Fail(w) ==
    /\ pc[w] \in Storing
    /\ Goto(w, "removeFailed")
    /\ UNCHANGED <<session, file, answer, diskVars>>

\* Seeded fault: a store that fails leaves its temporary file.
Bug_Remove(w) ==
    \/ pc[w] = "removeDone" /\ Return(w, "ok") /\ UNCHANGED diskVars
    \/ pc[w] = "removeFailed" /\ Return(w, "failed") /\ UNCHANGED diskVars

\* The deferred os.Remove of the temporary name, if it is still there; that it
\* fails is ignored.
Remove(w) ==
    /\ \/ pc[w] = "removeDone" /\ Return(w, "ok")
       \/ pc[w] = "removeFailed" /\ Return(w, "failed")
    /\ \/ temps' = temps \ {file[w]} /\ refused' = {}
       \/ file[w] \in temps /\ refused' = {file[w]} /\ UNCHANGED temps
    /\ IF file[w] \in temps THEN Keep(Files \ {file[w]}) ELSE UNCHANGED <<content, synced>>
    /\ UNCHANGED <<target, durable>>

-----------------------------------------------------------------------------
(* LoadSession.                                                            *)

\* The file at the path is opened, if there is one.
Open(r) ==
    /\ pc[r] = "open"
    /\ file' = [file EXCEPT ![r] = target]
    /\ Goto(r, "read")
    /\ UNCHANGED <<session, answer, diskVars>>

\* What a file decrypts to.
Decrypted(f) ==
    IF f = NoFile THEN NotFound
    ELSE IF content[f] = "torn" THEN "corrupt" ELSE content[f]

\* The file is read and decrypted, or the read fails.
Read(r) ==
    /\ pc[r] = "read"
    /\ \E a \in {Decrypted(file[r]), "failed"} : Return(r, a)
    /\ UNCHANGED diskVars

-----------------------------------------------------------------------------
(* Failures.                                                               *)

\* The file system brings the directory to disk, when it likes.
Flush ==
    /\ durable' = target
    /\ UNCHANGED <<content, synced, temps, refused, target, processVars>>

LoseProcesses ==
    /\ pc' = [p \in Processes |-> "idle"]
    /\ session' = [p \in Processes |-> NotFound]
    /\ file' = [p \in Processes |-> NoFile]
    /\ answer' = [p \in Processes |-> "none"]

\* The daemon dies, and is started again.
Crash ==
    /\ LoseProcesses
    /\ Keep({target, durable})
    /\ refused' = {}
    /\ UNCHANGED <<temps, target, durable>>

\* The power fails: a content that was not synced may be lost, a name that was
\* not flushed is; temporary names are all there or all gone.
PowerFailure ==
    /\ LoseProcesses
    /\ \/ Keep({durable})
       \/ Keep({durable} \cap {f \in Files : synced[f]})
    /\ target' = durable
    /\ temps' \in {temps, {}}
    /\ refused' = {}
    /\ UNCHANGED durable

-----------------------------------------------------------------------------

StoreStep(w) ==
    \/ CreateTemp(w) \/ Write(w) \/ Sync(w) \/ Rename(w)
    \/ ChmodTarget(w) \/ Fail(w) \/ Remove(w)

Next ==
    \/ \E w \in Writers : (\E s \in Sessions : Call(w, "create", s)) \/ StoreStep(w)
    \/ \E r \in Readers : Call(r, "open", NotFound) \/ Open(r) \/ Read(r)
    \/ Flush \/ Crash \/ PowerFailure

Spec == Init /\ [][Next]_vars

-----------------------------------------------------------------------------
(* Properties.                                                             *)

WriterPCs == Storing \cup {"idle", "removeDone", "removeFailed"}
ReaderPCs == {"idle", "open", "read"}

\* Every variable keeps its type; a store that is past its creation of a file
\* has one.
TypeOK ==
    /\ content \in [Files -> Sessions \cup {"torn"}]
    /\ synced \in [Files -> BOOLEAN]
    /\ temps \subseteq Files /\ refused \subseteq Files
    /\ target \in Files \cup {NoFile} /\ durable \in Files \cup {NoFile}
    /\ pc \in [Processes -> WriterPCs \cup ReaderPCs]
    /\ \A w \in Writers : pc[w] \in WriterPCs
    /\ \A r \in Readers : pc[r] \in ReaderPCs
    /\ session \in [Processes -> Sessions \cup {NotFound}]
    /\ file \in [Processes -> Files \cup {NoFile}]
    /\ \A w \in Writers : pc[w] \notin {"idle", "create", "removeFailed"} => file[w] # NoFile
    /\ answer \in [Processes -> Sessions \cup {NotFound, "none", "ok", "failed", "corrupt"}]

\* Wherever stores overlap, fail, or are cut off by a crash or a power failure,
\* no load ever finds a session that is truncated.
NeverTorn ==
    /\ Decrypted(target) # "corrupt"
    /\ \A r \in Readers : answer[r] # "corrupt"

\* The path names whole sessions that are on disk, never a temporary file.
DiskInv ==
    /\ target \notin temps /\ durable \notin temps
    /\ \A f \in {target, durable} : f # NoFile => content[f] \in Sessions /\ synced[f]

\* A process has no file before it creates or opens one; a temporary file is of
\* one store only.
FileInv ==
    /\ \A p \in Processes : pc[p] \in {"idle", "create", "open"} => file[p] = NoFile
    /\ \A p, q \in Processes : p # q /\ file[p] = file[q] => file[p] \notin temps

\* How far a store has brought its file, which is temporary until the rename.
StoreInv ==
    \A w \in Writers :
        /\ pc[w] # "idle" => session[w] \in Sessions
        /\ pc[w] \in {"write", "sync", "rename"} => file[w] \in temps
        /\ pc[w] \in {"sync", "rename"} => content[file[w]] = session[w]
        /\ pc[w] = "rename" => synced[file[w]]
        /\ pc[w] \in {"chmodTarget", "removeDone"} => file[w] \notin temps

\* What a load has opened was in place, and stays what it was.
LoadInv ==
    \A r \in Readers :
        /\ file[r] \notin temps
        /\ file[r] # NoFile => content[file[r]] \in Sessions
        /\ answer[r] # "corrupt"

IdleInv == \A p \in Processes : pc[p] = "idle" => session[p] = NotFound

\* The inductive invariant: what a store may rely on after each of its calls,
\* whatever other stores, failures and crashes do meanwhile.
Inv == TypeOK /\ DiskInv /\ FileInv /\ StoreInv /\ LoadInv /\ IdleInv

\* The temporary files no store under way will remove.
Leaked == temps \ {file[w] : w \in Writers}

\* A temporary file with a session in it is left behind by a crash, or when two
\* calls of one store fail, the second of them its removal: never by a store
\* that succeeds, and never because of a single failure.
LeakNeedsTwoFailures ==
    [][\/ Leaked' \subseteq Leaked
       \/ \E w \in Writers : pc[w] = "removeFailed" /\ Leaked' \subseteq Leaked \cup refused'
       \/ Crash \/ PowerFailure]_vars

\* What the processes and the disk look like to gotd.
Phase(p) ==
    CASE pc[p] = "idle" -> "idle"
      [] pc[p] \in {"read", "chmodTarget", "removeDone"} -> "applied"
      [] pc[p] = "removeFailed" -> IF file[p] \in temps \cup {NoFile} THEN "called" ELSE "applied"
      [] OTHER -> "called"

Atomic == INSTANCE AtomicSession WITH
    value   <- Decrypted(target),
    durable <- Decrypted(durable),
    op      <- [p \in Processes |->
                  [phase |-> Phase(p),
                   session |-> IF p \in Readers THEN Decrypted(file[p]) ELSE session[p]]]

\* StoreSession and LoadSession are operations on an atomic register: no load
\* sees a session that was not in place during it, a store that fails before
\* its rename has no effect, and a failure of the power goes back to a session
\* that was in place before.
ImplementsAtomicSession == Atomic!Spec

=============================================================================
