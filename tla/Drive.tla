------------------------------- MODULE Drive --------------------------------
(***************************************************************************)
(* The drive service (internal/drive/drive.go) over its metadata index     *)
(* (internal/index, internal/store/{sqlite,postgres}) and the Telegram     *)
(* account, which is the source of truth (internal/telegram/{folders,      *)
(* fileops,upload,download}).                                              *)
(*                                                                         *)
(* A request is one call of drive.Service, run by an HTTP handler.  It is  *)
(* a sequence of steps, each of them one RPC or one SQL statement, and     *)
(* requests interleave between steps: no lock and no transaction spans     *)
(* two of them.  A request may stop after any step (an RPC or statement    *)
(* that fails, a client that disconnects, a crash of the daemon, which     *)
(* loses the requests and keeps both stores), leaving the rest undone.     *)
(* Account, size, MIME type and creation time are left out.                *)
(***************************************************************************)
EXTENDS FiniteSets, FolderTitle

CONSTANTS
    Requests,      \* the calls the clients make, each of them once
    Ops,           \* the service methods they call
    MayFail,       \* the requests that may stop half way
    MaxInFlight,   \* requests the clients keep open at a time
    NumChannels,   \* bound: the channels that ever exist are 1..NumChannels
    NumExisting,   \* the channels 1..NumExisting hold one file at first
    NumIndexed,    \* and 1..NumIndexed, with their files, are in the index
    Names,         \* names of files
    FolderNames,   \* display names of folders, in the symbols of FolderTitle
    SentTitles,    \* titles that clients send along and that were not made of one
    Dialects       \* the databases the index may be in

Methods == {"CreateFolder", "RenameFolder", "DeleteFolder", "ListFolders",
            "ListFiles", "UploadFile", "DownloadFile", "RenameFile", "DeleteFile",
            "MoveFile"}

\* Neither to make a folder's title of the name nor to read it panics.
Harmless(n) == LET made == FolderName(Bytes(n))
               IN  ~made.panics /\ ~DisplayName(made.text).panics

ASSUME DriveAssumption ==
    /\ Ops \subseteq Methods
    /\ MayFail \subseteq Requests
    /\ MaxInFlight \in Nat
    /\ NumChannels \in Nat
    /\ NumExisting \in 0..NumChannels
    /\ NumIndexed \in 0..NumExisting
    /\ Names # {}
    /\ FolderNames \subseteq Seq(Symbols)
    /\ \E n \in FolderNames : Harmless(n)
    /\ SentTitles \subseteq Seq(Symbols)
    /\ Dialects \subseteq {"sqlite", "postgres"}

Channels == 1..NumChannels
Existing == 1..NumExisting
Indexed  == 1..NumIndexed
None     == 0

\* The bytes of a file, named after the channel or upload they come from.
Contents == Existing \cup Requests

FirstName == CHOOSE n \in Names : TRUE

\* The name every folder has at first.
FirstFolderName == CHOOSE n \in FolderNames : Harmless(n)

\* The title of a folder with a name, the titles clients send along with what
\* they say is a folder, which are not checked, and the name the index has for a
\* title; to compute them may panic.
TitleOf == [n \in FolderNames |-> FolderName(Bytes(n))]
FolderTitles == {TitleOf[n].text : n \in {m \in FolderNames : ~TitleOf[m].panics}}
ClientTitles == FolderTitles \cup {Bytes(t) : t \in SentTitles}
NameOf == [t \in ClientTitles |-> DisplayName(t)]

VARIABLES
    \* Telegram: per channel, whether it is unused, live or deleted, its title,
    \* its messages and the id of its next message.
    life, title, messages, nextMessage,
    \* The index: the rows of the tables folders and files, and the ids their
    \* AUTOINCREMENT columns give next.
    folders, files, nextFolder, nextFile,
    \* The database the index is in.
    dialect,
    \* Requests: where each one is, its arguments, what it looked up on the
    \* way, and what it returned.
    pc, arg, local, result

telegramVars == <<life, title, messages, nextMessage>>
indexVars    == <<folders, files, nextFolder, nextFile, dialect>>
requestVars  == <<pc, arg, local, result>>
vars         == <<telegramVars, indexVars, requestVars>>

NoRow == [id |-> None]

\* Nothing is looked up yet: the folder rows of the channel and of the
\* destination, the file row read from the index, the id of a new message.
NoLocal == [folder |-> None, dst |-> None, row |-> NoRow, new |-> None]

NoArg == [op |-> "none", channel |-> None, message |-> None, dst |-> None,
          name |-> FirstName, folderName |-> FirstFolderName]

Init ==
    /\ life = [c \in Channels |-> IF c \in Existing THEN "live" ELSE "unused"]
    /\ title = [c \in Channels |-> TitleOf[FirstFolderName].text]
    /\ messages = [c \in Channels |->
          IF c \in Existing
          THEN {[id |-> 1, content |-> c, name |-> FirstName]} ELSE {}]
    /\ nextMessage = [c \in Channels |-> IF c \in Existing THEN 2 ELSE 1]
    /\ folders = {[id |-> c, channel |-> c,
                   name |-> NameOf[TitleOf[FirstFolderName].text].text] : c \in Indexed}
    /\ files = {[id |-> c, folder |-> c, message |-> 1, name |-> FirstName] :
                   c \in Indexed}
    /\ nextFolder = NumIndexed + 1
    /\ nextFile = NumIndexed + 1
    /\ dialect \in Dialects
    /\ pc = [r \in Requests |-> "idle"]
    /\ arg = [r \in Requests |-> NoArg]
    /\ local = [r \in Requests |-> NoLocal]
    /\ result = [r \in Requests |-> "none"]

-----------------------------------------------------------------------------
(* The requests.                                                           *)

InFlight == {r \in Requests : pc[r] \notin {"idle", "returned"}}

Goto(r, where) == pc' = [pc EXCEPT ![r] = where]

Return(r, a) ==
    /\ Goto(r, "returned")
    /\ result' = [result EXCEPT ![r] = a]

\* The first RPC of a method; ListFiles has none.
FirstStep(op) ==
    CASE op = "CreateFolder" -> "createChannel"
      [] op = "RenameFolder" -> "editTitle"
      [] op = "DeleteFolder" -> "deleteChannel"
      [] op = "ListFolders"  -> "listDialogs"
      [] op = "ListFiles"    -> "lookupFolder"
      [] op = "UploadFile"   -> "upload"
      [] op = "DownloadFile" -> "download"
      [] op = "RenameFile"   -> "editCaption"
      [] op = "DeleteFile"   -> "deleteMessage"
      [] op = "MoveFile"     -> "forward"

\* The arguments a client can pass: a channel and a message that were once
\* listed to it, deleted since then or not, and a name where the method has one.
Arguments(op) ==
    { a \in [op : {op}, channel : Channels \cup {None},
             message : {None} \cup UNION {1..nextMessage[c] - 1 : c \in Channels},
             dst : Channels \cup {None}, name : Names, folderName : FolderNames] :
        /\ a.channel = None <=> op \in {"CreateFolder", "ListFolders"}
        /\ a.channel # None => life[a.channel] # "unused"
        /\ IF op \in {"DownloadFile", "RenameFile", "DeleteFile", "MoveFile"}
           THEN a.message \in 1..nextMessage[a.channel] - 1
           ELSE a.message = None
        /\ IF op = "MoveFile"
           THEN a.dst # None /\ life[a.dst] # "unused"
           ELSE a.dst = None
        /\ op \notin {"UploadFile", "RenameFile"} => a.name = FirstName
        /\ op \notin {"CreateFolder", "RenameFolder"} => a.folderName = FirstFolderName }

Call(r) ==
    /\ pc[r] = "idle"
    /\ Cardinality(InFlight) < MaxInFlight
    /\ \E op \in Ops : \E a \in Arguments(op) :
          /\ arg' = [arg EXCEPT ![r] = a]
          /\ Goto(r, FirstStep(op))
    /\ UNCHANGED <<telegramVars, indexVars, local, result>>

\* A name that is blank, a message id that is not positive, a body that does
\* not parse: nothing is done.
Reject(r) ==
    /\ pc[r] = "idle"
    /\ Return(r, "rejected")
    /\ UNCHANGED <<telegramVars, indexVars, arg, local>>

\* The request stops where it is: its next RPC or statement fails, its context
\* ends or the daemon crashes.
Fail(r) ==
    /\ r \in MayFail
    /\ r \in InFlight
    /\ Return(r, "failed")
    /\ UNCHANGED <<telegramVars, indexVars, arg, local>>

\* The statement takes effect and is reported as failed all the same.
FailAfter(r) ==
    /\ r \in MayFail
    /\ Return(r, "failed")
    /\ UNCHANGED local

-----------------------------------------------------------------------------
(* Telegram (external): what each RPC does to the account.                 *)

Message(c, m) == {x \in messages[c] : x.id = m}

\* channels.createChannel, under the title of the name.
CreateChannel(r) ==
    /\ pc[r] = "createChannel"
    /\ ~TitleOf[arg[r].folderName].panics
    /\ \E c \in Channels :
          /\ life[c] = "unused"
          /\ \A b \in 1..c - 1 : life[b] # "unused"
          /\ life' = [life EXCEPT ![c] = "live"]
          /\ title' = [title EXCEPT ![c] = TitleOf[arg[r].folderName].text]
          /\ arg' = [arg EXCEPT ![r].channel = c]
    /\ Goto(r, "setHistoryTTL")
    /\ UNCHANGED <<messages, nextMessage, indexVars, local, result>>

\* A name whose marker is cut out at the wrong place may panic: the server
\* drops the request.
PanicOnName(r) ==
    /\ pc[r] \in {"createChannel", "editTitle"}
    /\ TitleOf[arg[r].folderName].panics
    /\ Return(r, "failed")
    /\ UNCHANGED <<telegramVars, indexVars, arg, local>>

\* messages.setHistoryTTL, after which the new folder is indexed.
SetHistoryTTL(r) ==
    /\ pc[r] = "setHistoryTTL"
    /\ Goto(r, "lookupFolder")
    /\ UNCHANGED <<telegramVars, indexVars, arg, local, result>>

\* channels.editTitle; the index keeps the folder's old name.
EditTitle(r) ==
    /\ pc[r] = "editTitle"
    /\ ~TitleOf[arg[r].folderName].panics
    /\ \/ /\ life[arg[r].channel] = "live"
          /\ title' = [title EXCEPT ![arg[r].channel] = TitleOf[arg[r].folderName].text]
          /\ Return(r, "ok")
       \/ /\ life[arg[r].channel] # "live"
          /\ Return(r, "rejected")
          /\ UNCHANGED title
    /\ UNCHANGED <<life, messages, nextMessage, indexVars, arg, local>>

\* channels.deleteChannel; the index keeps the folder's rows.
DeleteChannel(r) ==
    /\ pc[r] = "deleteChannel"
    /\ \/ /\ life[arg[r].channel] = "live"
          /\ life' = [life EXCEPT ![arg[r].channel] = "deleted"]
          /\ messages' = [messages EXCEPT ![arg[r].channel] = {}]
          /\ Return(r, "ok")
       \/ /\ life[arg[r].channel] # "live"
          /\ Return(r, "rejected")
          /\ UNCHANGED <<life, messages>>
    /\ UNCHANGED <<title, nextMessage, indexVars, arg, local>>

\* dialogs.List, all there is to ListFolders.
ListDialogs(r) ==
    /\ pc[r] = "listDialogs"
    /\ Return(r, "ok")
    /\ UNCHANGED <<telegramVars, indexVars, arg, local>>

\* download.File: the message is fetched and its document written; Transfer
\* models how.
Download(r) ==
    /\ pc[r] = "download"
    /\ Return(r, IF Message(arg[r].channel, arg[r].message) = {} THEN "rejected" ELSE "ok")
    /\ UNCHANGED <<telegramVars, indexVars, arg, local>>

\* Seeded fault: the id of the new message is not taken from the updates.
Bug_Post(r, c, content, name) ==
    /\ messages' = [messages EXCEPT ![c] =
          @ \cup {[id |-> nextMessage[c], content |-> content, name |-> name]}]
    /\ nextMessage' = [nextMessage EXCEPT ![c] = @ + 1]
    /\ UNCHANGED local

\* Channel c gets a new message, whose id request r learns.
Post(r, c, content, name) ==
    /\ messages' = [messages EXCEPT ![c] =
          @ \cup {[id |-> nextMessage[c], content |-> content, name |-> name]}]
    /\ nextMessage' = [nextMessage EXCEPT ![c] = @ + 1]
    /\ local' = [local EXCEPT ![r].new = nextMessage[c]]

\* upload.File: the document is sent to the folder.
Upload(r) ==
    /\ pc[r] = "upload"
    /\ \/ /\ life[arg[r].channel] = "live"
          /\ Post(r, arg[r].channel, r, arg[r].name)
          /\ Goto(r, "lookupFolder")
          /\ UNCHANGED result
       \/ /\ life[arg[r].channel] # "live"
          /\ Return(r, "rejected")
          /\ UNCHANGED <<messages, nextMessage, local>>
    /\ UNCHANGED <<life, title, indexVars, arg>>

\* fileops.Rename, messages.editMessage: a message that is gone is an error.
EditCaption(r) ==
    /\ pc[r] = "editCaption"
    /\ LET c == arg[r].channel
           m == Message(c, arg[r].message)
       IN  \/ /\ m # {}
              /\ messages' = [messages EXCEPT ![c] =
                    (@ \ m) \cup {[x EXCEPT !.name = arg[r].name] : x \in m}]
              /\ Goto(r, "lookupFolder")
              /\ UNCHANGED result
           \/ /\ m = {}
              /\ Return(r, "rejected")
              /\ UNCHANGED messages
    /\ UNCHANGED <<life, title, nextMessage, indexVars, arg, local>>

\* channels.deleteMessages on the request's message, which is no error if the
\* message is gone already; otherwise is the result if the channel is gone.
RemoveMessage(r, where, otherwise) ==
    LET c == arg[r].channel
    IN  \/ /\ life[c] = "live"
           /\ messages' = [messages EXCEPT ![c] = @ \ Message(c, arg[r].message)]
           /\ Goto(r, where)
           /\ UNCHANGED result
        \/ /\ life[c] # "live"
           /\ Return(r, otherwise)
           /\ UNCHANGED messages

\* fileops.Delete.
DeleteMessage(r) ==
    /\ pc[r] = "deleteMessage"
    /\ RemoveMessage(r, "lookupFolder", "rejected")
    /\ UNCHANGED <<life, title, nextMessage, indexVars, arg, local>>

\* Seeded fault: the move deletes the source before it forwards the message.
Bug_Forward(r) ==
    /\ pc[r] = "forward"
    /\ RemoveMessage(r, "deleteSource", "rejected")
    /\ UNCHANGED <<life, title, nextMessage, indexVars, arg, local>>

\* fileops.Move, messages.forwardMessages: the copy keeps content and caption.
Forward(r) ==
    /\ pc[r] = "forward"
    /\ LET m == Message(arg[r].channel, arg[r].message)
       IN  \/ /\ life[arg[r].dst] = "live"
              /\ \E x \in m : Post(r, arg[r].dst, x.content, x.name)
              /\ Goto(r, "deleteSource")
              /\ UNCHANGED result
           \/ /\ m = {} \/ life[arg[r].dst] # "live"
              /\ Return(r, "rejected")
              /\ UNCHANGED <<messages, nextMessage, local>>
    /\ UNCHANGED <<life, title, indexVars, arg>>

\* fileops.Move, after the forward: the source message is deleted.
DeleteSource(r) ==
    /\ pc[r] = "deleteSource"
    /\ RemoveMessage(r, "lookupFolder", "failed")
    /\ UNCHANGED <<life, title, nextMessage, indexVars, arg, local>>

-----------------------------------------------------------------------------
(* The index: statements on the tables folders and files.                  *)

FolderRows(c) == {f \in folders : f.channel = c}
FileRows(folder, m) == {f \in files : f.folder = folder /\ f.message = m}

\* Where a request goes once ensureFolder gave it the row id of its folder.
AfterEnsure(op) ==
    CASE op = "CreateFolder" -> "returned"
      [] op = "ListFiles"    -> "listFiles"
      [] op = "UploadFile"   -> "upsertFile"
      [] op = "RenameFile"   -> "findRow"
      [] op = "DeleteFile"   -> "findToPrune"
      [] op = "MoveFile"     -> "findRow"

\* ensureFolder returned f for the request's (source) folder.
Resolved(r, f) ==
    /\ local' = [local EXCEPT ![r].folder = f.id]
    /\ Goto(r, AfterEnsure(arg[r].op))
    /\ result' = IF arg[r].op = "CreateFolder"
                 THEN [result EXCEPT ![r] = "ok"] ELSE result

\* ... and for the destination of a move.
ResolvedDst(r, f) ==
    /\ local' = [local EXCEPT ![r].dst = f.id]
    /\ Goto(r, "upsertFile")
    /\ UNCHANGED result

\* ensureFolder's scan of the indexed folders.
LookupFolder(r) ==
    /\ \/ /\ pc[r] = "lookupFolder"
          /\ \/ \E f \in FolderRows(arg[r].channel) : Resolved(r, f)
             \/ /\ FolderRows(arg[r].channel) = {}
                /\ Goto(r, "insertFolder")
                /\ UNCHANGED <<local, result>>
       \/ /\ pc[r] = "lookupDst"
          /\ \/ \E f \in FolderRows(arg[r].dst) : ResolvedDst(r, f)
             \/ /\ FolderRows(arg[r].dst) = {}
                /\ Goto(r, "insertDst")
                /\ UNCHANGED <<local, result>>
    /\ UNCHANGED <<telegramVars, indexVars, arg>>

\* An id that is taken although no row is inserted: PostgreSQL takes it from
\* its sequence before it finds the conflict.
Conflict(next) == IF dialect = "postgres" THEN next + 1 ELSE next

\* Seeded fault: the folders table has no unique key, every insert adds a row.
Bug_UpsertFolder(c, n) ==
    /\ folders' = folders \cup {[id |-> nextFolder, channel |-> c, name |-> n]}
    /\ nextFolder' = nextFolder + 1

\* store.CreateFolder: INSERT ... ON CONFLICT(tg_account_id, channel_id).
UpsertFolder(c, n) ==
    \/ /\ FolderRows(c) = {}
       /\ folders' = folders \cup {[id |-> nextFolder, channel |-> c, name |-> n]}
       /\ nextFolder' = nextFolder + 1
    \/ /\ FolderRows(c) # {}
       /\ folders' = (folders \ FolderRows(c)) \cup
                        {[f EXCEPT !.name = n] : f \in FolderRows(c)}
       /\ nextFolder' = Conflict(nextFolder)

\* The title of the folder to insert: the new channel's, or the one the client
\* sends along, be it from an old listing, of a channel that was marked with
\* another application or made up.
TitlesToInsert(r) ==
    IF arg[r].op = "CreateFolder" THEN {TitleOf[arg[r].folderName].text} ELSE ClientTitles

\* ensureFolder's insert of a folder it did not find, and the read of the row's
\* id by its key, which may fail although the row is written.  DisplayName may
\* panic, which ends the request.
InsertFolder(r) ==
    /\ pc[r] \in {"insertFolder", "insertDst"}
    /\ \E t \in TitlesToInsert(r) :
          \/ /\ pc[r] = "insertFolder" /\ ~NameOf[t].panics
             /\ UpsertFolder(arg[r].channel, NameOf[t].text)
             /\ \/ \E f \in folders' : f.channel = arg[r].channel /\ Resolved(r, f)
                \/ FailAfter(r)
          \/ /\ pc[r] = "insertDst" /\ ~NameOf[t].panics
             /\ UpsertFolder(arg[r].dst, NameOf[t].text)
             /\ \/ \E f \in folders' : f.channel = arg[r].dst /\ ResolvedDst(r, f)
                \/ FailAfter(r)
          \/ /\ NameOf[t].panics
             /\ Return(r, "failed")
             /\ UNCHANGED <<folders, nextFolder, local>>
    /\ UNCHANGED <<telegramVars, files, nextFile, dialect, arg>>

\* ListFiles' read of the cached rows.
ListFiles(r) ==
    /\ pc[r] = "listFiles"
    /\ Return(r, "ok")
    /\ UNCHANGED <<telegramVars, indexVars, arg, local>>

\* reindexRenamedFile / reindexMovedFile look for the cached row; without one
\* the request is done.
FindRow(r) ==
    /\ pc[r] = "findRow"
    /\ LET rows == FileRows(local[r].folder, arg[r].message)
       IN  \/ \E x \in rows :
                 /\ local' = [local EXCEPT ![r].row = x]
                 /\ Goto(r, IF arg[r].op = "MoveFile" THEN "lookupDst" ELSE "upsertFile")
                 /\ UNCHANGED result
           \/ /\ rows = {}
              /\ Return(r, "ok")
              /\ UNCHANGED local
    /\ UNCHANGED <<telegramVars, indexVars, arg>>

\* Seeded fault: a moved file keeps the message id it had in the source folder.
Bug_RowToWrite(r) ==
    [folder |-> IF arg[r].op = "MoveFile" THEN local[r].dst ELSE local[r].folder,
     message |-> IF arg[r].op = "UploadFile" THEN local[r].new ELSE arg[r].message,
     name |-> IF arg[r].op = "MoveFile" THEN local[r].row.name ELSE arg[r].name]

\* The row a request writes: of the uploaded file, of the cached row under its
\* new name, or of the moved file at its destination.
RowToWrite(r) ==
    CASE arg[r].op = "UploadFile" ->
            [folder |-> local[r].folder, message |-> local[r].new, name |-> arg[r].name]
      [] arg[r].op = "RenameFile" ->
            [folder |-> local[r].row.folder, message |-> local[r].row.message,
             name |-> arg[r].name]
      [] arg[r].op = "MoveFile" ->
            [folder |-> local[r].dst, message |-> local[r].new,
             name |-> local[r].row.name]

\* Seeded fault: ids are reused, as without AUTOINCREMENT.
Bug_NewFileId == 1 + Cardinality({n \in 1..nextFile : \E f \in files : f.id >= n})

\* The id AUTOINCREMENT gives: never one that was given before.
NewFileId == nextFile

\* The request goes on after UpsertFile returned its row.
Upserted(r) ==
    \/ arg[r].op = "MoveFile" /\ Goto(r, "findToPrune") /\ UNCHANGED result
    \/ arg[r].op # "MoveFile" /\ Return(r, "ok")

\* store.UpsertFile: INSERT ... ON CONFLICT(folder_id, message_id), which
\* returns the row in PostgreSQL; with SQLite it is read afterwards.
UpsertFile(r) ==
    /\ pc[r] = "upsertFile"
    /\ LET row == RowToWrite(r)
           old == FileRows(row.folder, row.message)
       IN  \/ /\ old = {}
              /\ files' = files \cup {[id |-> NewFileId, folder |-> row.folder,
                                       message |-> row.message, name |-> row.name]}
              /\ nextFile' = nextFile + 1
           \/ /\ old # {}
              /\ files' = (files \ old) \cup {[f EXCEPT !.name = row.name] : f \in old}
              /\ nextFile' = Conflict(nextFile)
    /\ \/ dialect = "sqlite" /\ Goto(r, "readBack") /\ UNCHANGED result
       \/ dialect = "postgres" /\ Upserted(r)
       \/ FailAfter(r)
    /\ UNCHANGED <<telegramVars, folders, nextFolder, dialect, arg, local>>

\* UpsertFile's read of the row by its key: an error if it is gone again.
ReadBack(r) ==
    /\ pc[r] = "readBack"
    /\ LET row == RowToWrite(r)
       IN  \/ FileRows(row.folder, row.message) = {} /\ Return(r, "failed")
           \/ FileRows(row.folder, row.message) # {} /\ Upserted(r)
    /\ UNCHANGED <<telegramVars, indexVars, arg, local>>

\* index.DeleteFile resolves the row's primary key; no row, nothing to do.
FindToPrune(r) ==
    /\ pc[r] = "findToPrune"
    /\ LET rows == FileRows(local[r].folder, arg[r].message)
       IN  \/ \E x \in rows :
                 /\ local' = [local EXCEPT ![r].row = x]
                 /\ Goto(r, "pruneRow")
                 /\ UNCHANGED result
           \/ /\ rows = {}
              /\ Return(r, "ok")
              /\ UNCHANGED local
    /\ UNCHANGED <<telegramVars, indexVars, arg>>

\* Seeded fault: the row is never deleted.
Bug_PruneRow(r) ==
    /\ pc[r] = "pruneRow"
    /\ Return(r, "ok")
    /\ UNCHANGED <<telegramVars, indexVars, arg, local>>

\* store.DeleteFile by primary key: ErrNotFound if no row was affected.
PruneRow(r) ==
    /\ pc[r] = "pruneRow"
    /\ LET rows == {f \in files : f.id = local[r].row.id}
       IN  /\ files' = files \ rows
           /\ \/ Return(r, IF rows = {} THEN "not_found" ELSE "ok")
              \/ FailAfter(r)
    /\ UNCHANGED <<telegramVars, folders, nextFolder, nextFile, dialect, arg, local>>

-----------------------------------------------------------------------------

RequestStep(r) ==
    \/ CreateChannel(r) \/ PanicOnName(r) \/ SetHistoryTTL(r) \/ EditTitle(r)
    \/ DeleteChannel(r) \/ ListDialogs(r)
    \/ Upload(r) \/ Download(r) \/ EditCaption(r) \/ DeleteMessage(r)
    \/ Forward(r) \/ DeleteSource(r)
    \/ LookupFolder(r) \/ InsertFolder(r) \/ ListFiles(r) \/ FindRow(r)
    \/ UpsertFile(r) \/ ReadBack(r) \/ FindToPrune(r) \/ PruneRow(r)

Next == \E r \in Requests : Call(r) \/ Reject(r) \/ RequestStep(r) \/ Fail(r)

Spec == Init /\ [][Next]_vars

-----------------------------------------------------------------------------
(* Properties.                                                             *)

Ids == Nat \ {None}

FolderRowNames == {NameOf[t].text : t \in ClientTitles}

FolderRow  == [id : Ids, channel : Channels, name : FolderRowNames]
MessageRow == [id : Ids, content : Contents, name : Names]
FileRow    == [id : Ids, folder : Ids, message : Ids, name : Names]

Args   == [op : Methods \cup {"none"}, channel : Channels \cup {None}, message : Nat,
           dst : Channels \cup {None}, name : Names, folderName : FolderNames]
Locals == [folder : Nat, dst : Nat, row : FileRow \cup {NoRow}, new : Nat]

\* Where a request can be before it returns.
Stages(op) ==
    CASE op = "none"         -> {"idle"}
      [] op = "CreateFolder" -> {"createChannel", "setHistoryTTL", "lookupFolder", "insertFolder"}
      [] op = "RenameFolder" -> {"editTitle"}
      [] op = "DeleteFolder" -> {"deleteChannel"}
      [] op = "ListFolders"  -> {"listDialogs"}
      [] op = "ListFiles"    -> {"lookupFolder", "insertFolder", "listFiles"}
      [] op = "UploadFile"   -> {"upload", "lookupFolder", "insertFolder",
                                 "upsertFile", "readBack"}
      [] op = "DownloadFile" -> {"download"}
      [] op = "RenameFile"   -> {"editCaption", "lookupFolder", "insertFolder", "findRow",
                                 "upsertFile", "readBack"}
      [] op = "DeleteFile"   -> {"deleteMessage", "lookupFolder", "insertFolder",
                                 "findToPrune", "pruneRow"}
      [] op = "MoveFile"     -> {"forward", "deleteSource", "lookupFolder", "insertFolder",
                                 "findRow", "lookupDst", "insertDst", "upsertFile",
                                 "readBack", "findToPrune", "pruneRow"}

Places == {"returned"} \cup UNION {Stages(op) : op \in Methods \cup {"none"}}

\* Every variable keeps its type; rows refer to rows and messages by id.
TypeOK ==
    /\ life \in [Channels -> {"unused", "live", "deleted"}]
    /\ title \in [Channels -> FolderTitles]
    /\ messages \in [Channels -> SUBSET MessageRow]
    /\ nextMessage \in [Channels -> Ids]
    /\ folders \subseteq FolderRow
    /\ files \subseteq FileRow
    /\ nextFolder \in Ids /\ nextFile \in Ids /\ dialect \in Dialects
    /\ pc \in [Requests -> Places]
    /\ arg \in [Requests -> Args]
    /\ local \in [Requests -> Locals]
    /\ result \in [Requests -> {"none", "ok", "rejected", "failed", "not_found"}]
    /\ \A r \in Requests : pc[r] \in Stages(arg[r].op) \cup {"returned"}

\* However many requests create the same folder or file at once, a channel has
\* one row in the index, a message has one row, and no two rows share an id.
RowsUnique ==
    /\ \A e, f \in folders : e.channel = f.channel \/ e.id = f.id => e = f
    /\ \A e, f \in files :
          \/ e.id = f.id
          \/ e.folder = f.folder /\ e.message = f.message
          => e = f

\* A cached file always stands for a message that Telegram did create in the
\* channel of the folder it is listed under, deleted since or not.
RowsAreReal ==
    \A f \in files : \E d \in folders :
        /\ d.id = f.folder
        /\ f.message \in 1..nextMessage[d.channel] - 1

\* Between the scan that resolves a file's primary key and the delete by that
\* key, requests may delete and insert rows: what is pruned is nevertheless
\* the row of the very message the pruning request deleted or moved.
PrunesOwnRow ==
    [][\A f \in files :
          (\A g \in files' : g.id # f.id) =>
              \E r \in Requests :
                  /\ pc[r] = "pruneRow"
                  /\ f.message = arg[r].message
                  /\ \E d \in folders : d.id = f.folder /\ d.channel = arg[r].channel]_vars

HasContent(x) == \E c \in Channels : \E m \in messages[c] : m.content = x

\* Nobody asks for a file or a folder to be deleted.
NoDeletes == \A r \in Requests : arg[r].op \notin {"DeleteFile", "DeleteFolder"}

\* As long as nobody deletes, every file that was there first or whose upload
\* succeeded is in some folder, whatever moves interleave and wherever they
\* stop: a move may duplicate a file and never loses it.
NoFileLost ==
    NoDeletes =>
        /\ \A c \in Existing : HasContent(c)
        /\ \A r \in Requests :
              arg[r].op = "UploadFile" /\ result[r] = "ok" => HasContent(r)

\* The channel of the folder row with this id.
IsFolder(id, c) == \E d \in folders : d.id = id /\ d.channel = c

Posted(c) == 1..nextMessage[c] - 1

\* Rows have one id and one key each, of a folder and a message there have been,
\* and an id that was not given yet is nobody's.
IndexInv ==
    /\ RowsUnique /\ RowsAreReal
    /\ \A d \in folders : d.id < nextFolder
    /\ \A f \in files : f.id < nextFile

\* A message has an id of its own that was given to it.
MessageInv ==
    \A c \in Channels : \A x, y \in messages[c] :
        x.id < nextMessage[c] /\ (x.id = y.id => x = y)

\* What a request was called with is, or was, on Telegram.
ArgOK(r) ==
    LET a == arg[r]
    IN  /\ a.op \notin {"none", "CreateFolder", "ListFolders"} => a.channel \in Channels
        /\ a.op = "CreateFolder" /\ pc[r] \notin {"createChannel", "returned"} =>
              a.channel \in Channels /\ ~TitleOf[a.folderName].panics
        /\ a.op \in {"DownloadFile", "RenameFile", "DeleteFile", "MoveFile"} =>
              a.message \in Posted(a.channel)
        /\ a.op = "MoveFile" => a.dst \in Channels
        /\ result[r] = "ok" => pc[r] = "returned"

\* What a request looked up still says of the index what it said then: folders
\* stay, and an id is never that of another file.
LocalOK(r) ==
    LET a == arg[r]
        l == local[r]
    IN  /\ pc[r] \in {"findRow", "lookupDst", "insertDst", "upsertFile", "readBack",
                      "findToPrune", "pruneRow"} => IsFolder(l.folder, a.channel)
        /\ a.op = "MoveFile" /\ pc[r] \in {"upsertFile", "readBack"} => IsFolder(l.dst, a.dst)
        /\ a.op = "UploadFile" /\ pc[r] \notin {"upload", "returned"} =>
              l.new \in Posted(a.channel)
        /\ a.op = "MoveFile" /\ pc[r] \notin {"forward", "returned"} =>
              l.new \in Posted(a.dst)
        /\ \/ a.op \in {"RenameFile", "MoveFile"} /\ pc[r] \in {"upsertFile", "readBack"}
           \/ pc[r] \in {"lookupDst", "insertDst", "pruneRow"}
           => l.row \in FileRow /\ l.row.folder = l.folder /\ l.row.message = a.message
        /\ pc[r] = "pruneRow" =>
              /\ l.row.id < nextFile
              /\ \A f \in files : f.id = l.row.id =>
                    f.folder = l.folder /\ f.message = a.message

RequestInv == \A r \in Requests : ArgOK(r) /\ LocalOK(r)

\* A message with content x that no move is about to delete.
Kept(x) ==
    \E c \in Channels : \E m \in messages[c] :
        /\ m.content = x
        /\ \A r \in Requests :
              pc[r] = "deleteSource" => ~(arg[r].channel = c /\ arg[r].message = m.id)

\* However moves of copies of copies overlap, the youngest copy is nobody's to
\* delete.
KeptInv ==
    NoDeletes =>
        /\ \A c \in Existing : Kept(c)
        /\ \A r \in Requests :
              /\ arg[r].op = "UploadFile"
              /\ pc[r] \notin {"upload", "returned"} \/ result[r] = "ok"
              => Kept(r)

\* The inductive invariant: index, account and requests fit together, whatever
\* requests interleave and wherever they stop.
Inv == TypeOK /\ IndexInv /\ MessageInv /\ RequestInv /\ KeptInv

\* A file whose DeleteFile or MoveFile succeeded is not listed any more under
\* the folder it was deleted or moved from.
DeletedNotServed ==
    \A r \in Requests :
        arg[r].op \in {"DeleteFile", "MoveFile"} /\ result[r] = "ok" =>
            \A d \in FolderRows(arg[r].channel) : FileRows(d.id, arg[r].message) = {}

\* What ListFiles serves of channel c, and what Telegram holds there.
Listed(c) == {<<f.message, f.name>> : f \in {g \in files :
                  \E d \in FolderRows(c) : d.id = g.folder}}
Held(c)   == {<<m.id, m.name>> : m \in messages[c]}

\* Unless some request returned an error after it had begun, the index agrees
\* with every live folder on Telegram whenever no request is open: a client is
\* told of every drift it causes.
DriftIsReported ==
    InFlight = {} /\ (\A r \in Requests : result[r] \notin {"failed", "not_found"}) =>
        \A c \in Channels : life[c] = "live" => Listed(c) = Held(c)

\* Pruning a row that is gone already is a no-op success.
PruneIsIdempotent == \A r \in Requests : result[r] # "not_found"

\* A folder that was created without an error is in the index under the name
\* its creator gave it, without markers and the spaces around it.
NamedAsGiven ==
    \A r \in Requests :
        arg[r].op = "CreateFolder" /\ result[r] = "ok" =>
            \E f \in FolderRows(arg[r].channel) :
                f.name = TrimSpace(Bytes(Stripped(arg[r].folderName)))

\* ListFolders finds every folder, whatever it is called or renamed to, also
\* one whose creation failed half way.
FoldersListed ==
    /\ EveryNameIsMarked
    /\ \A c \in Channels : life[c] = "live" => IsFolderTitle(title[c])

\* No folder is in the index with a marker in its name, as DisplayName strips
\* every occurrence from the title.
NamesStripped == \A f \in folders : ~IsFolderTitle(f.name)

\* No folder is marked twice: its title carries its marker already, and to make
\* a title of it changes nothing.
MarkedOnce ==
    \A c \in Channels :
        life[c] = "live" /\ ~FolderName(title[c]).panics =>
            FolderName(title[c]).text = title[c]

\* What is promised of deleting a file: it is not served any more, and to delete
\* it twice is no error.  Where this is violated neither holds.
DeletePromises == DeletedNotServed \/ PruneIsIdempotent

\* What is promised of titles and names of folders: the index has the name that
\* was given, FolderName is idempotent and marks a folder once, and DisplayName
\* strips every marker.  Where this is violated none of it holds.
TitlePromises == NamedAsGiven \/ MarkedOnce \/ NamesStripped

=============================================================================
