---------------------------- MODULE DriveProofs -----------------------------
(***************************************************************************)
(* Proofs about Drive: Inv is inductive, so that the rows of the index are *)
(* unique and real, a prune deletes the row it is meant to delete and moves*)
(* lose no file, for any number of requests in flight, channels and names, *)
(* wherever the requests stop.                                             *)
(***************************************************************************)
EXTENDS Drive, TLAPS

-----------------------------------------------------------------------------
(* Names and stages.                                                       *)

\* There is a first name of a file, and a first name of a folder, of which a
\* title can be made.
LEMMA FirstNames ==
    /\ FirstName \in Names
    /\ FirstFolderName \in FolderNames
    /\ TitleOf[FirstFolderName].text \in FolderTitles
    /\ TitleOf[FirstFolderName].text \in ClientTitles
<1>1. FirstName \in Names
  BY DriveAssumption DEF FirstName
<1>2. \E n \in FolderNames : Harmless(n)
  BY DriveAssumption
<1>3. FirstFolderName \in FolderNames /\ Harmless(FirstFolderName)
  BY <1>2 DEF FirstFolderName
<1>4. ~TitleOf[FirstFolderName].panics
  BY <1>3 DEF Harmless, TitleOf
<1> QED
  BY <1>1, <1>3, <1>4 DEF FolderTitles, ClientTitles

\* A title that can be made is a folder's title, which clients may send along.
LEMMA MadeTitle ==
    ASSUME NEW n \in FolderNames, ~TitleOf[n].panics
    PROVE  TitleOf[n].text \in FolderTitles /\ TitleOf[n].text \in ClientTitles
BY DEF FolderTitles, ClientTitles

\* Which methods a request may run, given where it is.
LEMMA MethodAt ==
    ASSUME TypeOK, NEW r \in Requests
    PROVE  /\ pc[r] = "idle" => arg[r].op = "none"
           /\ pc[r] \in {"createChannel", "setHistoryTTL"} => arg[r].op = "CreateFolder"
           /\ pc[r] = "editTitle" => arg[r].op = "RenameFolder"
           /\ pc[r] = "deleteChannel" => arg[r].op = "DeleteFolder"
           /\ pc[r] = "upload" => arg[r].op = "UploadFile"
           /\ pc[r] = "editCaption" => arg[r].op = "RenameFile"
           /\ pc[r] = "deleteMessage" => arg[r].op = "DeleteFile"
           /\ pc[r] \in {"forward", "deleteSource", "lookupDst", "insertDst"} =>
                 arg[r].op = "MoveFile"
           /\ pc[r] \in {"lookupFolder", "insertFolder"} =>
                 arg[r].op \in {"CreateFolder", "ListFiles", "UploadFile", "RenameFile",
                                "DeleteFile", "MoveFile"}
           /\ pc[r] = "listFiles" => arg[r].op = "ListFiles"
           /\ pc[r] = "findRow" => arg[r].op \in {"RenameFile", "MoveFile"}
           /\ pc[r] \in {"upsertFile", "readBack"} =>
                 arg[r].op \in {"UploadFile", "RenameFile", "MoveFile"}
           /\ pc[r] \in {"findToPrune", "pruneRow"} =>
                 arg[r].op \in {"DeleteFile", "MoveFile"}
<1>1. arg[r].op \in Methods \cup {"none"} /\ pc[r] \in Stages(arg[r].op) \cup {"returned"}
  BY DEF TypeOK, Args
<1> DEFINE op == arg[r].op
<1>2. CASE op \in {"none", "CreateFolder", "RenameFolder", "DeleteFolder", "ListFolders"}
  BY <1>1, <1>2 DEF Stages
<1>3. CASE op \in {"ListFiles", "UploadFile", "DownloadFile", "RenameFile"}
  BY <1>1, <1>3 DEF Stages
<1>4. CASE op \in {"DeleteFile", "MoveFile"}
  BY <1>1, <1>4 DEF Stages
<1> QED
  BY <1>1, <1>2, <1>3, <1>4 DEF Methods

\* Where the methods start, and where they go once the folder is resolved.
LEMMA FirstStage == \A op \in Methods : FirstStep(op) \in Stages(op)
BY DEF FirstStep, Stages, Methods

LEMMA NextStage ==
    /\ \A op \in {"CreateFolder", "ListFiles", "UploadFile", "RenameFile",
                  "DeleteFile", "MoveFile"} :
          /\ AfterEnsure(op) \in Stages(op) \cup {"returned"}
          /\ "lookupFolder" \in Stages(op) /\ "insertFolder" \in Stages(op)
    /\ \A op \in {"UploadFile", "RenameFile", "MoveFile"} :
          "upsertFile" \in Stages(op) /\ "readBack" \in Stages(op)
    /\ \A op \in {"DeleteFile", "MoveFile"} :
          "findToPrune" \in Stages(op) /\ "pruneRow" \in Stages(op)
    /\ {"deleteSource", "lookupDst", "insertDst"} \subseteq Stages("MoveFile")
    /\ "setHistoryTTL" \in Stages("CreateFolder")
BY DEF AfterEnsure, Stages

\* A request goes to a stage of its method, or returns.
LEMMA PcStays ==
    ASSUME TypeOK, NEW r \in Requests, NEW where,
           where \in Stages(arg[r].op) \cup {"returned"},
           pc' = [pc EXCEPT ![r] = where],
           \A q \in Requests : arg'[q].op = arg[q].op
    PROVE  /\ pc' \in [Requests -> Places]
           /\ \A q \in Requests : pc'[q] \in Stages(arg'[q].op) \cup {"returned"}
<1>1. arg[r].op \in Methods \cup {"none"}
  BY DEF TypeOK, Args
<1>2. \A op \in Methods \cup {"none"} : Stages(op) \subseteq Places
  BY DEF Places
<1>3. "returned" \in Places
  BY DEF Places
<1>4. where \in Places
  BY <1>1, <1>2, <1>3
<1> QED
  BY <1>4 DEF TypeOK

-----------------------------------------------------------------------------
(* The invariant holds initially.                                          *)

\* The folders and files that are there first fit together.
LEMMA InitInv == Init => Inv
<1> SUFFICES ASSUME Init PROVE Inv
  OBVIOUS
<1> USE DriveAssumption DEF Init, Channels, Existing, Indexed, None, Ids
<1>1. TypeOK
  <2>1. \A r \in Requests : pc[r] \in Stages(arg[r].op) /\ arg[r].op = "none"
    BY DEF NoArg, Stages
  <2>2. "idle" \in Places
    BY DEF Places, Stages
  <2>3. pc \in [Requests -> Places]
    BY <2>2
  <2>4. title \in [Channels -> FolderTitles]
    BY FirstNames
  <2>5. messages \in [Channels -> SUBSET MessageRow]
    BY FirstNames DEF Contents, MessageRow
  <2>6. folders \subseteq FolderRow
    BY FirstNames DEF FolderRowNames, FolderRow
  <2>7. files \subseteq FileRow
    BY FirstNames DEF FileRow
  <2>8. arg \in [Requests -> Args]
    BY FirstNames DEF NoArg, Args
  <2>9. local \in [Requests -> Locals]
    BY DEF NoLocal, Locals
  <2>10. /\ life \in [Channels -> {"unused", "live", "deleted"}]
         /\ nextMessage \in [Channels -> Ids]
         /\ nextFolder \in Ids /\ nextFile \in Ids /\ dialect \in Dialects
         /\ result \in [Requests -> {"none", "ok", "rejected", "failed", "not_found"}]
    OBVIOUS
  <2> QED
    BY <2>1, <2>3, <2>4, <2>5, <2>6, <2>7, <2>8, <2>9, <2>10 DEF TypeOK
<1>2. IndexInv
  <2>1. RowsUnique
    BY DEF RowsUnique
  <2>2. ASSUME NEW f \in files
        PROVE  \E d \in folders : d.id = f.folder /\ f.message \in 1..nextMessage[d.channel] - 1
    <3>1. PICK c \in 1..NumIndexed :
                 f = [id |-> c, folder |-> c, message |-> 1, name |-> FirstName]
      OBVIOUS
    <3> DEFINE d == [id |-> c, channel |-> c,
                     name |-> NameOf[TitleOf[FirstFolderName].text].text]
    <3>2. d \in folders
      OBVIOUS
    <3>3. c \in 1..NumChannels /\ nextMessage[c] = 2
      OBVIOUS
    <3>4. d.id = f.folder /\ f.message \in 1..nextMessage[d.channel] - 1
      BY <3>1, <3>3
    <3> HIDE DEF d
    <3> QED
      BY <3>2, <3>4
  <2>3. \A d \in folders : d.id < nextFolder
    OBVIOUS
  <2>4. \A f \in files : f.id < nextFile
    OBVIOUS
  <2> QED
    BY <2>1, <2>2, <2>3, <2>4 DEF IndexInv, RowsAreReal
<1>3. MessageInv
  BY DEF MessageInv
<1>4. RequestInv
  BY DEF RequestInv, ArgOK, LocalOK, NoArg
<1>5. KeptInv
  <2>1. \A r \in Requests :
           arg[r].op = "none" /\ pc[r] # "deleteSource" /\ result[r] # "ok"
    BY DEF NoArg
  <2>2. ASSUME NEW c \in Existing PROVE Kept(c)
    <3> DEFINE m == [id |-> 1, content |-> c, name |-> FirstName]
    <3>1. c \in Channels /\ m \in messages[c] /\ m.content = c
      OBVIOUS
    <3> QED
      BY <2>1, <3>1 DEF Kept
  <2> QED
    BY <2>1, <2>2 DEF KeptInv
<1> QED
  BY <1>1, <1>2, <1>3, <1>4, <1>5 DEF Inv

-----------------------------------------------------------------------------
(* What the steps of one request leave true for the others.                *)

\* The index and the account grow: folders keep their ids, and files that are
\* not new keep theirs.
OnlyGrows ==
    /\ \A d \in folders : \E e \in folders' : e.id = d.id /\ e.channel = d.channel
    /\ nextFile <= nextFile'
    /\ \A f \in files' :
          \/ f.id >= nextFile
          \/ \E g \in files : g.id = f.id /\ g.folder = f.folder /\ g.message = f.message
    /\ \A c \in Channels : nextMessage[c] <= nextMessage'[c]

\* A folder stays one.
LEMMA FolderStays ==
    ASSUME OnlyGrows, NEW id, NEW c, IsFolder(id, c)
    PROVE  IsFolder(id, c)'
BY DEF OnlyGrows, IsFolder

\* An id that was given stays so.
LEMMA PostedStays ==
    ASSUME TypeOK, TypeOK', OnlyGrows, NEW c \in Channels
    PROVE  Posted(c) \subseteq Posted(c)'
BY DEF OnlyGrows, TypeOK, Posted, Ids, None

\* A request that takes no step fits the account and the index as before.
LEMMA OthersStay ==
    ASSUME TypeOK, TypeOK', OnlyGrows, NEW q \in Requests, ArgOK(q), LocalOK(q),
           pc'[q] = pc[q], arg'[q] = arg[q], local'[q] = local[q], result'[q] = result[q]
    PROVE  ArgOK(q)' /\ LocalOK(q)'
<1>1. ArgOK(q)'
  BY PostedStays DEF ArgOK
<1>2. LocalOK(q)'
  <2> DEFINE a == arg[q]
             l == local[q]
  <2>1. pc[q] \in {"findRow", "lookupDst", "insertDst", "upsertFile", "readBack",
                   "findToPrune", "pruneRow"} => IsFolder(l.folder, a.channel)'
    BY FolderStays DEF LocalOK
  <2>2. a.op = "MoveFile" /\ pc[q] \in {"upsertFile", "readBack"} => IsFolder(l.dst, a.dst)'
    BY FolderStays DEF LocalOK
  <2>3. a.op = "UploadFile" /\ pc[q] \notin {"upload", "returned"} =>
           l.new \in Posted(a.channel)'
    BY PostedStays DEF LocalOK, ArgOK
  <2>4. a.op = "MoveFile" /\ pc[q] \notin {"forward", "returned"} =>
           l.new \in Posted(a.dst)'
    BY PostedStays DEF LocalOK, ArgOK
  <2>5. pc[q] = "pruneRow" =>
           /\ l.row.id < nextFile'
           /\ \A f \in files' : f.id = l.row.id =>
                 f.folder = l.folder /\ f.message = a.message
    <3> SUFFICES ASSUME pc[q] = "pruneRow" PROVE /\ l.row.id < nextFile'
           /\ \A f \in files' : f.id = l.row.id =>
                 f.folder = l.folder /\ f.message = a.message
      OBVIOUS
    <3>1. l.row.id \in Nat /\ l.row.id < nextFile
      BY DEF LocalOK, FileRow, Ids
    <3>2. nextFile \in Nat /\ nextFile' \in Nat /\ \A f \in files' : f.id \in Nat
      BY DEF TypeOK, FileRow, Ids
    <3> QED
      BY <3>1, <3>2 DEF LocalOK, OnlyGrows
  <2> QED
    BY <2>1, <2>2, <2>3, <2>4, <2>5 DEF LocalOK
<1> QED
  BY <1>1, <1>2

\* A request that returned fits, whatever it looked up.
LEMMA ReturnedFits ==
    ASSUME TypeOK, TypeOK', OnlyGrows, NEW r \in Requests, ArgOK(r),
           pc'[r] = "returned", arg'[r] = arg[r]
    PROVE  ArgOK(r)' /\ LocalOK(r)'
<1>1. ArgOK(r)'
  BY PostedStays DEF ArgOK
<1>2. LocalOK(r)'
  BY DEF LocalOK
<1> QED
  BY <1>1, <1>2

\* Every message stays, though its name may change.
MessagesStay ==
    \A c \in Channels : \A m \in messages[c] :
        \E n \in messages'[c] : n.id = m.id /\ n.content = m.content

\* A message that no move is about to delete stays one, unless a move starts
\* to delete.
LEMMA KeptStays ==
    ASSUME NEW x, Kept(x), MessagesStay,
           \A q \in Requests : pc'[q] = "deleteSource" =>
               /\ pc[q] = "deleteSource"
               /\ arg'[q].channel = arg[q].channel /\ arg'[q].message = arg[q].message
    PROVE  Kept(x)'
<1> PICK c \in Channels : \E m \in messages[c] :
        /\ m.content = x
        /\ \A q \in Requests :
              pc[q] = "deleteSource" => ~(arg[q].channel = c /\ arg[q].message = m.id)
  BY DEF Kept
<1>1. PICK m \in messages[c] :
        /\ m.content = x
        /\ \A q \in Requests :
              pc[q] = "deleteSource" => ~(arg[q].channel = c /\ arg[q].message = m.id)
  OBVIOUS
<1>2. PICK n \in messages'[c] : n.id = m.id /\ n.content = m.content
  BY DEF MessagesStay
<1> QED
  BY <1>1, <1>2 DEF Kept

\* An upload that has posted its message.
HasPosted(r) ==
    /\ arg[r].op = "UploadFile"
    /\ pc[r] \notin {"upload", "returned"} \/ result[r] = "ok"

\* Files stay kept if messages stay, no move starts to delete and no upload posts.
LEMMA KeptInvStays ==
    ASSUME KeptInv,
           \A r \in Requests : arg'[r].op # arg[r].op => arg[r].op = "none",
           NoDeletes' => MessagesStay,
           \A q \in Requests : pc'[q] = "deleteSource" =>
               /\ pc[q] = "deleteSource"
               /\ arg'[q].channel = arg[q].channel /\ arg'[q].message = arg[q].message,
           \A r \in Requests : HasPosted(r)' => HasPosted(r)
    PROVE  KeptInv'
<1> SUFFICES ASSUME NoDeletes'
             PROVE  /\ \A c \in Existing : Kept(c)'
                    /\ \A r \in Requests : HasPosted(r)' => Kept(r)'
  BY DEF KeptInv, HasPosted
<1>1. NoDeletes
  BY DEF NoDeletes
<1> QED
  BY <1>1, KeptStays DEF KeptInv, HasPosted

\* Only request r moves.
Alone(r) ==
    \A q \in Requests \ {r} :
        /\ pc'[q] = pc[q] /\ arg'[q] = arg[q]
        /\ local'[q] = local[q] /\ result'[q] = result[q]

\* The invariant holds again once it does so of the stores and of the request
\* that moved.
LEMMA InvFrom ==
    ASSUME Inv, NEW r \in Requests, Alone(r), OnlyGrows,
           TypeOK', IndexInv', MessageInv', KeptInv', ArgOK(r)', LocalOK(r)'
    PROVE  Inv'
<1>1. ASSUME NEW q \in Requests PROVE ArgOK(q)' /\ LocalOK(q)'
  <2>1. CASE q = r
    BY <2>1
  <2>2. CASE q # r
    <3>1. ArgOK(q) /\ LocalOK(q)
      BY DEF Inv, RequestInv
    <3>2. pc'[q] = pc[q] /\ arg'[q] = arg[q] /\ local'[q] = local[q] /\ result'[q] = result[q]
      BY <2>2 DEF Alone
    <3> QED
      BY <3>1, <3>2, OthersStay DEF Inv
  <2> QED
    BY <2>1, <2>2
<1> QED
  BY <1>1 DEF Inv, RequestInv

\* Unchanged stores grow, and keep what holds of them.
LEMMA SameIndex ==
    ASSUME TypeOK, IndexInv, UNCHANGED <<indexVars, nextMessage>>
    PROVE  OnlyGrows /\ IndexInv'
<1> USE DEF indexVars
<1>1. OnlyGrows
  BY DEF OnlyGrows, TypeOK, Ids
<1>2. IndexInv'
  BY DEF IndexInv, RowsUnique, RowsAreReal
<1> QED
  BY <1>1, <1>2

LEMMA SameMessages ==
    ASSUME TypeOK, MessageInv, UNCHANGED <<messages, nextMessage>>
    PROVE  MessagesStay /\ MessageInv'
BY DEF MessagesStay, MessageInv

-----------------------------------------------------------------------------
(* Every step preserves the invariant.                                     *)

\* A request returns and leaves messages and index alone.
LEMMA InvReturn ==
    ASSUME Inv, NEW r \in Requests,
           NEW outcome \in {"ok", "rejected", "failed", "not_found"},
           outcome = "ok" => pc[r] \notin {"upload", "returned"},
           Return(r, outcome),
           life' \in [Channels -> {"unused", "live", "deleted"}],
           title' \in [Channels -> FolderTitles],
           UNCHANGED <<messages, nextMessage, indexVars, arg, local>>
    PROVE  Inv'
<1> USE DEF Return, Goto
<1>1. TypeOK'
  BY PcStays DEF Inv, TypeOK, indexVars
<1>2. OnlyGrows /\ IndexInv' /\ MessagesStay /\ MessageInv'
  BY SameIndex, SameMessages DEF Inv
<1>3. Alone(r) /\ pc'[r] = "returned" /\ arg'[r] = arg[r]
  BY DEF Alone, Inv, TypeOK
<1>4. KeptInv'
  <2>1. \A q \in Requests : pc'[q] = "deleteSource" => pc[q] = "deleteSource"
    BY DEF Inv, TypeOK
  <2>2. \A q \in Requests : HasPosted(q)' => HasPosted(q)
    BY DEF Inv, TypeOK, HasPosted
  <2> QED
    BY <1>2, <2>1, <2>2, KeptInvStays DEF Inv
<1>5. ArgOK(r)' /\ LocalOK(r)'
  BY <1>1, <1>2, <1>3, ReturnedFits DEF Inv, RequestInv
<1> QED
  BY <1>1, <1>2, <1>3, <1>4, <1>5, InvFrom

LEMMA InvReject ==
    ASSUME Inv, NEW r \in Requests, Reject(r)
    PROVE  Inv'
BY InvReturn DEF Reject, telegramVars, Inv, TypeOK

LEMMA InvFail ==
    ASSUME Inv, NEW r \in Requests, Fail(r)
    PROVE  Inv'
BY InvReturn DEF Fail, telegramVars, Inv, TypeOK

LEMMA InvPanicOnName ==
    ASSUME Inv, NEW r \in Requests, PanicOnName(r)
    PROVE  Inv'
BY InvReturn DEF PanicOnName, telegramVars, Inv, TypeOK

LEMMA InvListDialogs ==
    ASSUME Inv, NEW r \in Requests, ListDialogs(r)
    PROVE  Inv'
BY InvReturn DEF ListDialogs, telegramVars, Inv, TypeOK

LEMMA InvDownload ==
    ASSUME Inv, NEW r \in Requests, Download(r)
    PROVE  Inv'
<1>1. CASE Message(arg[r].channel, arg[r].message) = {}
  BY <1>1, InvReturn DEF Download, telegramVars, Inv, TypeOK
<1>2. CASE Message(arg[r].channel, arg[r].message) # {}
  BY <1>2, InvReturn DEF Download, telegramVars, Inv, TypeOK
<1> QED
  BY <1>1, <1>2

LEMMA InvListFiles ==
    ASSUME Inv, NEW r \in Requests, ListFiles(r)
    PROVE  Inv'
BY InvReturn DEF ListFiles, telegramVars, Inv, TypeOK

\* A rename changes the title of a channel that is there, or nothing.
LEMMA InvEditTitle ==
    ASSUME Inv, NEW r \in Requests, EditTitle(r)
    PROVE  Inv'
<1>1. title' \in [Channels -> FolderTitles]
  <2>1. arg[r].folderName \in FolderNames
    BY DEF Inv, TypeOK, Args
  <2>2. TitleOf[arg[r].folderName].text \in FolderTitles
    BY <2>1, MadeTitle DEF EditTitle
  <2> QED
    BY <2>2 DEF EditTitle, Inv, TypeOK
<1>2. life' \in [Channels -> {"unused", "live", "deleted"}]
  BY DEF EditTitle, Inv, TypeOK
<1>3. UNCHANGED <<messages, nextMessage, indexVars, arg, local>> /\ pc[r] = "editTitle"
  BY DEF EditTitle
<1>4. Return(r, "ok") \/ Return(r, "rejected")
  BY DEF EditTitle
<1> QED
  BY <1>1, <1>2, <1>3, <1>4, InvReturn

\* A request begins with arguments that fit the account.
LEMMA InvCall ==
    ASSUME Inv, NEW r \in Requests, Call(r)
    PROVE  Inv'
<1> PICK op \in Ops : \E a \in Arguments(op) :
       arg' = [arg EXCEPT ![r] = a] /\ Goto(r, FirstStep(op))
  BY DEF Call
<1> PICK a \in Arguments(op) : arg' = [arg EXCEPT ![r] = a]
  OBVIOUS
<1>1. /\ a.op = op /\ op \in Methods
      /\ a \in Args
  BY DriveAssumption DEF Arguments, None, Inv, TypeOK, Ids, Args
<1>2. pc' = [pc EXCEPT ![r] = FirstStep(op)] /\ pc[r] = "idle"
  BY DEF Call, Goto
<1>3. FirstStep(op) \in Stages(op) /\ FirstStep(op) \in Places
  BY <1>1, FirstStage DEF Places
<1>4. arg[r].op = "none"
  BY <1>2, MethodAt DEF Inv
<1>5. UNCHANGED <<telegramVars, indexVars, local, result>>
  BY DEF Call
<1>6. TypeOK'
  BY <1>1, <1>2, <1>3, <1>5 DEF Inv, TypeOK, telegramVars, indexVars
<1>7. OnlyGrows /\ IndexInv' /\ MessagesStay /\ MessageInv'
  BY <1>5, SameIndex, SameMessages DEF Inv, telegramVars
<1>8. Alone(r)
  BY <1>2, <1>5 DEF Alone, Inv, TypeOK
<1>9. pc'[r] = FirstStep(op) /\ arg'[r] = a /\ result'[r] # "ok"
  BY <1>2, <1>5 DEF Inv, TypeOK, RequestInv, ArgOK
<1>10. KeptInv'
  <2>1. ASSUME NEW q \in Requests, pc'[q] = "deleteSource"
        PROVE  pc[q] = "deleteSource" /\ arg'[q] = arg[q]
    BY <1>1, <1>2, <2>1 DEF FirstStep, Methods, Inv, TypeOK
  <2>2. ASSUME NEW q \in Requests, HasPosted(q)' PROVE HasPosted(q)
    BY <1>1, <1>8, <1>9, <2>2 DEF FirstStep, Methods, HasPosted, Alone
  <2>3. \A q \in Requests : arg'[q].op # arg[q].op => arg[q].op = "none"
    BY <1>4, <1>8 DEF Alone
  <2> QED
    BY <1>7, <2>1, <2>2, <2>3, KeptInvStays DEF Inv
<1>11. ArgOK(r)' /\ LocalOK(r)'
  BY <1>1, <1>5, <1>9 DEF FirstStep, Methods, ArgOK, LocalOK, Arguments, Posted, telegramVars
<1> QED
  BY <1>6, <1>7, <1>8, <1>10, <1>11, InvFrom


\* A request goes on, leaves index and messages alone and neither posts nor
\* starts to delete.
LEMMA GoesOn ==
    ASSUME Inv, NEW r \in Requests, NEW where,
           where \in Stages(arg[r].op), where # "deleteSource",
           arg[r].op = "UploadFile" => pc[r] # "upload",
           pc[r] # "returned", Goto(r, where),
           UNCHANGED <<messages, nextMessage, indexVars, arg, result>>,
           local' \in [Requests -> Locals],
           \A q \in Requests \ {r} : local'[q] = local[q],
           life' \in [Channels -> {"unused", "live", "deleted"}],
           title' \in [Channels -> FolderTitles],
           ArgOK(r)', LocalOK(r)'
    PROVE  Inv'
<1> USE DEF Goto
<1>1. TypeOK'
  BY PcStays DEF Inv, TypeOK, indexVars
<1>2. OnlyGrows /\ IndexInv' /\ MessagesStay /\ MessageInv'
  BY SameIndex, SameMessages DEF Inv
<1>3. Alone(r)
  BY DEF Alone, Inv, TypeOK
<1>4. KeptInv'
  <2>1. \A q \in Requests : pc'[q] = "deleteSource" => pc[q] = "deleteSource"
    BY DEF Inv, TypeOK
  <2>2. \A q \in Requests : HasPosted(q)' => HasPosted(q)
    BY DEF Inv, TypeOK, HasPosted
  <2> QED
    BY <1>2, <2>1, <2>2, KeptInvStays DEF Inv
<1> QED
  BY <1>1, <1>2, <1>3, <1>4, InvFrom

\* A new channel is live and its request knows it.
LEMMA InvCreateChannel ==
    ASSUME Inv, NEW r \in Requests, CreateChannel(r)
    PROVE  Inv'
<1> PICK c \in Channels :
       /\ life' = [life EXCEPT ![c] = "live"]
       /\ title' = [title EXCEPT ![c] = TitleOf[arg[r].folderName].text]
       /\ arg' = [arg EXCEPT ![r].channel = c]
  BY DEF CreateChannel
<1>1. /\ pc[r] = "createChannel" /\ ~TitleOf[arg[r].folderName].panics
      /\ pc' = [pc EXCEPT ![r] = "setHistoryTTL"]
      /\ UNCHANGED <<messages, nextMessage, indexVars, local, result>>
  BY DEF CreateChannel, Goto
<1>2. arg[r].op = "CreateFolder" /\ arg[r].folderName \in FolderNames
  BY <1>1, MethodAt DEF Inv, TypeOK, Args
<1>3. TypeOK'
  <2>1. \A q \in Requests : arg'[q].op = arg[q].op
    BY DEF Inv, TypeOK
  <2>2. "setHistoryTTL" \in Stages(arg[r].op)
    BY <1>2, NextStage
  <2>3. /\ pc' \in [Requests -> Places]
        /\ \A q \in Requests : pc'[q] \in Stages(arg'[q].op) \cup {"returned"}
    BY <1>1, <2>1, <2>2, PcStays DEF Inv
  <2>4. title' \in [Channels -> FolderTitles]
    BY <1>1, <1>2, MadeTitle DEF Inv, TypeOK
  <2>5. arg' \in [Requests -> Args]
    <3>1. arg \in [Requests -> Args]
      BY DEF Inv, TypeOK
    <3>2. [arg[r] EXCEPT !.channel = c] \in Args
      BY <3>1 DEF Args
    <3> QED
      BY <3>1, <3>2
  <2>6. life' \in [Channels -> {"unused", "live", "deleted"}]
    BY DEF Inv, TypeOK
  <2> QED
    BY <1>1, <2>3, <2>4, <2>5, <2>6 DEF Inv, TypeOK, indexVars
<1>4. OnlyGrows /\ IndexInv' /\ MessagesStay /\ MessageInv'
  BY <1>1, SameIndex, SameMessages DEF Inv
<1>5. Alone(r) /\ arg'[r] = [arg[r] EXCEPT !.channel = c]
  BY <1>1 DEF Alone, Inv, TypeOK
<1>6. KeptInv'
  <2>1. ASSUME NEW q \in Requests, pc'[q] = "deleteSource"
        PROVE  pc[q] = "deleteSource" /\ arg'[q] = arg[q]
    BY <1>1, <1>5, <2>1 DEF Alone, Inv, TypeOK
  <2>2. ASSUME NEW q \in Requests
        PROVE  (HasPosted(q)' => HasPosted(q)) /\ arg'[q].op = arg[q].op
    BY <1>1, <1>2, <1>5 DEF HasPosted, Alone, Inv, TypeOK
  <2> QED
    BY <1>4, <2>1, <2>2, KeptInvStays DEF Inv
<1>7. ArgOK(r)' /\ LocalOK(r)'
  <2>1. pc'[r] = "setHistoryTTL" /\ result'[r] = result[r] /\ result[r] # "ok"
    BY <1>1 DEF Inv, TypeOK, RequestInv, ArgOK
  <2> QED
    BY <1>1, <1>2, <1>5, <2>1 DEF ArgOK, LocalOK, Inv, TypeOK
<1> QED
  BY <1>3, <1>4, <1>5, <1>6, <1>7, InvFrom

LEMMA InvSetHistoryTTL ==
    ASSUME Inv, NEW r \in Requests, SetHistoryTTL(r)
    PROVE  Inv'
<1>1. pc[r] = "setHistoryTTL" /\ pc' = [pc EXCEPT ![r] = "lookupFolder"]
  BY DEF SetHistoryTTL, Goto
<1>2. UNCHANGED <<telegramVars, indexVars, arg, local, result>>
  BY DEF SetHistoryTTL
<1>3. arg[r].op = "CreateFolder" /\ "lookupFolder" \in Stages(arg[r].op)
  BY <1>1, MethodAt, NextStage DEF Inv
<1>4. pc'[r] = "lookupFolder"
  BY <1>1 DEF Inv, TypeOK
<1>5. ArgOK(r)' /\ LocalOK(r)'
  BY <1>1, <1>2, <1>3, <1>4 DEF ArgOK, LocalOK, Inv, RequestInv
<1> QED
  BY <1>1, <1>2, <1>3, <1>5, GoesOn DEF Goto, telegramVars, Inv, TypeOK

\* A request that deletes a folder takes its messages with it.
LEMMA InvDeleteChannel ==
    ASSUME Inv, NEW r \in Requests, DeleteChannel(r)
    PROVE  Inv'
<1> DEFINE c == arg[r].channel
<1>1. pc[r] = "deleteChannel" /\ arg[r].op = "DeleteFolder"
  BY MethodAt DEF DeleteChannel, Inv
<1>2. UNCHANGED <<title, nextMessage, indexVars, arg, local>>
  BY DEF DeleteChannel
<1>3. CASE life[c] = "live"
  <2>1. /\ life' = [life EXCEPT ![c] = "deleted"]
        /\ messages' = [messages EXCEPT ![c] = {}]
        /\ Return(r, "ok")
    BY <1>3 DEF DeleteChannel
  <2> HIDE DEF c
  <2>2. TypeOK'
    BY <1>2, <2>1, PcStays DEF Inv, TypeOK, indexVars, Return, Goto
  <2>3. OnlyGrows /\ IndexInv'
    BY <1>2, SameIndex DEF Inv
  <2>4. MessageInv'
    BY <1>2, <2>1 DEF MessageInv, Inv, TypeOK
  <2>5. Alone(r) /\ pc'[r] = "returned" /\ arg'[r] = arg[r]
    BY <1>2, <2>1 DEF Alone, Inv, TypeOK, Return, Goto
  <2>6. KeptInv'
    BY <1>1, <1>2 DEF KeptInv, NoDeletes
  <2>7. ArgOK(r)' /\ LocalOK(r)'
    BY <2>2, <2>3, <2>5, ReturnedFits DEF Inv, RequestInv
  <2> QED
    BY <2>2, <2>3, <2>4, <2>5, <2>6, <2>7, InvFrom
<1>4. CASE life[c] # "live"
  BY <1>2, <1>4, InvReturn DEF DeleteChannel, Inv, TypeOK
<1> QED
  BY <1>3, <1>4

\* What a request does to the messages of the account, and not to the index: it
\* goes on or returns.
LEMMA InvTelegram ==
    ASSUME Inv, NEW r \in Requests, NEW where,
           where \in Stages(arg[r].op) \cup {"returned"},
           pc' = [pc EXCEPT ![r] = where],
           UNCHANGED <<life, title, indexVars, arg, result>>,
           messages' \in [Channels -> SUBSET MessageRow],
           nextMessage' \in [Channels -> Ids],
           \A c \in Channels : nextMessage[c] <= nextMessage'[c],
           local' \in [Requests -> Locals],
           \A q \in Requests \ {r} : local'[q] = local[q],
           MessageInv', KeptInv', ArgOK(r)', LocalOK(r)'
    PROVE  Inv'
<1>1. TypeOK'
  BY PcStays DEF Inv, TypeOK, indexVars
<1>2. OnlyGrows
  BY DEF OnlyGrows, Inv, TypeOK, indexVars, Ids
<1>3. IndexInv'
  <2>1. RowsUnique' /\ (\A d \in folders' : d.id < nextFolder')
        /\ (\A f \in files' : f.id < nextFile')
    BY DEF RowsUnique, IndexInv, Inv, indexVars
  <2>2. ASSUME NEW f \in files
        PROVE  \E d \in folders : d.id = f.folder /\ f.message \in 1..nextMessage'[d.channel] - 1
    <3>1. PICK d \in folders : d.id = f.folder /\ f.message \in 1..nextMessage[d.channel] - 1
      BY DEF Inv, IndexInv, RowsAreReal
    <3>2. /\ d.channel \in Channels
          /\ nextMessage[d.channel] \in Int /\ nextMessage'[d.channel] \in Int
          /\ nextMessage[d.channel] <= nextMessage'[d.channel]
      BY DEF Inv, TypeOK, Ids, FolderRow
    <3> QED
      BY <3>1, <3>2
  <2> QED
    BY <2>1, <2>2 DEF IndexInv, RowsAreReal, indexVars
<1>4. Alone(r)
  BY DEF Alone, Inv, TypeOK
<1> QED
  BY <1>1, <1>2, <1>3, <1>4, InvFrom

\* A request deletes its own message, if the channel is there; a move may have
\* copied it before.
LEMMA InvRemove ==
    ASSUME Inv, NEW r \in Requests, NEW otherwise \in {"rejected", "failed"},
           pc[r] \in {"deleteMessage", "deleteSource"},
           RemoveMessage(r, "lookupFolder", otherwise),
           UNCHANGED <<life, title, nextMessage, indexVars, arg, local>>
    PROVE  Inv'
<1> DEFINE c == arg[r].channel
<1>1. /\ pc[r] = "deleteMessage" => arg[r].op = "DeleteFile"
      /\ pc[r] = "deleteSource" => arg[r].op = "MoveFile"
      /\ "lookupFolder" \in Stages(arg[r].op)
  BY MethodAt, NextStage DEF Inv
<1>2. CASE life[c] = "live"
  <2>1. /\ messages' = [messages EXCEPT ![c] = @ \ Message(c, arg[r].message)]
        /\ pc' = [pc EXCEPT ![r] = "lookupFolder"]
        /\ UNCHANGED result
    BY <1>2 DEF RemoveMessage, Goto
  <2> HIDE DEF c
  <2>2. messages' \in [Channels -> SUBSET MessageRow]
    BY <2>1 DEF Inv, TypeOK
  <2>3. MessageInv'
    BY <2>1 DEF Inv, TypeOK, MessageInv
  <2>4. pc'[r] = "lookupFolder"
    BY <2>1 DEF Inv, TypeOK
  <2>5. KeptInv'
    <3>1. CASE pc[r] = "deleteMessage"
      BY <1>1, <3>1 DEF KeptInv, NoDeletes
    <3>2. CASE pc[r] = "deleteSource"
      <4>1. ASSUME NEW x, Kept(x) PROVE Kept(x)'
        <5> PICK b \in Channels : \E m \in messages[b] :
                /\ m.content = x
                /\ \A q \in Requests :
                      pc[q] = "deleteSource" => ~(arg[q].channel = b /\ arg[q].message = m.id)
          BY <4>1 DEF Kept
        <5>1. PICK m \in messages[b] :
                /\ m.content = x
                /\ \A q \in Requests :
                      pc[q] = "deleteSource" => ~(arg[q].channel = b /\ arg[q].message = m.id)
          OBVIOUS
        <5>2. m \in messages'[b]
          BY <2>1, <3>2, <5>1 DEF Inv, TypeOK, Message, c
        <5>3. \A q \in Requests : pc'[q] = "deleteSource" => pc[q] = "deleteSource"
          BY <2>1 DEF Inv, TypeOK
        <5> QED
          BY <5>1, <5>2, <5>3 DEF Kept
      <4>2. \A q \in Requests : HasPosted(q)' => HasPosted(q)
        BY <1>1, <2>1, <3>2 DEF HasPosted, Inv, TypeOK
      <4>3. NoDeletes' => NoDeletes
        BY DEF NoDeletes
      <4>4. KeptInv
        BY DEF Inv
      <4> QED
        BY <4>1, <4>2, <4>3, <4>4 DEF KeptInv, HasPosted
    <3> QED
      BY <3>1, <3>2
  <2>6. ArgOK(r)' /\ LocalOK(r)'
    BY <1>1, <2>1, <2>4 DEF ArgOK, LocalOK, Posted, Inv, RequestInv
  <2>7. /\ nextMessage' \in [Channels -> Ids]
        /\ \A b \in Channels : nextMessage[b] <= nextMessage'[b]
        /\ local' \in [Requests -> Locals]
    BY DEF Inv, TypeOK, Ids
  <2> QED
    BY <1>1, <2>1, <2>2, <2>3, <2>5, <2>6, <2>7, InvTelegram
<1>3. CASE life[c] # "live"
  BY <1>3, InvReturn DEF RemoveMessage, Inv, TypeOK
<1> QED
  BY <1>2, <1>3

LEMMA InvDeleteMessage ==
    ASSUME Inv, NEW r \in Requests, DeleteMessage(r)
    PROVE  Inv'
BY InvRemove DEF DeleteMessage

LEMMA InvDeleteSource ==
    ASSUME Inv, NEW r \in Requests, DeleteSource(r)
    PROVE  Inv'
BY InvRemove DEF DeleteSource

\* A caption is edited where it is: message and content stay.
LEMMA InvEditCaption ==
    ASSUME Inv, NEW r \in Requests, EditCaption(r)
    PROVE  Inv'
<1> DEFINE c == arg[r].channel
           m == Message(c, arg[r].message)
<1>1. /\ pc[r] = "editCaption" /\ arg[r].op = "RenameFile"
      /\ UNCHANGED <<life, title, nextMessage, indexVars, arg, local>>
  BY MethodAt DEF EditCaption, Inv
<1>2. CASE m # {}
  <2>1. /\ messages' = [messages EXCEPT ![c] =
              (@ \ m) \cup {[x EXCEPT !.name = arg[r].name] : x \in m}]
        /\ pc' = [pc EXCEPT ![r] = "lookupFolder"]
        /\ UNCHANGED result
    BY <1>2 DEF EditCaption, Goto
  <2>2. c \in Channels /\ arg[r].name \in Names
    BY <1>1 DEF Inv, TypeOK, RequestInv, ArgOK, Args
  <2>3. m \subseteq messages[c]
    BY DEF Message
  <2>4. \A x \in messages[c] : x \in MessageRow
    BY <2>2 DEF Inv, TypeOK
  <2> DEFINE edited == {[x EXCEPT !.name = arg[r].name] : x \in m}
  <2>5. edited \subseteq MessageRow
    BY <2>2, <2>3, <2>4 DEF MessageRow
  <2>6. messages'[c] = (messages[c] \ m) \cup edited
        /\ \A b \in Channels \ {c} : messages'[b] = messages[b]
    BY <2>1, <2>2 DEF Inv, TypeOK
  <2>7. messages' \in [Channels -> SUBSET MessageRow]
    BY <2>1, <2>2, <2>5 DEF Inv, TypeOK
  <2>8. /\ \A x \in messages'[c] : \E y \in messages[c] :
              /\ y.id = x.id /\ y.content = x.content
              /\ (y \in m /\ x.name = arg[r].name) \/ (y \notin m /\ x = y)
        /\ \A y \in messages[c] : \E x \in messages'[c] : y.id = x.id /\ y.content = x.content
    <3>1. \A y \in m : /\ [y EXCEPT !.name = arg[r].name].id = y.id
                      /\ [y EXCEPT !.name = arg[r].name].content = y.content
                      /\ [y EXCEPT !.name = arg[r].name].name = arg[r].name
      BY <2>3, <2>4
    <3>2. \A y \in m : [y EXCEPT !.name = arg[r].name] \in edited
      OBVIOUS
    <3>3. \A x \in edited : \E y \in m : x = [y EXCEPT !.name = arg[r].name]
      OBVIOUS
    <3> HIDE DEF edited, m
    <3>4. ASSUME NEW x \in messages'[c]
          PROVE  \E y \in messages[c] :
                    /\ y.id = x.id /\ y.content = x.content
                    /\ (y \in m /\ x.name = arg[r].name) \/ (y \notin m /\ x = y)
      <4>1. CASE x \in edited
        <5>1. PICK y \in m : x = [y EXCEPT !.name = arg[r].name]
          BY <3>3, <4>1
        <5>2. y.id = x.id /\ y.content = x.content /\ x.name = arg[r].name
          BY <3>1, <5>1
        <5> QED
          BY <2>3, <5>2
      <4>2. CASE x \in messages[c] /\ x \notin m
        BY <4>2
      <4> QED
        BY <2>6, <4>1, <4>2
    <3>5. ASSUME NEW y \in messages[c]
          PROVE  \E x \in messages'[c] : y.id = x.id /\ y.content = x.content
      <4>1. CASE y \in m
        BY <2>6, <3>1, <3>2, <4>1
      <4>2. CASE y \notin m
        BY <2>6, <4>2
      <4> QED
        BY <4>1, <4>2
    <3> QED
      BY <3>4, <3>5
  <2>9. MessageInv'
    <3> SUFFICES ASSUME NEW b \in Channels, NEW x \in messages'[b], NEW y \in messages'[b]
                 PROVE  x.id < nextMessage[b] /\ (x.id = y.id => x = y)
      BY <1>1 DEF MessageInv
    <3>1. CASE b # c
      BY <2>6, <3>1 DEF Inv, MessageInv
    <3>2. CASE b = c
      <4>1. PICK u \in messages[c] :
              /\ u.id = x.id /\ u.content = x.content
              /\ (u \in m /\ x.name = arg[r].name) \/ (u \notin m /\ x = u)
        BY <2>8, <3>2
      <4>2. PICK v \in messages[c] :
              /\ v.id = y.id /\ v.content = y.content
              /\ (v \in m /\ y.name = arg[r].name) \/ (v \notin m /\ y = v)
        BY <2>8, <3>2
      <4>3. x.id < nextMessage[b]
        BY <2>2, <3>2, <4>1 DEF Inv, MessageInv
      <4>4. ASSUME x.id = y.id PROVE x = y
        <5>1. u = v
          BY <2>2, <4>1, <4>2, <4>4 DEF Inv, MessageInv
        <5>2. /\ x \in MessageRow
              /\ y \in MessageRow
          BY <2>7
        <5> QED
          BY <4>1, <4>2, <4>4, <5>1, <5>2 DEF MessageRow
      <4> QED
        BY <4>3, <4>4
    <3> QED
      BY <3>1, <3>2
  <2>10. KeptInv'
    <3>1. MessagesStay
      BY <2>6, <2>8 DEF MessagesStay
    <3>2. \A q \in Requests : pc'[q] = "deleteSource" => pc[q] = "deleteSource"
      BY <2>1 DEF Inv, TypeOK
    <3>3. \A q \in Requests : HasPosted(q)' => HasPosted(q)
      BY <1>1, <2>1 DEF HasPosted, Inv, TypeOK
    <3> QED
      BY <1>1, <3>1, <3>2, <3>3, KeptInvStays DEF Inv
  <2>11. ArgOK(r)' /\ LocalOK(r)'
    <3>1. pc'[r] = "lookupFolder"
      BY <2>1 DEF Inv, TypeOK
    <3> QED
      BY <1>1, <2>1, <3>1 DEF ArgOK, LocalOK, Posted, Inv, RequestInv
  <2>12. /\ nextMessage' \in [Channels -> Ids]
         /\ \A b \in Channels : nextMessage[b] <= nextMessage'[b]
         /\ local' \in [Requests -> Locals]
    BY <1>1 DEF Inv, TypeOK, Ids
  <2>13. "lookupFolder" \in Stages(arg[r].op)
    BY <1>1, NextStage
  <2> QED
    BY <1>1, <2>1, <2>7, <2>9, <2>10, <2>11, <2>12, <2>13, InvTelegram
<1>3. CASE m = {}
  BY <1>1, <1>3, InvReturn DEF EditCaption, Inv, TypeOK
<1> QED
  BY <1>2, <1>3

\* A new message with content x is posted to channel c; its id is nobody's yet.
LEMMA PostFits ==
    ASSUME Inv, NEW r \in Requests, NEW c \in Channels, NEW x \in Contents, NEW n \in Names,
           Post(r, c, x, n)
    PROVE  /\ messages' \in [Channels -> SUBSET MessageRow]
           /\ nextMessage' \in [Channels -> Ids]
           /\ \A b \in Channels : nextMessage[b] <= nextMessage'[b]
           /\ local' \in [Requests -> Locals]
           /\ \A q \in Requests \ {r} : local'[q] = local[q]
           /\ local'[r] = [local[r] EXCEPT !.new = nextMessage[c]]
           /\ nextMessage[c] \in Posted(c)'
           /\ \A b \in Channels : Posted(b) \subseteq Posted(b)'
           /\ MessageInv'
           /\ MessagesStay
           /\ \E m \in messages'[c] : m.content = x /\ m.id = nextMessage[c]
<1> DEFINE new == [id |-> nextMessage[c], content |-> x, name |-> n]
<1>1. /\ messages' = [messages EXCEPT ![c] = @ \cup {new}]
      /\ nextMessage' = [nextMessage EXCEPT ![c] = @ + 1]
      /\ local' = [local EXCEPT ![r].new = nextMessage[c]]
  BY DEF Post
<1>2. nextMessage[c] \in Ids
  BY DEF Inv, TypeOK
<1>3. new \in MessageRow
      /\ new.id = nextMessage[c] /\ new.content = x
  BY <1>2 DEF MessageRow
<1> HIDE DEF new
<1>4. messages'[c] = messages[c] \cup {new}
      /\ \A b \in Channels \ {c} : messages'[b] = messages[b]
  BY <1>1 DEF Inv, TypeOK
<1>5. messages' \in [Channels -> SUBSET MessageRow]
  BY <1>1, <1>3 DEF Inv, TypeOK
<1>6. /\ nextMessage' \in [Channels -> Ids]
      /\ nextMessage'[c] = nextMessage[c] + 1
      /\ \A b \in Channels \ {c} : nextMessage'[b] = nextMessage[b]
      /\ \A b \in Channels : nextMessage[b] <= nextMessage'[b]
  BY <1>1 DEF Inv, TypeOK, Ids, None
<1>7. /\ local' \in [Requests -> Locals]
      /\ \A q \in Requests \ {r} : local'[q] = local[q]
      /\ local'[r] = [local[r] EXCEPT !.new = nextMessage[c]]
  <2>1. local \in [Requests -> Locals]
    BY DEF Inv, TypeOK
  <2>2. [local[r] EXCEPT !.new = nextMessage[c]] \in Locals
    BY <1>2, <2>1 DEF Ids, Locals
  <2> QED
    BY <1>1, <2>1, <2>2
<1>8. nextMessage[c] \in Posted(c)'
  BY <1>2, <1>6 DEF Posted, Ids, None
<1>9. \A b \in Channels : Posted(b) \subseteq Posted(b)'
  BY <1>6 DEF Posted, Ids, Inv, TypeOK
<1>10. MessageInv'
  <2> SUFFICES ASSUME NEW b \in Channels, NEW y \in messages'[b], NEW z \in messages'[b]
               PROVE  y.id < nextMessage'[b] /\ (y.id = z.id => y = z)
    BY DEF MessageInv
  <2>1. CASE b # c
    BY <1>4, <1>6, <2>1 DEF Inv, MessageInv
  <2>2. CASE b = c
    <3>1. \A u \in messages[c] : u.id \in Nat /\ u.id < nextMessage[c]
      BY DEF Inv, TypeOK, Ids, MessageInv, MessageRow
    <3>2. \A u, v \in messages[c] : u.id = v.id => u = v
      BY DEF Inv, MessageInv
    <3> QED
      BY <1>2, <1>3, <1>4, <1>6, <2>2, <3>1, <3>2 DEF Ids
  <2> QED
    BY <2>1, <2>2
<1>11. MessagesStay
  BY <1>4 DEF MessagesStay
<1>12. \E m \in messages'[c] : m.content = x /\ m.id = nextMessage[c]
  BY <1>3, <1>4
<1> QED
  BY <1>5, <1>6, <1>7, <1>8, <1>9, <1>10, <1>11, <1>12

\* Nobody is about to delete a message that was only just posted.
LEMMA NewIsKept ==
    ASSUME Inv, NEW x, NEW c \in Channels,
           \E m \in messages'[c] : m.content = x /\ m.id = nextMessage[c],
           \A q \in Requests :
              /\ arg'[q] = arg[q]
              /\ pc'[q] = "deleteSource" => pc[q] \in {"forward", "deleteSource"}
    PROVE  Kept(x)'
<1>1. PICK m \in messages'[c] : m.content = x /\ m.id = nextMessage[c]
  OBVIOUS
<1>2. ASSUME NEW q \in Requests, pc'[q] = "deleteSource"
      PROVE  ~(arg'[q].channel = c /\ arg'[q].message = nextMessage[c])
  <2>1. arg[q].op = "MoveFile"
    BY <1>2, MethodAt DEF Inv
  <2>2. arg[q].message \in Posted(arg[q].channel)
    BY <2>1 DEF Inv, RequestInv, ArgOK
  <2>3. nextMessage[c] \in Nat
    BY DEF Inv, TypeOK, Ids
  <2> QED
    BY <2>2, <2>3 DEF Posted
<1> QED
  BY <1>1, <1>2 DEF Kept

\* An upload posts its message and learns its id.
LEMMA InvUpload ==
    ASSUME Inv, NEW r \in Requests, Upload(r)
    PROVE  Inv'
<1>1. /\ pc[r] = "upload" /\ arg[r].op = "UploadFile"
      /\ UNCHANGED <<life, title, indexVars, arg>>
  BY MethodAt DEF Upload, Inv
<1> PICK c \in Channels, x \in Names : c = arg[r].channel /\ x = arg[r].name
  BY <1>1 DEF Inv, TypeOK, RequestInv, ArgOK, Args
<1>2. r \in Contents
  BY DEF Contents
<1>3. CASE life[c] = "live"
  <2>1. /\ Post(r, c, r, x) /\ UNCHANGED result
        /\ pc' = [pc EXCEPT ![r] = "lookupFolder"]
    BY <1>3 DEF Upload, Goto
  <2>2. /\ messages' \in [Channels -> SUBSET MessageRow]
        /\ nextMessage' \in [Channels -> Ids]
        /\ \A b \in Channels : nextMessage[b] <= nextMessage'[b]
        /\ local' \in [Requests -> Locals]
        /\ \A q \in Requests \ {r} : local'[q] = local[q]
        /\ local'[r] = [local[r] EXCEPT !.new = nextMessage[c]]
        /\ nextMessage[c] \in Posted(c)'
        /\ \A b \in Channels : Posted(b) \subseteq Posted(b)'
        /\ MessageInv'
        /\ MessagesStay
        /\ \E m \in messages'[c] : m.content = r /\ m.id = nextMessage[c]
    BY <1>2, <2>1, PostFits
  <2>3. pc'[r] = "lookupFolder" /\ \A q \in Requests \ {r} : pc'[q] = pc[q]
    BY <2>1 DEF Inv, TypeOK
  <2>4. KeptInv'
    <3>1. \A q \in Requests : pc'[q] = "deleteSource" => pc[q] = "deleteSource"
      BY <2>3
    <3>2. Kept(r)'
      BY <1>1, <1>2, <2>2, <3>1, NewIsKept
    <3>3. \A b \in Existing : Kept(b) => Kept(b)'
      BY <1>1, <2>2, <3>1, KeptStays
    <3>4. \A q \in Requests : Kept(q) => Kept(q)'
      BY <1>1, <2>2, <3>1, KeptStays
    <3>5. \A q \in Requests \ {r} : HasPosted(q)' => HasPosted(q)
      BY <1>1, <2>1, <2>3 DEF HasPosted
    <3>6. NoDeletes' => NoDeletes
      BY <1>1 DEF NoDeletes
    <3>7. KeptInv
      BY DEF Inv
    <3> QED
      BY <3>2, <3>3, <3>4, <3>5, <3>6, <3>7 DEF KeptInv, HasPosted
  <2>5. "lookupFolder" \in Stages(arg[r].op)
    BY <1>1, NextStage
  <2>6. ArgOK(r)' /\ LocalOK(r)'
    <3>1. local[r] \in Locals
      BY DEF Inv, TypeOK
    <3>2. local'[r].new \in Posted(arg[r].channel)'
      BY <2>2, <3>1, <1>1
    <3>3. ArgOK(r) /\ result'[r] = result[r] /\ arg'[r] = arg[r]
      BY <1>1, <2>1 DEF Inv, RequestInv
    <3>4. ArgOK(r)'
      BY <1>1, <2>3, <3>3 DEF ArgOK
    <3>5. LocalOK(r)'
      BY <1>1, <2>3, <3>2, <3>3 DEF LocalOK
    <3> QED
      BY <3>4, <3>5
  <2> QED
    BY <1>1, <2>1, <2>2, <2>4, <2>5, <2>6, InvTelegram
<1>4. CASE life[c] # "live"
  BY <1>1, <1>4, InvReturn DEF Upload, Inv, TypeOK
<1> QED
  BY <1>3, <1>4

\* A move copies its message before it starts to delete it: whatever was kept by
\* the message is now kept by the copy.
LEMMA InvForward ==
    ASSUME Inv, NEW r \in Requests, Forward(r)
    PROVE  Inv'
<1>1. /\ pc[r] = "forward" /\ arg[r].op = "MoveFile"
      /\ UNCHANGED <<life, title, indexVars, arg>>
  BY MethodAt DEF Forward, Inv
<1> PICK src \in Channels, c \in Channels : src = arg[r].channel /\ c = arg[r].dst
  BY <1>1 DEF Inv, RequestInv, ArgOK
<1>2. arg[r].message \in Posted(src)
  BY <1>1 DEF Inv, RequestInv, ArgOK
<1>3. ASSUME NEW x \in Message(src, arg[r].message), Post(r, c, x.content, x.name),
             Goto(r, "deleteSource"), UNCHANGED result
      PROVE  Inv'
  <2>1. pc' = [pc EXCEPT ![r] = "deleteSource"] /\ UNCHANGED result
    BY <1>3 DEF Goto
  <2>2. x \in messages[src] /\ x.id = arg[r].message
        /\ x.content \in Contents /\ x.name \in Names
    BY DEF Message, Inv, TypeOK, MessageRow
  <2>3. /\ messages' \in [Channels -> SUBSET MessageRow]
        /\ nextMessage' \in [Channels -> Ids]
        /\ \A b \in Channels : nextMessage[b] <= nextMessage'[b]
        /\ local' \in [Requests -> Locals]
        /\ \A q \in Requests \ {r} : local'[q] = local[q]
        /\ local'[r] = [local[r] EXCEPT !.new = nextMessage[c]]
        /\ nextMessage[c] \in Posted(c)'
        /\ \A b \in Channels : Posted(b) \subseteq Posted(b)'
        /\ MessageInv'
        /\ MessagesStay
        /\ \E m \in messages'[c] : m.content = x.content /\ m.id = nextMessage[c]
    BY <1>2, <1>3, <2>2, PostFits
  <2>4. pc'[r] = "deleteSource" /\ \A q \in Requests \ {r} : pc'[q] = pc[q]
    BY <2>1 DEF Inv, TypeOK
  <2>5. ASSUME NEW y, Kept(y) PROVE Kept(y)'
    <3> PICK b \in Channels : \E m \in messages[b] :
            /\ m.content = y
            /\ \A q \in Requests :
                  pc[q] = "deleteSource" => ~(arg[q].channel = b /\ arg[q].message = m.id)
      BY <2>5 DEF Kept
    <3>1. PICK m \in messages[b] :
            /\ m.content = y
            /\ \A q \in Requests :
                  pc[q] = "deleteSource" => ~(arg[q].channel = b /\ arg[q].message = m.id)
      OBVIOUS
    <3>2. CASE b = src /\ m.id = arg[r].message
      <4>1. m = x
        BY <1>2, <2>2, <3>1, <3>2 DEF Inv, MessageInv
      <4>2. \A q \in Requests : pc'[q] = "deleteSource" => pc[q] \in {"forward", "deleteSource"}
        BY <1>1, <2>4
      <4> QED
        BY <1>1, <1>2, <2>3, <3>1, <4>1, <4>2, NewIsKept
    <3>3. CASE ~(b = src /\ m.id = arg[r].message)
      <4>1. PICK n \in messages'[b] : n.id = m.id /\ n.content = m.content
        BY <2>3 DEF MessagesStay
      <4>2. \A q \in Requests :
                pc'[q] = "deleteSource" => ~(arg'[q].channel = b /\ arg'[q].message = n.id)
        BY <1>1, <2>4, <3>1, <3>3, <4>1
      <4> QED
        BY <3>1, <4>1, <4>2 DEF Kept
    <3> QED
      BY <3>2, <3>3
  <2>6. KeptInv'
    <3>1. \A q \in Requests : HasPosted(q)' => HasPosted(q)
      BY <1>1, <2>1, <2>4 DEF HasPosted
    <3>2. NoDeletes' => NoDeletes
      BY <1>1 DEF NoDeletes
    <3>3. KeptInv
      BY DEF Inv
    <3> QED
      BY <2>5, <3>1, <3>2, <3>3 DEF KeptInv, HasPosted
  <2>7. "deleteSource" \in Stages(arg[r].op)
    BY <1>1, NextStage
  <2>8. ArgOK(r)' /\ LocalOK(r)'
    <3>1. local[r] \in Locals
      BY DEF Inv, TypeOK
    <3>2. local'[r].new \in Posted(arg[r].dst)'
      BY <2>3, <3>1, <1>1
    <3>3. ArgOK(r) /\ result'[r] = result[r] /\ arg'[r] = arg[r]
      BY <1>1, <2>1 DEF Inv, RequestInv
    <3>4. arg[r].message \in Posted(arg[r].channel)'
      BY <1>1, <1>2, <2>3
    <3>5. ArgOK(r)'
      BY <1>1, <2>4, <3>3, <3>4 DEF ArgOK
    <3>6. LocalOK(r)'
      BY <1>1, <2>4, <3>2, <3>3 DEF LocalOK
    <3> QED
      BY <3>5, <3>6
  <2> QED
    BY <1>1, <2>1, <2>3, <2>6, <2>7, <2>8, InvTelegram
<1>4. ASSUME Return(r, "rejected"), UNCHANGED <<messages, nextMessage, local>>
      PROVE  Inv'
  BY <1>1, <1>4, InvReturn DEF Inv, TypeOK
<1> QED
  BY <1>3, <1>4 DEF Forward

\* What a request does to the index, and not to the account: it goes on or returns.
LEMMA InvIndex ==
    ASSUME Inv, NEW r \in Requests, NEW where,
           NEW outcome \in {"ok", "rejected", "failed", "not_found"},
           where \in Stages(arg[r].op) \cup {"returned"}, where # "deleteSource",
           pc[r] \notin {"upload", "returned"},
           pc' = [pc EXCEPT ![r] = where],
           UNCHANGED result \/ result' = [result EXCEPT ![r] = outcome],
           UNCHANGED <<telegramVars, dialect, arg>>,
           folders' \subseteq FolderRow,
           files' \subseteq FileRow,
           nextFolder' \in Ids, nextFile' \in Ids,
           local' \in [Requests -> Locals],
           \A q \in Requests \ {r} : local'[q] = local[q],
           OnlyGrows, IndexInv', ArgOK(r)', LocalOK(r)'
    PROVE  Inv'
<1> USE DEF telegramVars
<1>1. TypeOK'
  <2>1. /\ pc' \in [Requests -> Places]
        /\ \A q \in Requests : pc'[q] \in Stages(arg'[q].op) \cup {"returned"}
    BY PcStays DEF Inv
  <2>2. result' \in [Requests -> {"none", "ok", "rejected", "failed", "not_found"}]
    BY DEF Inv, TypeOK
  <2> QED
    BY <2>1, <2>2 DEF Inv, TypeOK
<1>2. Alone(r)
  BY DEF Alone, Inv, TypeOK
<1>3. MessagesStay /\ MessageInv'
  BY SameMessages DEF Inv
<1>4. KeptInv'
  <2>1. \A q \in Requests : pc'[q] = "deleteSource" => pc[q] = "deleteSource"
    BY DEF Inv, TypeOK
  <2>2. \A q \in Requests : HasPosted(q)' => HasPosted(q)
    BY DEF Inv, TypeOK, HasPosted
  <2> QED
    BY <1>3, <2>1, <2>2, KeptInvStays DEF Inv
<1> QED
  BY <1>1, <1>2, <1>3, <1>4, InvFrom

\* A statement is done, and the request ends because it is reported as failed.
LEMMA InvFailAfter ==
    ASSUME Inv, NEW r \in Requests, pc[r] \notin {"upload", "returned"}, FailAfter(r),
           UNCHANGED <<telegramVars, dialect, arg>>,
           folders' \subseteq FolderRow, files' \subseteq FileRow,
           nextFolder' \in Ids, nextFile' \in Ids, OnlyGrows, IndexInv'
    PROVE  Inv'
<1>1. /\ pc' = [pc EXCEPT ![r] = "returned"] /\ pc'[r] = "returned"
      /\ result' = [result EXCEPT ![r] = "failed"] /\ result'[r] = "failed"
      /\ UNCHANGED local
  BY DEF FailAfter, Return, Goto, Inv, TypeOK
<1>2. /\ local' \in [Requests -> Locals]
      /\ \A q \in Requests \ {r} : local'[q] = local[q]
  BY <1>1 DEF Inv, TypeOK
<1>3. ArgOK(r)'
  BY <1>1 DEF ArgOK, Inv, RequestInv, Posted, telegramVars
<1>4. LocalOK(r)'
  BY <1>1 DEF LocalOK
<1> QED
  BY <1>1, <1>2, <1>3, <1>4, InvIndex

\* A request goes on with the row of its folder, found or inserted.
LEMMA InvResolved ==
    ASSUME Inv, NEW r \in Requests, pc[r] \in {"lookupFolder", "insertFolder"},
           NEW f \in folders', f.channel = arg[r].channel, Resolved(r, f),
           UNCHANGED <<telegramVars, files, nextFile, dialect, arg>>,
           folders' \subseteq FolderRow,
           nextFolder' \in Ids, OnlyGrows, IndexInv'
    PROVE  Inv'
<1> DEFINE a == arg[r]
           where == AfterEnsure(a.op)
<1>1. a.op \in {"CreateFolder", "ListFiles", "UploadFile", "RenameFile",
                "DeleteFile", "MoveFile"}
  BY MethodAt DEF Inv
<1>2. /\ local' = [local EXCEPT ![r].folder = f.id]
      /\ pc' = [pc EXCEPT ![r] = where]
      /\ result' = IF a.op = "CreateFolder" THEN [result EXCEPT ![r] = "ok"] ELSE result
  BY DEF Resolved, Goto
<1>3. where \in Stages(a.op) \cup {"returned"}
  BY <1>1, NextStage
<1>4. /\ local' \in [Requests -> Locals]
      /\ \A q \in Requests \ {r} : local'[q] = local[q]
      /\ local'[r] = [local[r] EXCEPT !.folder = f.id]
  <2>1. local \in [Requests -> Locals]
    BY DEF Inv, TypeOK
  <2>2. [local[r] EXCEPT !.folder = f.id] \in Locals
    BY <2>1 DEF Ids, Locals, FolderRow
  <2> QED
    BY <1>2, <2>1, <2>2
<1>5. local[r] \in Locals
  BY DEF Inv, TypeOK
<1>6. pc'[r] = where /\ arg'[r] = a /\ UNCHANGED nextMessage
      /\ (result'[r] = "ok" => a.op = "CreateFolder" \/ result[r] = "ok")
  BY <1>2 DEF Inv, TypeOK, telegramVars
<1>7. IsFolder(local[r].folder, arg[r].channel)'
  BY <1>4, <1>5, <1>6 DEF IsFolder
<1>8. ArgOK(r) /\ LocalOK(r)
  BY DEF Inv, RequestInv
<1>9. ArgOK(r)' /\ LocalOK(r)'
  <2>1. a.op = "CreateFolder" => where = "returned"
    BY DEF AfterEnsure
  <2>2. /\ where \notin {"deleteSource", "lookupDst", "insertDst", "readBack", "pruneRow",
                         "upload", "forward", "createChannel"}
        /\ where = "upsertFile" => a.op = "UploadFile"
    BY <1>1 DEF AfterEnsure
  <2> HIDE DEF where
  <2>3. ArgOK(r)'
    BY <1>6, <1>8, <2>1 DEF ArgOK, Posted
  <2>4. LocalOK(r)'
    BY <1>4, <1>5, <1>6, <1>7, <1>8, <2>2 DEF LocalOK, Posted
  <2> QED
    BY <2>3, <2>4
<1>10. where # "deleteSource"
  BY <1>1 DEF AfterEnsure
<1>11. UNCHANGED result \/ result' = [result EXCEPT ![r] = "ok"]
  BY <1>2
<1>12. files' \subseteq FileRow /\ nextFile' \in Ids
  BY DEF Inv, TypeOK
<1> HIDE DEF where, a
<1> QED
  BY <1>2, <1>3, <1>4, <1>9, <1>10, <1>11, <1>12, InvIndex DEF a

\* ... and with the row of the destination.
LEMMA InvResolvedDst ==
    ASSUME Inv, NEW r \in Requests, pc[r] \in {"lookupDst", "insertDst"},
           NEW f \in folders', f.channel = arg[r].dst, ResolvedDst(r, f),
           UNCHANGED <<telegramVars, files, nextFile, dialect, arg>>,
           folders' \subseteq FolderRow,
           nextFolder' \in Ids, OnlyGrows, IndexInv'
    PROVE  Inv'
<1> DEFINE a == arg[r]
<1>1. a.op = "MoveFile"
  BY MethodAt DEF Inv
<1>2. /\ local' = [local EXCEPT ![r].dst = f.id]
      /\ pc' = [pc EXCEPT ![r] = "upsertFile"]
      /\ UNCHANGED result
  BY DEF ResolvedDst, Goto
<1>3. "upsertFile" \in Stages(a.op)
  BY <1>1, NextStage
<1>4. /\ local' \in [Requests -> Locals]
      /\ \A q \in Requests \ {r} : local'[q] = local[q]
      /\ local'[r] = [local[r] EXCEPT !.dst = f.id]
  <2>1. local \in [Requests -> Locals]
    BY DEF Inv, TypeOK
  <2>2. [local[r] EXCEPT !.dst = f.id] \in Locals
    BY <2>1 DEF Ids, Locals, FolderRow
  <2> QED
    BY <1>2, <2>1, <2>2
<1>5. local[r] \in Locals
  BY DEF Inv, TypeOK
<1>6. pc'[r] = "upsertFile" /\ arg'[r] = a /\ UNCHANGED nextMessage /\ UNCHANGED result
  BY <1>2 DEF Inv, TypeOK, telegramVars
<1>7. IsFolder(local[r].dst, arg[r].dst)'
  BY <1>4, <1>5, <1>6 DEF IsFolder
<1>8. ArgOK(r) /\ LocalOK(r)
  BY DEF Inv, RequestInv
<1>9. ArgOK(r)'
  BY <1>1, <1>6, <1>8 DEF ArgOK, Posted
<1>10. LocalOK(r)'
  <2>1. local'[r].new = local[r].new /\ local'[r].row = local[r].row
        /\ local'[r].folder = local[r].folder
    BY <1>4, <1>5
  <2>2. IsFolder(local[r].folder, arg[r].channel)'
    <3>1. IsFolder(local[r].folder, arg[r].channel)
      BY <1>8 DEF LocalOK
    <3> QED
      BY <1>6, <2>1, <3>1 DEF IsFolder, OnlyGrows
  <2> QED
    BY <1>1, <1>6, <1>7, <1>8, <2>1, <2>2 DEF LocalOK, Posted
<1>11. files' \subseteq FileRow /\ nextFile' \in Ids
  BY DEF Inv, TypeOK
<1> QED
  BY <1>2, <1>3, <1>4, <1>9, <1>10, <1>11, InvIndex

LEMMA InvLookupFolder ==
    ASSUME Inv, NEW r \in Requests, LookupFolder(r)
    PROVE  Inv'
<1>1. UNCHANGED <<telegramVars, indexVars, arg>>
  BY DEF LookupFolder
<1>2. /\ folders' \subseteq FolderRow
      /\ nextFolder' \in Ids /\ UNCHANGED <<folders, files, nextFile, dialect>>
  BY <1>1 DEF Inv, TypeOK, indexVars
<1>3. OnlyGrows /\ IndexInv'
  BY <1>1, SameIndex DEF Inv, telegramVars
<1>4. ASSUME pc[r] = "lookupFolder",
             NEW f \in FolderRows(arg[r].channel), Resolved(r, f)
      PROVE  Inv'
  BY <1>1, <1>2, <1>3, <1>4, InvResolved DEF FolderRows
<1>5. ASSUME pc[r] = "lookupDst",
             NEW f \in FolderRows(arg[r].dst), ResolvedDst(r, f)
      PROVE  Inv'
  BY <1>1, <1>2, <1>3, <1>5, InvResolvedDst DEF FolderRows
<1>6. ASSUME NEW where, UNCHANGED <<local, result>>, Goto(r, where),
             \/ pc[r] = "lookupFolder" /\ where = "insertFolder"
             \/ pc[r] = "lookupDst" /\ where = "insertDst"
      PROVE  Inv'
  <2>1. where \in Stages(arg[r].op)
    BY <1>6, MethodAt, NextStage DEF Inv
  <2>2. pc'[r] = where
    BY <1>6 DEF Goto, Inv, TypeOK
  <2>3. ArgOK(r) /\ LocalOK(r)
    BY DEF Inv, RequestInv
  <2>4. ArgOK(r)'
    BY <1>1, <1>6, <2>2, <2>3 DEF ArgOK, Posted, telegramVars
  <2>5. LocalOK(r)'
    BY <1>1, <1>6, <2>2, <2>3 DEF LocalOK, Posted, IsFolder, telegramVars, indexVars
  <2>6. where # "deleteSource" /\ pc[r] \notin {"upload", "returned"}
    BY <1>6
  <2>7. pc' = [pc EXCEPT ![r] = where]
    BY <1>6 DEF Goto
  <2>8. /\ local' \in [Requests -> Locals]
        /\ \A q \in Requests \ {r} : local'[q] = local[q]
        /\ UNCHANGED result
        /\ files' \subseteq FileRow /\ nextFile' \in Ids
    BY <1>2, <1>6 DEF Inv, TypeOK
  <2> QED
    BY <1>1, <1>2, <1>3, <2>1, <2>4, <2>5, <2>6, <2>7, <2>8, InvIndex
<1> QED
  BY <1>4, <1>5, <1>6 DEF LookupFolder

\* The upsert of a folder's row keeps a row per channel, and every id.
LEMMA UpsertFolderFits ==
    ASSUME Inv, NEW c \in Channels, NEW n \in FolderRowNames, UpsertFolder(c, n),
           UNCHANGED <<files, nextFile, nextMessage>>
    PROVE  /\ folders' \subseteq FolderRow
           /\ nextFolder' \in Ids
           /\ OnlyGrows
           /\ IndexInv'
<1> DEFINE new == [id |-> nextFolder, channel |-> c, name |-> n]
           renamed == {[f EXCEPT !.name = n] : f \in FolderRows(c)}
<1>1. /\ folders \subseteq FolderRow /\ nextFolder \in Nat
      /\ \A d \in folders : d.id \in Nat /\ d.id < nextFolder
      /\ \A d, e \in folders : d.channel = e.channel \/ d.id = e.id => d = e
  BY DEF Inv, TypeOK, IndexInv, RowsUnique, Ids, FolderRow
<1>2. new \in FolderRow /\ new.id = nextFolder /\ new.channel = c
  BY DEF Inv, TypeOK, FolderRow
<1>3. /\ renamed \subseteq FolderRow
      /\ \A d \in renamed : \E f \in FolderRows(c) :
            d = [f EXCEPT !.name = n] /\ d.id = f.id /\ d.channel = f.channel
      /\ \A f \in FolderRows(c) : \E d \in renamed : d.id = f.id /\ d.channel = f.channel
  <2>1. ASSUME NEW f \in FolderRows(c)
        PROVE  /\ [f EXCEPT !.name = n] \in FolderRow
               /\ [f EXCEPT !.name = n].id = f.id
               /\ [f EXCEPT !.name = n].channel = f.channel
    BY <1>1 DEF FolderRows, FolderRow
  <2> QED
    BY <2>1
<1>4. /\ folders' \subseteq FolderRow
      /\ nextFolder' \in Nat /\ nextFolder' >= nextFolder
      /\ \A d \in folders : \E e \in folders' : e.id = d.id /\ e.channel = d.channel
      /\ \A e, f \in folders' : e.channel = f.channel \/ e.id = f.id => e = f
      /\ \A d \in folders' : d.id < nextFolder'
  <2>1. CASE FolderRows(c) = {}
    <3>1. folders' = folders \cup {new} /\ nextFolder' = nextFolder + 1
      BY <2>1 DEF UpsertFolder
    <3>2. \A d \in folders : d.channel # c
      BY <2>1 DEF FolderRows
    <3> HIDE DEF new
    <3>3. folders' \subseteq FolderRow
      BY <1>1, <1>2, <3>1
    <3>4. \A e, f \in folders' : e.channel = f.channel \/ e.id = f.id => e = f
      BY <1>1, <1>2, <3>1, <3>2
    <3> QED
      BY <1>1, <1>2, <3>1, <3>3, <3>4
  <2>2. CASE FolderRows(c) # {}
    <3>1. /\ folders' = (folders \ FolderRows(c)) \cup renamed
          /\ nextFolder' = Conflict(nextFolder)
      BY <2>2 DEF UpsertFolder
    <3>2. nextFolder' \in Nat /\ nextFolder' >= nextFolder
      BY <1>1, <3>1 DEF Conflict
    <3>3. FolderRows(c) \subseteq folders
      BY DEF FolderRows
    <3> HIDE DEF renamed
    <3>4. folders' \subseteq FolderRow
      BY <1>1, <1>3, <3>1
    <3>5. \A d \in folders : \E e \in folders' : e.id = d.id /\ e.channel = d.channel
      BY <1>3, <3>1
    <3>6. \A d \in folders' : \E f \in folders : 
             /\ d.id = f.id /\ d.channel = f.channel
             /\ \/ f \in FolderRows(c) /\ d = [f EXCEPT !.name = n]
                \/ f \notin FolderRows(c) /\ d = f
      BY <1>3, <3>1, <3>3
    <3>7. \A d \in folders' : d.id < nextFolder'
      BY <1>1, <3>2, <3>6
    <3>8. \A e, f \in folders' : e.channel = f.channel \/ e.id = f.id => e = f
      BY <1>1, <3>6
    <3> QED
      BY <3>2, <3>4, <3>5, <3>7, <3>8
  <2> QED
    BY <2>1, <2>2
<1>5. OnlyGrows
  BY <1>4 DEF OnlyGrows, Inv, TypeOK, Ids
<1>6. nextFolder' \in Ids
  BY <1>4 DEF Inv, TypeOK, Ids, None
<1>7. IndexInv'
  <2>1. RowsUnique'
    BY <1>4 DEF RowsUnique, Inv, IndexInv
  <2>2. RowsAreReal'
    <3> SUFFICES ASSUME NEW f \in files
                 PROVE  \E d \in folders' : d.id = f.folder
                                           /\ f.message \in 1..nextMessage[d.channel] - 1
      BY DEF RowsAreReal
    <3>1. PICK d \in folders : d.id = f.folder /\ f.message \in 1..nextMessage[d.channel] - 1
      BY DEF Inv, IndexInv, RowsAreReal
    <3> QED
      BY <1>4, <3>1
  <2> QED
    BY <1>4, <2>1, <2>2 DEF Inv, IndexInv
<1> QED
  BY <1>4, <1>5, <1>6, <1>7

\* A folder that was not found is inserted, or found after all.
LEMMA InvInsertFolder ==
    ASSUME Inv, NEW r \in Requests, InsertFolder(r)
    PROVE  Inv'
<1>1. UNCHANGED <<telegramVars, files, nextFile, dialect, arg>>
      /\ pc[r] \in {"insertFolder", "insertDst"}
  BY DEF InsertFolder
<1> PICK t \in TitlesToInsert(r) :
      \/ /\ pc[r] = "insertFolder" /\ ~NameOf[t].panics
         /\ UpsertFolder(arg[r].channel, NameOf[t].text)
         /\ \/ \E f \in folders' : f.channel = arg[r].channel /\ Resolved(r, f)
            \/ FailAfter(r)
      \/ /\ pc[r] = "insertDst" /\ ~NameOf[t].panics
         /\ UpsertFolder(arg[r].dst, NameOf[t].text)
         /\ \/ \E f \in folders' : f.channel = arg[r].dst /\ ResolvedDst(r, f)
            \/ FailAfter(r)
      \/ /\ NameOf[t].panics
         /\ Return(r, "failed")
         /\ UNCHANGED <<folders, nextFolder, local>>
  BY DEF InsertFolder
<1>2. ArgOK(r)
  BY DEF Inv, RequestInv
<1>3. t \in ClientTitles
  <2>1. arg[r].op = "CreateFolder" => ~TitleOf[arg[r].folderName].panics
    BY <1>1, <1>2 DEF ArgOK
  <2> QED
    BY <2>1, MadeTitle DEF TitlesToInsert, Inv, TypeOK, Args
<1>4. NameOf[t].text \in FolderRowNames
  BY <1>3 DEF FolderRowNames
<1>5. /\ pc[r] = "insertFolder" => arg[r].channel \in Channels
      /\ pc[r] = "insertDst" => arg[r].dst \in Channels
  BY <1>2, MethodAt DEF Inv, ArgOK
<1>6. ASSUME NEW c \in Channels, UpsertFolder(c, NameOf[t].text)
      PROVE  /\ folders' \subseteq FolderRow
             /\ nextFolder' \in Ids /\ OnlyGrows /\ IndexInv'
  <2> PICK n \in FolderRowNames : n = NameOf[t].text
    BY <1>4
  <2>1. UpsertFolder(c, n) /\ UNCHANGED <<files, nextFile, nextMessage>>
    BY <1>1, <1>6 DEF telegramVars
  <2> QED
    BY <2>1, UpsertFolderFits
<1>7. ASSUME pc[r] = "insertFolder", UpsertFolder(arg[r].channel, NameOf[t].text),
             NEW f \in folders', f.channel = arg[r].channel, Resolved(r, f)
      PROVE  Inv'
  BY <1>1, <1>5, <1>6, <1>7, InvResolved
<1>8. ASSUME pc[r] = "insertDst", UpsertFolder(arg[r].dst, NameOf[t].text),
             NEW f \in folders', f.channel = arg[r].dst, ResolvedDst(r, f)
      PROVE  Inv'
  BY <1>1, <1>5, <1>6, <1>8, InvResolvedDst
<1>9. ASSUME NEW c \in Channels, UpsertFolder(c, NameOf[t].text), FailAfter(r)
      PROVE  Inv'
  <2>1. files' \subseteq FileRow /\ nextFile' \in Ids
    BY <1>1 DEF Inv, TypeOK
  <2> QED
    BY <1>1, <1>6, <1>9, <2>1, InvFailAfter
<1>10. ASSUME Return(r, "failed"), UNCHANGED <<folders, nextFolder, local>>
       PROVE  Inv'
  BY <1>1, <1>10, InvReturn DEF telegramVars, indexVars, Inv, TypeOK
<1> QED
  BY <1>5, <1>7, <1>8, <1>9, <1>10

\* A row that is looked up is a row of the request's file, and is remembered.
LEMMA RowFound ==
    ASSUME Inv, NEW r \in Requests, NEW x \in FileRows(local[r].folder, arg[r].message),
           local' = [local EXCEPT ![r].row = x]
    PROVE  /\ local' \in [Requests -> Locals]
           /\ \A q \in Requests \ {r} : local'[q] = local[q]
           /\ local'[r].folder = local[r].folder /\ local'[r].dst = local[r].dst
           /\ local'[r].new = local[r].new /\ local'[r].row = x
           /\ x \in files /\ x \in FileRow /\ x.id < nextFile
           /\ x.folder = local[r].folder /\ x.message = arg[r].message
<1>1. local \in [Requests -> Locals]
  BY DEF Inv, TypeOK
<1>2. /\ x \in files /\ x \in FileRow /\ x.id < nextFile
      /\ x.folder = local[r].folder /\ x.message = arg[r].message
  BY DEF FileRows, Inv, TypeOK, IndexInv
<1>3. /\ [local[r] EXCEPT !.row = x] \in Locals
      /\ [local[r] EXCEPT !.row = x].folder = local[r].folder
      /\ [local[r] EXCEPT !.row = x].dst = local[r].dst
      /\ [local[r] EXCEPT !.row = x].new = local[r].new
      /\ [local[r] EXCEPT !.row = x].row = x
  BY <1>1, <1>2 DEF Locals
<1>4. /\ local' \in [Requests -> Locals]
      /\ \A q \in Requests \ {r} : local'[q] = local[q]
      /\ local'[r] = [local[r] EXCEPT !.row = x]
  BY <1>1, <1>3
<1> QED
  BY <1>2, <1>3, <1>4

LEMMA InvFindRow ==
    ASSUME Inv, NEW r \in Requests, FindRow(r)
    PROVE  Inv'
<1> DEFINE where == IF arg[r].op = "MoveFile" THEN "lookupDst" ELSE "upsertFile"
<1>1. /\ pc[r] = "findRow" /\ arg[r].op \in {"RenameFile", "MoveFile"}
      /\ UNCHANGED <<telegramVars, indexVars, arg>>
  BY MethodAt DEF FindRow, Inv
<1>2. ASSUME NEW x \in FileRows(local[r].folder, arg[r].message),
             local' = [local EXCEPT ![r].row = x], Goto(r, where), UNCHANGED result
      PROVE  Inv'
  <2>1. /\ local' \in [Requests -> Locals]
        /\ \A q \in Requests \ {r} : local'[q] = local[q]
        /\ local'[r].folder = local[r].folder /\ local'[r].dst = local[r].dst
        /\ local'[r].new = local[r].new /\ local'[r].row = x
        /\ x \in files /\ x \in FileRow /\ x.id < nextFile
        /\ x.folder = local[r].folder /\ x.message = arg[r].message
    BY <1>2, RowFound
  <2>2. pc' = [pc EXCEPT ![r] = where] /\ pc'[r] = where
    BY <1>2 DEF Goto, Inv, TypeOK
  <2>3. where \in Stages(arg[r].op) /\ where # "deleteSource"
    BY <1>1, NextStage
  <2>4. ArgOK(r) /\ LocalOK(r)
    BY DEF Inv, RequestInv
  <2>5. ArgOK(r)'
    BY <1>1, <1>2, <2>2, <2>4 DEF ArgOK, Posted, telegramVars
  <2>6. LocalOK(r)'
    BY <1>1, <2>1, <2>2, <2>4 DEF LocalOK, Posted, IsFolder, telegramVars, indexVars
  <2> HIDE DEF where
  <2> QED
    BY <1>1, <1>2, <2>1, <2>2, <2>3, <2>5, <2>6, GoesOn DEF telegramVars, Inv, TypeOK
<1>3. ASSUME Return(r, "ok"), UNCHANGED local
      PROVE  Inv'
  BY <1>1, <1>3, InvReturn DEF telegramVars, Inv, TypeOK
<1> QED
  BY <1>2, <1>3 DEF FindRow

LEMMA InvFindToPrune ==
    ASSUME Inv, NEW r \in Requests, FindToPrune(r)
    PROVE  Inv'
<1>1. /\ pc[r] = "findToPrune" /\ arg[r].op \in {"DeleteFile", "MoveFile"}
      /\ UNCHANGED <<telegramVars, indexVars, arg>>
  BY MethodAt DEF FindToPrune, Inv
<1>2. ASSUME NEW x \in FileRows(local[r].folder, arg[r].message),
             local' = [local EXCEPT ![r].row = x], Goto(r, "pruneRow"), UNCHANGED result
      PROVE  Inv'
  <2>1. /\ local' \in [Requests -> Locals]
        /\ \A q \in Requests \ {r} : local'[q] = local[q]
        /\ local'[r].folder = local[r].folder /\ local'[r].dst = local[r].dst
        /\ local'[r].new = local[r].new /\ local'[r].row = x
        /\ x \in files /\ x \in FileRow /\ x.id < nextFile
        /\ x.folder = local[r].folder /\ x.message = arg[r].message
    BY <1>2, RowFound
  <2>2. pc' = [pc EXCEPT ![r] = "pruneRow"] /\ pc'[r] = "pruneRow"
    BY <1>2 DEF Goto, Inv, TypeOK
  <2>3. "pruneRow" \in Stages(arg[r].op)
    BY <1>1, NextStage
  <2>4. ArgOK(r) /\ LocalOK(r)
    BY DEF Inv, RequestInv
  <2>5. ArgOK(r)'
    BY <1>1, <1>2, <2>2, <2>4 DEF ArgOK, Posted, telegramVars
  <2>6. \A f \in files : f.id = x.id => f = x
    BY <2>1 DEF Inv, IndexInv, RowsUnique
  <2>7. LocalOK(r)'
    BY <1>1, <2>1, <2>2, <2>4, <2>6 DEF LocalOK, Posted, IsFolder, telegramVars, indexVars
  <2> QED
    BY <1>1, <1>2, <2>1, <2>2, <2>3, <2>5, <2>7, GoesOn DEF telegramVars, Inv, TypeOK
<1>3. ASSUME Return(r, "ok"), UNCHANGED local
      PROVE  Inv'
  BY <1>1, <1>3, InvReturn DEF telegramVars, Inv, TypeOK
<1> QED
  BY <1>2, <1>3 DEF FindToPrune

\* A request prunes the row that it found, if it is still there.
LEMMA InvPruneRow ==
    ASSUME Inv, NEW r \in Requests, PruneRow(r)
    PROVE  Inv'
<1>1. /\ pc[r] = "pruneRow"
      /\ UNCHANGED <<telegramVars, folders, nextFolder, nextFile, dialect, arg, local>>
      /\ files' \subseteq files
  BY DEF PruneRow
<1>2. PICK outcome \in {"ok", "not_found", "failed"} : Return(r, outcome)
  BY DEF PruneRow, FailAfter
<1>3. OnlyGrows
  BY <1>1 DEF OnlyGrows, Inv, TypeOK, Ids, telegramVars
<1>4. IndexInv'
  BY <1>1 DEF IndexInv, RowsUnique, RowsAreReal, Inv, telegramVars
<1>5. /\ files' \subseteq FileRow /\ nextFile' \in Ids /\ nextFolder' \in Ids
      /\ folders' \subseteq FolderRow
      /\ local' \in [Requests -> Locals]
      /\ \A q \in Requests \ {r} : local'[q] = local[q]
  BY <1>1 DEF Inv, TypeOK
<1>6. pc' = [pc EXCEPT ![r] = "returned"] /\ pc'[r] = "returned" /\ arg'[r] = arg[r]
      /\ result' = [result EXCEPT ![r] = outcome]
  BY <1>1, <1>2 DEF Return, Goto, Inv, TypeOK
<1>7. ArgOK(r)' /\ LocalOK(r)'
  <2>1. ArgOK(r)'
    BY <1>1, <1>6 DEF ArgOK, Inv, RequestInv, Posted, telegramVars
  <2>2. LocalOK(r)'
    BY <1>6 DEF LocalOK
  <2> QED
    BY <2>1, <2>2
<1> QED
  BY <1>1, <1>3, <1>4, <1>5, <1>6, <1>7, InvIndex

\* The row a request writes is of a message there has been, in the channel of
\* the row's folder.
LEMMA RowToWriteFits ==
    ASSUME Inv, NEW r \in Requests, pc[r] \in {"upsertFile", "readBack"}
    PROVE  LET row == RowToWrite(r)
           IN  /\ row.folder \in Ids /\ row.message \in Ids /\ row.name \in Names
               /\ \E d \in folders : d.id = row.folder
                                     /\ row.message \in 1..nextMessage[d.channel] - 1
<1> DEFINE a == arg[r]
           l == local[r]
<1>1. a.op \in {"UploadFile", "RenameFile", "MoveFile"}
  BY MethodAt DEF Inv
<1>2. ArgOK(r) /\ LocalOK(r)
  BY DEF Inv, RequestInv
<1>3. a.name \in Names /\ a.message \in Nat
  BY DEF Inv, TypeOK, Args
<1>4. \A id, c : IsFolder(id, c) => id \in Ids
  BY DEF IsFolder, Inv, TypeOK, FolderRow
<1>5. \A c \in Channels : Posted(c) \subseteq Ids
  BY DEF Posted, Inv, TypeOK, Ids, None
<1>6. IsFolder(l.folder, a.channel) /\ a.channel \in Channels
  BY <1>1, <1>2 DEF LocalOK, ArgOK
<1>7. CASE a.op = "UploadFile"
  <2>1. l.new \in Posted(a.channel)
    BY <1>2, <1>7 DEF LocalOK
  <2>2. RowToWrite(r) = [folder |-> l.folder, message |-> l.new, name |-> a.name]
    BY <1>7 DEF RowToWrite
  <2> QED
    BY <1>3, <1>4, <1>5, <1>6, <2>1, <2>2 DEF IsFolder, Posted
<1>8. CASE a.op = "RenameFile"
  <2>1. l.row.folder = l.folder /\ l.row.message = a.message
    BY <1>2, <1>8 DEF LocalOK
  <2>2. a.message \in Posted(a.channel)
    BY <1>2, <1>8 DEF ArgOK
  <2>3. RowToWrite(r) = [folder |-> l.row.folder, message |-> l.row.message, name |-> a.name]
    BY <1>8 DEF RowToWrite
  <2> QED
    BY <1>3, <1>4, <1>5, <1>6, <2>1, <2>2, <2>3 DEF IsFolder, Posted
<1>9. CASE a.op = "MoveFile"
  <2>1. l.new \in Posted(a.dst) /\ IsFolder(l.dst, a.dst) /\ a.dst \in Channels
    BY <1>2, <1>9 DEF LocalOK, ArgOK
  <2>2. l.row.name \in Names
    BY <1>2, <1>9 DEF LocalOK, FileRow
  <2>3. RowToWrite(r) = [folder |-> l.dst, message |-> l.new, name |-> l.row.name]
    BY <1>9 DEF RowToWrite
  <2> QED
    BY <1>4, <1>5, <2>1, <2>2, <2>3 DEF IsFolder, Posted
<1> QED
  BY <1>1, <1>7, <1>8, <1>9

\* A row is inserted, or the one there is gets its name.
Upserts(row, old) ==
    \/ /\ old = {}
       /\ files' = files \cup {[id |-> nextFile, folder |-> row.folder,
                                message |-> row.message, name |-> row.name]}
       /\ nextFile' = nextFile + 1
    \/ /\ old # {}
       /\ files' = (files \ old) \cup {[f EXCEPT !.name = row.name] : f \in old}
       /\ nextFile' = Conflict(nextFile)

\* The upsert of a file's row keeps a row per message, and every id.
LEMMA UpsertFileFits ==
    ASSUME Inv, NEW row,
           row.folder \in Ids, row.message \in Ids, row.name \in Names,
           \E d \in folders : d.id = row.folder /\ row.message \in 1..nextMessage[d.channel] - 1,
           NEW old, old = FileRows(row.folder, row.message),
           Upserts(row, old),
           UNCHANGED <<folders, nextFolder, nextMessage>>
    PROVE  /\ files' \subseteq FileRow
           /\ nextFile' \in Ids
           /\ OnlyGrows
           /\ IndexInv'
<1> DEFINE new == [id |-> nextFile, folder |-> row.folder,
                   message |-> row.message, name |-> row.name]
           renamed == {[f EXCEPT !.name = row.name] : f \in old}
<1>1. /\ files \subseteq FileRow /\ nextFile \in Nat /\ nextFile \in Ids
      /\ \A f \in files : f.id \in Nat /\ f.id < nextFile
      /\ \A e, f \in files :
            e.id = f.id \/ (e.folder = f.folder /\ e.message = f.message) => e = f
  BY DEF Inv, TypeOK, IndexInv, RowsUnique, Ids, FileRow
<1>2. /\ new \in FileRow /\ new.id = nextFile
      /\ new.folder = row.folder /\ new.message = row.message
  BY <1>1 DEF FileRow
<1>3. old \subseteq files
      /\ \A f \in files : f \in old <=> f.folder = row.folder /\ f.message = row.message
  BY DEF FileRows
<1>4. ASSUME NEW f \in old
      PROVE  /\ [f EXCEPT !.name = row.name] \in FileRow
             /\ [f EXCEPT !.name = row.name].id = f.id
             /\ [f EXCEPT !.name = row.name].folder = f.folder
             /\ [f EXCEPT !.name = row.name].message = f.message
  BY <1>1, <1>3 DEF FileRow
<1>5. /\ renamed \subseteq FileRow
      /\ \A e \in renamed : \E f \in old :
            /\ e = [f EXCEPT !.name = row.name]
            /\ e.id = f.id /\ e.folder = f.folder /\ e.message = f.message
  <2>1. ASSUME NEW e \in renamed
        PROVE  /\ e \in FileRow
               /\ \E f \in old :
                     /\ e = [f EXCEPT !.name = row.name]
                     /\ e.id = f.id /\ e.folder = f.folder /\ e.message = f.message
    <3>1. PICK f \in old : e = [f EXCEPT !.name = row.name]
      OBVIOUS
    <3> QED
      BY <1>4, <3>1
  <2> HIDE DEF renamed
  <2> QED
    BY <2>1
<1>6. /\ files' \subseteq FileRow
      /\ nextFile' \in Nat /\ nextFile' >= nextFile
      /\ \A f \in files' : f.id < nextFile'
      /\ \A e, f \in files' :
            e.id = f.id \/ (e.folder = f.folder /\ e.message = f.message) => e = f
      /\ \A f \in files' :
            \/ f.id >= nextFile /\ f.folder = row.folder /\ f.message = row.message
            \/ \E g \in files : g.id = f.id /\ g.folder = f.folder /\ g.message = f.message
  <2>1. CASE old = {}
    <3>1. files' = files \cup {new} /\ nextFile' = nextFile + 1
      BY <2>1 DEF Upserts
    <3> HIDE DEF new
    <3>2. files' \subseteq FileRow
      BY <1>1, <1>2, <3>1
    <3>3. \A e, f \in files' :
             e.id = f.id \/ (e.folder = f.folder /\ e.message = f.message) => e = f
      BY <1>1, <1>2, <1>3, <2>1, <3>1
    <3>4. \A f \in files' :
            \/ f.id >= nextFile /\ f.folder = row.folder /\ f.message = row.message
            \/ \E g \in files : g.id = f.id /\ g.folder = f.folder /\ g.message = f.message
      BY <1>1, <1>2, <3>1
    <3>5. \A f \in files' : f.id < nextFile'
      BY <1>1, <1>2, <3>1
    <3> QED
      BY <1>1, <3>1, <3>2, <3>3, <3>4, <3>5
  <2>2. CASE old # {}
    <3>1. files' = (files \ old) \cup renamed /\ nextFile' = Conflict(nextFile)
      BY <2>2 DEF Upserts
    <3> HIDE DEF renamed
    <3>2. nextFile' \in Nat /\ nextFile' >= nextFile
      BY <1>1, <3>1 DEF Conflict
    <3>3. files' \subseteq FileRow
      BY <1>1, <1>5, <3>1
    <3>4. \A e \in files' : \E f \in files :
             /\ e.id = f.id /\ e.folder = f.folder /\ e.message = f.message
             /\ \/ f \in old /\ e = [f EXCEPT !.name = row.name]
                \/ f \notin old /\ e = f
      BY <1>3, <1>5, <3>1
    <3>5. \A e, f \in files' :
             e.id = f.id \/ (e.folder = f.folder /\ e.message = f.message) => e = f
      BY <1>1, <3>4
    <3>6. \A f \in files' : f.id < nextFile'
      BY <1>1, <3>2, <3>4
    <3> QED
      BY <3>2, <3>3, <3>4, <3>5, <3>6
  <2> QED
    BY <2>1, <2>2
<1>7. OnlyGrows
  BY <1>1, <1>6 DEF OnlyGrows, Inv, TypeOK, Ids
<1>8. nextFile' \in Ids
  BY <1>1, <1>6 DEF Ids, None
<1>9. IndexInv'
  <2>1. RowsUnique'
    BY <1>6 DEF RowsUnique, Inv, IndexInv
  <2>2. RowsAreReal'
    <3> SUFFICES ASSUME NEW f \in files'
                 PROVE  \E d \in folders : d.id = f.folder
                                           /\ f.message \in 1..nextMessage[d.channel] - 1
      BY DEF RowsAreReal
    <3>1. CASE f.folder = row.folder /\ f.message = row.message
      BY <3>1
    <3>2. CASE \E g \in files : g.folder = f.folder /\ g.message = f.message
      BY <3>2 DEF Inv, IndexInv, RowsAreReal
    <3> QED
      BY <1>6, <3>1, <3>2
  <2> QED
    BY <1>6, <2>1, <2>2 DEF Inv, IndexInv
<1> QED
  BY <1>6, <1>7, <1>8, <1>9

\* Whether the row was read back or returned by the upsert, a move goes on to
\* prune its source's row, and the other requests are done.
LEMMA InvUpserted ==
    ASSUME Inv, NEW r \in Requests, pc[r] \in {"upsertFile", "readBack"}, Upserted(r),
           UNCHANGED <<telegramVars, folders, nextFolder, dialect, arg, local>>,
           files' \subseteq FileRow, nextFile' \in Ids, OnlyGrows, IndexInv'
    PROVE  Inv'
<1> DEFINE where == IF arg[r].op = "MoveFile" THEN "findToPrune" ELSE "returned"
<1>1. pc' = [pc EXCEPT ![r] = where] /\ pc'[r] = where
  BY DEF Upserted, Return, Goto, Inv, TypeOK
<1>2. UNCHANGED result \/ result' = [result EXCEPT ![r] = "ok"]
  BY DEF Upserted, Return
<1>3. where \in Stages(arg[r].op) \cup {"returned"}
  BY NextStage
<1>4. /\ nextFolder' \in Ids
      /\ folders' \subseteq FolderRow
      /\ local' \in [Requests -> Locals]
      /\ \A q \in Requests \ {r} : local'[q] = local[q]
  BY DEF Inv, TypeOK
<1>5. ArgOK(r) /\ LocalOK(r)
  BY DEF Inv, RequestInv
<1>6. ArgOK(r)'
  <2>1. arg[r].op = "MoveFile" => UNCHANGED result
    BY DEF Upserted
  <2> QED
    BY <1>1, <1>5, <2>1 DEF ArgOK, Posted, telegramVars
<1>7. LocalOK(r)'
  BY <1>1, <1>5 DEF LocalOK, Posted, IsFolder, telegramVars
<1>8. where # "deleteSource"
  OBVIOUS
<1> HIDE DEF where
<1> QED
  BY <1>1, <1>2, <1>3, <1>4, <1>6, <1>7, <1>8, InvIndex

LEMMA InvUpsertFile ==
    ASSUME Inv, NEW r \in Requests, UpsertFile(r)
    PROVE  Inv'
<1>1. /\ pc[r] = "upsertFile"
      /\ UNCHANGED <<telegramVars, folders, nextFolder, dialect, arg, local>>
  BY DEF UpsertFile
<1>2. files' \subseteq FileRow /\ nextFile' \in Ids /\ OnlyGrows /\ IndexInv'
  <2> PICK row : row = RowToWrite(r)
    OBVIOUS
  <2> PICK old : old = FileRows(row.folder, row.message)
    OBVIOUS
  <2>1. /\ row.folder \in Ids /\ row.message \in Ids /\ row.name \in Names
        /\ \E d \in folders : d.id = row.folder
                              /\ row.message \in 1..nextMessage[d.channel] - 1
    BY <1>1, RowToWriteFits
  <2>2. Upserts(row, old)
    BY DEF UpsertFile, NewFileId, Upserts
  <2>3. UNCHANGED <<folders, nextFolder, nextMessage>>
    BY <1>1 DEF telegramVars
  <2> QED
    BY <2>1, <2>2, <2>3, UpsertFileFits
<1>3. ASSUME Goto(r, "readBack"), UNCHANGED result
      PROVE  Inv'
  <2>1. pc' = [pc EXCEPT ![r] = "readBack"] /\ pc'[r] = "readBack"
    BY <1>3 DEF Goto, Inv, TypeOK
  <2>2. "readBack" \in Stages(arg[r].op)
    BY <1>1, MethodAt, NextStage DEF Inv
  <2>3. /\ nextFolder' \in Ids
        /\ folders' \subseteq FolderRow
        /\ local' \in [Requests -> Locals]
        /\ \A q \in Requests \ {r} : local'[q] = local[q]
    BY <1>1 DEF Inv, TypeOK
  <2>4. ArgOK(r) /\ LocalOK(r)
    BY DEF Inv, RequestInv
  <2>5. ArgOK(r)'
    BY <1>1, <1>3, <2>1, <2>4 DEF ArgOK, Posted, telegramVars
  <2>6. LocalOK(r)'
    BY <1>1, <2>1, <2>4 DEF LocalOK, Posted, IsFolder, telegramVars
  <2> QED
    BY <1>1, <1>2, <1>3, <2>1, <2>2, <2>3, <2>5, <2>6, InvIndex
<1>4. ASSUME Upserted(r)
      PROVE  Inv'
  BY <1>1, <1>2, <1>4, InvUpserted
<1>5. ASSUME FailAfter(r)
      PROVE  Inv'
  <2>1. folders' \subseteq FolderRow /\ nextFolder' \in Ids
    BY <1>1 DEF Inv, TypeOK
  <2> QED
    BY <1>1, <1>2, <1>5, <2>1, InvFailAfter
<1> QED
  BY <1>3, <1>4, <1>5 DEF UpsertFile

LEMMA InvReadBack ==
    ASSUME Inv, NEW r \in Requests, ReadBack(r)
    PROVE  Inv'
<1>1. pc[r] = "readBack" /\ UNCHANGED <<telegramVars, indexVars, arg, local>>
  BY DEF ReadBack
<1>2. ASSUME Return(r, "failed")
      PROVE  Inv'
  BY <1>1, <1>2, InvReturn DEF telegramVars, Inv, TypeOK
<1>3. ASSUME Upserted(r)
      PROVE  Inv'
  <2>1. OnlyGrows /\ IndexInv'
    BY <1>1, SameIndex DEF Inv, telegramVars
  <2>2. files' \subseteq FileRow /\ nextFile' \in Ids
    BY <1>1 DEF Inv, TypeOK, indexVars
  <2> QED
    BY <1>1, <1>3, <2>1, <2>2, InvUpserted DEF indexVars
<1> QED
  BY <1>2, <1>3 DEF ReadBack

-----------------------------------------------------------------------------
(* The theorems.                                                           *)

\* Whatever requests interleave and wherever they stop, the index, the account
\* and the requests fit together after a step if they did before it.
LEMMA InvNext == Inv /\ [Next]_vars => Inv'
<1> SUFFICES ASSUME Inv, [Next]_vars PROVE Inv'
  OBVIOUS
<1>1. ASSUME NEW r \in Requests, RequestStep(r) PROVE Inv'
  <2>1. CASE CreateChannel(r) \/ PanicOnName(r) \/ SetHistoryTTL(r) \/ EditTitle(r)
             \/ DeleteChannel(r) \/ ListDialogs(r)
    BY <2>1, InvCreateChannel, InvPanicOnName, InvSetHistoryTTL, InvEditTitle,
       InvDeleteChannel, InvListDialogs
  <2>2. CASE Upload(r) \/ Download(r) \/ EditCaption(r) \/ DeleteMessage(r)
             \/ Forward(r) \/ DeleteSource(r)
    BY <2>2, InvUpload, InvDownload, InvEditCaption, InvDeleteMessage, InvForward,
       InvDeleteSource
  <2>3. CASE LookupFolder(r) \/ InsertFolder(r) \/ ListFiles(r) \/ FindRow(r)
    BY <2>3, InvLookupFolder, InvInsertFolder, InvListFiles, InvFindRow
  <2>4. CASE UpsertFile(r) \/ ReadBack(r) \/ FindToPrune(r) \/ PruneRow(r)
    BY <2>4, InvUpsertFile, InvReadBack, InvFindToPrune, InvPruneRow
  <2> QED
    BY <1>1, <2>1, <2>2, <2>3, <2>4 DEF RequestStep
<1>2. ASSUME NEW r \in Requests, Call(r) \/ Reject(r) \/ Fail(r) PROVE Inv'
  BY <1>2, InvCall, InvReject, InvFail
<1>3. CASE UNCHANGED vars
  BY <1>3 DEF vars, telegramVars, indexVars, requestVars, Inv, TypeOK, IndexInv, RowsUnique,
              RowsAreReal, MessageInv, RequestInv, ArgOK, LocalOK, IsFolder, Posted,
              KeptInv, NoDeletes, Kept
<1> QED
  BY <1>1, <1>2, <1>3 DEF Next

\* The inductive invariant holds of the drive, for any number of requests,
\* channels and names, on either database.
THEOREM InvAlways == Spec => []Inv
BY InitInv, InvNext, PTL DEF Spec

\* Rows refer to rows and messages by id, and requests are where their methods
\* lead them.
THEOREM TypeCorrect == Spec => []TypeOK
<1>1. Inv => TypeOK
  BY DEF Inv
<1> QED
  BY <1>1, InvAlways, PTL

\* A channel has one folder row, and a message one file row, although the scan
\* and the insert of ensureFolder and UpsertFile are not one transaction.
THEOREM RowsUniqueAlways == Spec => []RowsUnique
<1>1. Inv => RowsUnique
  BY DEF Inv, IndexInv
<1> QED
  BY <1>1, InvAlways, PTL

\* A cached file stands for a message that was created in its folder's channel:
\* no request writes the message id it learnt under another request's folder.
THEOREM RowsAreRealAlways == Spec => []RowsAreReal
<1>1. Inv => RowsAreReal
  BY DEF Inv, IndexInv
<1> QED
  BY <1>1, InvAlways, PTL

\* As long as nobody deletes, no file is lost, however moves interleave and
\* wherever they stop.
THEOREM NoFileLostAlways == Spec => []NoFileLost
<1>1. Inv => NoFileLost
  <2>1. \A c \in Existing : Kept(c) => HasContent(c)
    BY DEF Kept, HasContent
  <2>2. \A r \in Requests : Kept(r) => HasContent(r)
    BY DEF Kept, HasContent
  <2> QED
    BY <2>1, <2>2 DEF Inv, KeptInv, NoFileLost
<1> QED
  BY <1>1, InvAlways, PTL

\* An upsert takes no id out of the table of files.
LEMMA UpsertKeepsIds ==
    ASSUME Inv, NEW r \in Requests, UpsertFile(r), NEW f \in files
    PROVE  \E g \in files' : g.id = f.id
<1>1. PICK old : old = FileRows(RowToWrite(r).folder, RowToWrite(r).message)
  OBVIOUS
<1>2. PICK n : n = RowToWrite(r).name
  OBVIOUS
<1>3. old # {} => files' = (files \ old) \cup {[e EXCEPT !.name = n] : e \in old}
  BY <1>1, <1>2 DEF UpsertFile
<1>4. old = {} => files \subseteq files'
  BY <1>1 DEF UpsertFile
<1>5. [f EXCEPT !.name = n].id = f.id
  BY DEF Inv, TypeOK, FileRow
<1>6. CASE f \in old
  BY <1>3, <1>5, <1>6
<1>7. CASE f \notin old
  BY <1>3, <1>4, <1>7
<1> QED
  BY <1>6, <1>7

\* A row that is pruned is that of the message the pruning request deleted or
\* moved, although rows come and go between the scan and the delete.
THEOREM PrunesOwnRowAlways == Spec => PrunesOwnRow
<1> DEFINE Own(f) == \E r \in Requests :
                        /\ pc[r] = "pruneRow"
                        /\ f.message = arg[r].message
                        /\ \E d \in folders : d.id = f.folder /\ d.channel = arg[r].channel
           Pruned == \A f \in files : (\A g \in files' : g.id # f.id) => Own(f)
<1>1. Inv /\ [Next]_vars => [Pruned]_vars
  <2> SUFFICES ASSUME Inv, Next, NEW f \in files, \A g \in files' : g.id # f.id
               PROVE  Own(f)
    OBVIOUS
  <2>1. files' # files
    OBVIOUS
  <2>2. PICK r \in Requests : UpsertFile(r) \/ PruneRow(r)
    <3>1. PICK r \in Requests : Call(r) \/ Reject(r) \/ RequestStep(r) \/ Fail(r)
      BY DEF Next
    <3>2. UNCHANGED files \/ UpsertFile(r) \/ PruneRow(r)
      BY <3>1 DEF RequestStep, Call, Reject, Fail, CreateChannel, PanicOnName, SetHistoryTTL,
         EditTitle, DeleteChannel, ListDialogs, Upload, Download, EditCaption, DeleteMessage,
         Forward, DeleteSource, LookupFolder, InsertFolder, ListFiles, FindRow, ReadBack,
         FindToPrune, indexVars
    <3> QED
      BY <2>1, <3>2
  <2>3. CASE UpsertFile(r)
    BY <2>3, UpsertKeepsIds
  <2>4. CASE PruneRow(r)
    <3>1. pc[r] = "pruneRow" /\ f.id = local[r].row.id
      BY <2>4 DEF PruneRow
    <3>2. /\ f.folder = local[r].folder /\ f.message = arg[r].message
          /\ IsFolder(local[r].folder, arg[r].channel)
      BY <3>1 DEF Inv, RequestInv, LocalOK
    <3> QED
      BY <3>1, <3>2 DEF IsFolder
  <2> QED
    BY <2>2, <2>3, <2>4
<1> QED
  BY <1>1, InvAlways, PTL DEF Spec, PrunesOwnRow

=============================================================================
