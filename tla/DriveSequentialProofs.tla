------------------------ MODULE DriveSequentialProofs ------------------------
(***************************************************************************)
(* Proofs about Drive for a daemon that serves one call at a time: what    *)
(* was deleted or moved is not served any more, and the index agrees with  *)
(* the account unless a client was told of an error, for any number of     *)
(* calls, channels and names, wherever the calls stop.  Neither is true of *)
(* calls that overlap.                                                     *)
(***************************************************************************)
EXTENDS DriveProofs, FiniteSetTheorems

-----------------------------------------------------------------------------
(* The inductive invariant.                                                *)

\* The rows of message m among those served for channel c, and their names or
\* those of messages.
RowsOf(c, m) == {f \in files : f.message = m /\ IsFolder(f.folder, c)}
NamesOf(items) == {x.name : x \in items}

\* The index and Telegram say the same of message m of channel c.
Agrees(c, m) == NamesOf(RowsOf(c, m)) = NamesOf(Message(c, m))

\* Message m of channel c is gone from Telegram and from the index.
Gone(c, m) == Message(c, m) = {} /\ RowsOf(c, m) = {}

\* Request r has posted a message, renamed one or deleted one, and has yet to
\* tell the index.
Posting(r) ==
    \/ /\ arg[r].op = "UploadFile"
       /\ pc[r] \in {"lookupFolder", "insertFolder", "upsertFile"}
    \/ /\ arg[r].op = "MoveFile"
       /\ pc[r] \in {"deleteSource", "lookupFolder", "insertFolder", "findRow",
                     "lookupDst", "insertDst", "upsertFile"}

Renaming(r) ==
    /\ arg[r].op = "RenameFile"
    /\ pc[r] \in {"lookupFolder", "insertFolder", "findRow", "upsertFile"}

Pruning(r) ==
    /\ arg[r].op \in {"DeleteFile", "MoveFile"}
    /\ pc[r] \in {"lookupFolder", "insertFolder", "findRow", "lookupDst", "insertDst",
                  "upsertFile", "readBack", "findToPrune", "pruneRow"}

\* The channel a request posts to.
Home(r) == IF arg[r].op = "MoveFile" THEN arg[r].dst ELSE arg[r].channel

\* The index is behind with message m of channel c, because of request r.
Behind(r, c, m) ==
    \/ Posting(r) /\ c = Home(r) /\ m = local[r].new
    \/ (Renaming(r) \/ Pruning(r)) /\ c = arg[r].channel /\ m = arg[r].message

\* What request r did to Telegram is there until it has told the index, and the
\* row it is about to prune is there to be pruned.
AccountOK(r) ==
    /\ Posting(r) => Message(Home(r), local[r].new) # {}
    /\ Posting(r) /\ arg[r].op = "UploadFile" =>
          NamesOf(Message(Home(r), local[r].new)) = {arg[r].name}
    /\ Posting(r) /\ arg[r].op = "MoveFile" =>
          ~(arg[r].dst = arg[r].channel /\ local[r].new = arg[r].message)
    /\ Renaming(r) =>
          NamesOf(Message(arg[r].channel, arg[r].message)) = {arg[r].name}
    /\ Pruning(r) => Message(arg[r].channel, arg[r].message) = {}
    /\ pc[r] = "pruneRow" => local[r].row \in files
    /\ pc[r] # "returned" => result[r] = "none"
    /\ arg[r].op \in {"DeleteFile", "MoveFile"} /\ result[r] = "ok" =>
          Gone(arg[r].channel, arg[r].message)

\* The row that request r will look for is there and has the name that it will
\* write: that of the message it posted.
CacheOK(r) ==
    /\ \/ Renaming(r) /\ pc[r] # "upsertFile"
       \/ arg[r].op = "MoveFile"
          /\ pc[r] \in {"deleteSource", "lookupFolder", "insertFolder", "findRow"}
       => RowsOf(arg[r].channel, arg[r].message) # {}
    /\ /\ arg[r].op = "MoveFile"
       /\ pc[r] \in {"deleteSource", "lookupFolder", "insertFolder", "findRow"}
       => \A f \in RowsOf(arg[r].channel, arg[r].message) :
             NamesOf(Message(arg[r].dst, local[r].new)) = {f.name}
    /\ arg[r].op = "MoveFile" /\ pc[r] \in {"lookupDst", "insertDst", "upsertFile"} =>
          NamesOf(Message(arg[r].dst, local[r].new)) = {local[r].row.name}

\* One request at a time is open.
OneInFlight == \A q, r \in InFlight : q = r

\* Messages are posted to live channels only.
LifeInv ==
    \A c \in Channels :
        /\ life[c] # "live" => messages[c] = {}
        /\ life[c] = "unused" => nextMessage[c] = 1

\* All of Telegram was in the index at first, and no request was told of an
\* error after it had begun.
Untroubled ==
    /\ NumIndexed = NumExisting
    /\ \A r \in Requests : result[r] \notin {"failed", "not_found"}

\* Until then the index agrees with every live channel, apart from what the one
\* open request has yet to tell it.
AgreeInv ==
    /\ \A r \in Requests : CacheOK(r)
    /\ \A c \in Channels : \A m \in Posted(c) :
          life[c] = "live" => Agrees(c, m) \/ \E r \in Requests : Behind(r, c, m)

\* The inductive invariant of a drive that serves one client at a time.
SeqInv ==
    /\ OneInFlight /\ LifeInv
    /\ \A r \in Requests : AccountOK(r)
    /\ Untroubled => AgreeInv

-----------------------------------------------------------------------------
(* What the index serves, and what no step brings back.                    *)

\* Each channel has one folder id, and each id is of one channel.
LEMMA FolderOfId ==
    ASSUME Inv, NEW id, NEW c, IsFolder(id, c)
    PROVE  /\ \A b : IsFolder(id, b) <=> b = c
           /\ \A i : IsFolder(i, c) <=> i = id
BY DEF IsFolder, Inv, IndexInv, RowsUnique

\* The rows served of a channel's message are those under the channel's row.
LEMMA RowsOfFolder ==
    ASSUME Inv, NEW id, NEW c, IsFolder(id, c), NEW m
    PROVE  RowsOf(c, m) = FileRows(id, m)
BY FolderOfId DEF RowsOf, FileRows

\* A folder row may come, and what is served stays.
LEMMA RowsStay ==
    ASSUME Inv, Inv', OnlyGrows, UNCHANGED files, NEW c, NEW m
    PROVE  RowsOf(c, m)' = RowsOf(c, m)
<1>1. ASSUME NEW f \in files
      PROVE  IsFolder(f.folder, c)' <=> IsFolder(f.folder, c)
  <2>1. PICK d \in folders : d.id = f.folder
    BY DEF Inv, IndexInv, RowsAreReal
  <2>2. PICK e \in folders' : e.id = d.id /\ e.channel = d.channel
    BY DEF OnlyGrows
  <2>3. IsFolder(f.folder, c) <=> c = d.channel
    BY <2>1, FolderOfId DEF IsFolder
  <2>4. IsFolder(f.folder, c)' <=> c = e.channel
    BY <2>1, <2>2 DEF IsFolder, Inv, IndexInv, RowsUnique
  <2> QED
    BY <2>2, <2>3, <2>4
<1> QED
  BY <1>1 DEF RowsOf

\* A request that is not in flight has nothing to tell the index.
LEMMA Settled ==
    ASSUME NEW r \in Requests, pc[r] \in {"idle", "returned"}
    PROVE  /\ ~Posting(r) /\ ~Renaming(r) /\ ~Pruning(r)
           /\ \A c, m : ~Behind(r, c, m)
           /\ CacheOK(r)
BY DEF Posting, Renaming, Pruning, Behind, CacheOK

\* The invariant holds again once it does so of the one request that moves.
LEMMA SeqFrom ==
    ASSUME Inv, Inv', SeqInv, NEW r \in Requests, InFlight \subseteq {r}, Alone(r),
           pc[r] # "returned",
           LifeInv', AccountOK(r)',
           \A c \in Channels : \A m \in Posted(c) : Gone(c, m) => Gone(c, m)',
           Untroubled /\ AgreeInv /\ Untroubled' =>
               /\ CacheOK(r)'
               /\ \A c \in Channels : \A m \in Posted(c)' :
                     life'[c] = "live" => Agrees(c, m)' \/ Behind(r, c, m)'
    PROVE  SeqInv'
<1>1. ASSUME NEW q \in Requests, q # r
      PROVE  /\ pc[q] \in {"idle", "returned"}
             /\ pc'[q] = pc[q] /\ arg'[q] = arg[q] /\ result'[q] = result[q]
  BY <1>1 DEF InFlight, Alone
<1>2. OneInFlight'
  BY <1>1 DEF OneInFlight, InFlight
<1>3. ASSUME NEW q \in Requests PROVE AccountOK(q)'
  <2>1. CASE q = r
    BY <2>1
  <2>2. CASE q # r
    <3>1. AccountOK(q)
      BY DEF SeqInv
    <3>2. ~Posting(q)' /\ ~Renaming(q)' /\ ~Pruning(q)' /\ pc'[q] # "pruneRow"
      BY <1>1, <2>2 DEF Posting, Renaming, Pruning
    <3>3. arg[q].op \in {"DeleteFile", "MoveFile"} =>
             arg[q].channel \in Channels /\ arg[q].message \in Posted(arg[q].channel)
      BY DEF Inv, RequestInv, ArgOK
    <3>4. ASSUME arg[q].op \in {"DeleteFile", "MoveFile"}, result[q] = "ok"
          PROVE  Gone(arg[q].channel, arg[q].message)'
      <4> PICK c \in Channels : c = arg[q].channel
        BY <3>3, <3>4
      <4> PICK m \in Posted(c) : m = arg[q].message
        BY <3>3, <3>4
      <4>1. Gone(c, m)
        BY <3>1, <3>4 DEF AccountOK
      <4>2. Gone(c, m)'
        BY <4>1
      <4>3. c = arg'[q].channel /\ m = arg'[q].message
        BY <1>1, <2>2
      <4> QED
        BY <4>2, <4>3
    <3>5. pc'[q] # "returned" => result'[q] = "none"
      BY <1>1, <2>2, <3>1 DEF AccountOK
    <3>6. arg'[q] = arg[q] /\ result'[q] = result[q]
      BY <1>1, <2>2
    <3> QED
      BY <3>2, <3>4, <3>5, <3>6 DEF AccountOK
  <2> QED
    BY <2>1, <2>2
<1>4. ASSUME Untroubled' PROVE AgreeInv'
  <2>1. result[r] = "none"
    BY DEF SeqInv, AccountOK
  <2>2. Untroubled
    BY <1>1, <1>4, <2>1 DEF Untroubled
  <2>3. AgreeInv
    BY <2>2 DEF SeqInv
  <2>4. \A q \in Requests : CacheOK(q)'
    BY <1>1, <1>4, <2>2, <2>3 DEF CacheOK, Renaming
  <2> QED
    BY <1>4, <2>2, <2>3, <2>4 DEF AgreeInv
<1> QED
  BY <1>2, <1>3, <1>4 DEF SeqInv

-----------------------------------------------------------------------------
(* Steps that leave files and messages alone.                              *)

\* A request that has not begun may be rejected while another one is open.
LEMMA SeqReject ==
    ASSUME Inv, SeqInv, NEW r \in Requests, Reject(r)
    PROVE  SeqInv'
<1>1. /\ pc[r] = "idle" /\ arg[r].op = "none"
      /\ pc'[r] = "returned" /\ result'[r] = "rejected"
      /\ \A q \in Requests \ {r} : pc'[q] = pc[q] /\ result'[q] = result[q]
      /\ UNCHANGED <<telegramVars, indexVars, arg, local>>
  BY MethodAt DEF Reject, Return, Goto, Inv, TypeOK
<1> USE DEF telegramVars, indexVars
<1>2. /\ UNCHANGED LifeInv
      /\ \A c, m : UNCHANGED <<Agrees(c, m), Gone(c, m), Posted(c)>>
      /\ \A c : UNCHANGED life[c]
  BY <1>1 DEF LifeInv, Agrees, Gone, Posted, RowsOf, IsFolder, Message
<1>3. OneInFlight'
  BY <1>1 DEF OneInFlight, InFlight, SeqInv
<1>4. ASSUME NEW q \in Requests
      PROVE  /\ AccountOK(q)' /\ (CacheOK(q) => CacheOK(q)')
             /\ \A c, m : Behind(q, c, m) => Behind(q, c, m)'
  <2>1. CASE q = r
    BY <1>1, <2>1, Settled DEF AccountOK, CacheOK, Posting, Renaming, Pruning
  <2>2. CASE q # r
    <3>1. UNCHANGED <<pc[q], arg[q], local[q], result[q]>>
      BY <1>1, <2>2
    <3>2. AccountOK(q)
      BY DEF SeqInv
    <3>3. UNCHANGED <<Posting(q), Renaming(q), Pruning(q), Home(q)>>
      BY <3>1 DEF Posting, Renaming, Pruning, Home
    <3>4. AccountOK(q)'
      BY <1>1, <3>1, <3>2, <3>3 DEF AccountOK, Message, Gone, RowsOf, IsFolder
    <3>5. CacheOK(q) => CacheOK(q)'
      BY <1>1, <3>1, <3>3 DEF CacheOK, Message, RowsOf, IsFolder
    <3>6. \A c, m : Behind(q, c, m) => Behind(q, c, m)'
      BY <3>1, <3>3 DEF Behind
    <3> QED
      BY <3>4, <3>5, <3>6
  <2> QED
    BY <2>1, <2>2
<1>5. Untroubled' => Untroubled
  <2>1. result[r] = "none"
    BY <1>1 DEF SeqInv, AccountOK
  <2> QED
    BY <1>1, <2>1 DEF Untroubled
<1>6. Untroubled' => AgreeInv'
  BY <1>2, <1>4, <1>5 DEF AgreeInv, SeqInv
<1> QED
  BY <1>2, <1>3, <1>4, <1>6 DEF SeqInv

\* A step of the open request that leaves files and messages alone, after which
\* the request has as much to tell the index as before, or nothing.
LEMMA SeqQuiet ==
    ASSUME Inv, Inv', SeqInv, NEW r \in Requests, r \in InFlight, Alone(r), OnlyGrows,
           UNCHANGED <<life, messages, nextMessage, files, arg>>,
           Posting(r)' => Posting(r), Renaming(r)' => Renaming(r),
           Pruning(r)' => Pruning(r),
           local'[r].new = local[r].new,
           pc'[r] = "pruneRow" => local'[r].row \in files,
           pc'[r] # "returned" => result'[r] = "none",
           arg[r].op \in {"DeleteFile", "MoveFile"} /\ result'[r] = "ok" =>
               Gone(arg[r].channel, arg[r].message),
           Untroubled' /\ CacheOK(r) =>
               /\ CacheOK(r)'
               /\ \A c, m : Behind(r, c, m) => Behind(r, c, m)' \/ Agrees(c, m)
    PROVE  SeqInv'
<1>1. InFlight \subseteq {r} /\ pc[r] # "returned"
  BY DEF SeqInv, OneInFlight, InFlight
<1>2. ASSUME NEW c, NEW m
      PROVE  UNCHANGED <<RowsOf(c, m), Message(c, m), Posted(c)>>
  BY RowsStay DEF Message, Posted
<1>3. ASSUME NEW c, NEW m
      PROVE  UNCHANGED <<Agrees(c, m), Gone(c, m)>>
  BY <1>2 DEF Agrees, Gone
<1>4. LifeInv'
  BY DEF LifeInv, SeqInv
<1>5. AccountOK(r)'
  <2>1. AccountOK(r) /\ UNCHANGED <<arg[r], Home(r), local[r].new>>
    BY DEF SeqInv, Home
  <2>2. ASSUME NEW c, NEW m PROVE UNCHANGED Message(c, m)
    BY <1>2
  <2>3. arg[r].op \in {"DeleteFile", "MoveFile"} /\ result'[r] = "ok" =>
           Gone(arg[r].channel, arg[r].message)'
    BY <1>2 DEF Gone
  <2> QED
    BY <2>1, <2>2, <2>3 DEF AccountOK, NamesOf, Message
<1>6. ASSUME Untroubled, AgreeInv, Untroubled'
      PROVE  /\ CacheOK(r)'
             /\ \A c \in Channels : \A m \in Posted(c)' :
                   life'[c] = "live" => Agrees(c, m)' \/ Behind(r, c, m)'
  <2>1. CacheOK(r)
    BY <1>6 DEF AgreeInv
  <2>2. ASSUME NEW q \in Requests, NEW c, NEW m, Behind(q, c, m) PROVE q = r
    BY <1>1, <2>2, Settled DEF InFlight
  <2>3. ASSUME NEW c \in Channels, NEW m \in Posted(c), life[c] = "live"
        PROVE  Agrees(c, m) \/ Behind(r, c, m)'
    <3>1. Agrees(c, m) \/ Behind(r, c, m)
      BY <1>6, <2>2, <2>3 DEF AgreeInv
    <3> QED
      BY <1>6, <2>1, <3>1
  <2>4. ASSUME NEW c \in Channels, NEW m \in Posted(c)', life'[c] = "live"
        PROVE  Agrees(c, m)' \/ Behind(r, c, m)'
    <3>1. m \in Posted(c) /\ life[c] = "live"
      BY <1>2, <2>4
    <3> QED
      BY <1>3, <2>3, <3>1
  <2> QED
    BY <1>6, <2>1, <2>4
<1> QED
  BY <1>1, <1>3, <1>4, <1>5, <1>6, SeqFrom

\* The request returns.
LEMMA SeqReturn ==
    ASSUME Inv, Inv', SeqInv, NEW r \in Requests, r \in InFlight,
           NEW outcome \in {"ok", "rejected", "failed", "not_found"}, Return(r, outcome),
           UNCHANGED <<life, messages, nextMessage, indexVars, arg, local>>,
           arg[r].op \in {"DeleteFile", "MoveFile"} /\ outcome = "ok" =>
               Gone(arg[r].channel, arg[r].message),
           outcome \in {"ok", "rejected"} /\ Untroubled /\ CacheOK(r) =>
               \A c, m : Behind(r, c, m) => Agrees(c, m)
    PROVE  SeqInv'
<1>1. /\ pc'[r] = "returned" /\ result'[r] = outcome
      /\ Alone(r)
      /\ UNCHANGED files
  BY DEF Return, Goto, Alone, indexVars, Inv, TypeOK
<1>2. OnlyGrows
  BY SameIndex DEF Inv
<1>3. ~Posting(r)' /\ ~Renaming(r)' /\ ~Pruning(r)' /\ CacheOK(r)'
  BY <1>1 DEF Posting, Renaming, Pruning, CacheOK
<1>4. ASSUME Untroubled' PROVE outcome \in {"ok", "rejected"} /\ Untroubled
  <2>1. result[r] = "none"
    BY DEF SeqInv, AccountOK, InFlight
  <2> QED
    BY <1>1, <1>4, <2>1 DEF Untroubled, Alone
<1> QED
  BY <1>1, <1>2, <1>3, <1>4, SeqQuiet

LEMMA SeqPanicOnName ==
    ASSUME Inv, Inv', SeqInv, NEW r \in Requests, PanicOnName(r)
    PROVE  SeqInv'
BY SeqReturn DEF PanicOnName, InFlight, telegramVars

LEMMA SeqFail ==
    ASSUME Inv, Inv', SeqInv, NEW r \in Requests, Fail(r)
    PROVE  SeqInv'
BY SeqReturn DEF Fail, InFlight, telegramVars

\* The methods that leave files alone have nothing to tell the index of files.
LEMMA NotOfFiles ==
    ASSUME NEW r \in Requests,
           arg[r].op \notin {"UploadFile", "RenameFile", "DeleteFile", "MoveFile"}
    PROVE  ~Posting(r) /\ ~Renaming(r) /\ ~Pruning(r) /\ \A c, m : ~Behind(r, c, m)
BY DEF Posting, Renaming, Pruning, Behind

LEMMA SeqEditTitle ==
    ASSUME Inv, Inv', SeqInv, NEW r \in Requests, EditTitle(r)
    PROVE  SeqInv'
<1>1. pc[r] = "editTitle" /\ arg[r].op = "RenameFolder"
      /\ UNCHANGED <<life, messages, nextMessage, indexVars, arg, local>>
  BY MethodAt DEF EditTitle, Inv
<1>2. PICK outcome \in {"ok", "rejected"} : Return(r, outcome)
  BY DEF EditTitle
<1> QED
  BY <1>1, <1>2, NotOfFiles, SeqReturn DEF InFlight

LEMMA SeqReads ==
    ASSUME Inv, Inv', SeqInv, NEW r \in Requests,
           ListDialogs(r) \/ ListFiles(r) \/ Download(r)
    PROVE  SeqInv'
<1>1. /\ pc[r] \in {"listDialogs", "listFiles", "download"}
      /\ UNCHANGED <<life, messages, nextMessage, indexVars, arg, local>>
  BY DEF ListDialogs, ListFiles, Download, telegramVars
<1>2. PICK outcome \in {"ok", "rejected"} : Return(r, outcome)
  BY DEF ListDialogs, ListFiles, Download
<1>3. arg[r].op \notin {"UploadFile", "RenameFile", "DeleteFile", "MoveFile"}
  <2>1. arg[r].op \in Methods \cup {"none"} /\ pc[r] \in Stages(arg[r].op)
    BY <1>1 DEF Inv, TypeOK, Args
  <2> QED
    BY <1>1, <2>1 DEF Stages
<1> QED
  BY <1>1, <1>2, <1>3, NotOfFiles, SeqReturn DEF InFlight

LEMMA SeqSetHistoryTTL ==
    ASSUME Inv, Inv', SeqInv, NEW r \in Requests, SetHistoryTTL(r)
    PROVE  SeqInv'
<1>1. /\ pc[r] = "setHistoryTTL" /\ pc'[r] = "lookupFolder"
      /\ Alone(r)
      /\ UNCHANGED <<telegramVars, indexVars, arg, local, result>>
  BY DEF SetHistoryTTL, Goto, Alone, Inv, TypeOK
<1>2. arg[r].op = "CreateFolder" /\ arg'[r].op = "CreateFolder"
  BY <1>1, MethodAt DEF Inv
<1>3. r \in InFlight /\ result'[r] = "none"
  BY <1>1 DEF InFlight, SeqInv, AccountOK
<1>4. OnlyGrows
  BY <1>1, SameIndex DEF Inv, telegramVars
<1>5. ~Posting(r)' /\ ~Renaming(r)' /\ ~Pruning(r)' /\ CacheOK(r)'
  BY <1>2 DEF Posting, Renaming, Pruning, CacheOK
<1>6. UNCHANGED <<life, messages, nextMessage, files, arg>> /\ local'[r].new = local[r].new
  BY <1>1 DEF telegramVars, indexVars
<1> QED
  BY <1>1, <1>2, <1>3, <1>4, <1>5, <1>6, NotOfFiles, SeqQuiet

\* What the open request looked up is as good as before.
LEMMA CacheStays ==
    ASSUME Inv, Inv', NEW r \in Requests, OnlyGrows, UNCHANGED <<messages, files, arg>>,
           CacheOK(r),
           Renaming(r)' /\ pc'[r] # "upsertFile" => Renaming(r) /\ pc[r] # "upsertFile",
           local'[r].new = local[r].new,
           arg[r].op = "MoveFile" =>
               /\ pc'[r] \in {"deleteSource", "lookupFolder", "insertFolder", "findRow"} =>
                     pc[r] \in {"deleteSource", "lookupFolder", "insertFolder", "findRow"}
               /\ pc'[r] \in {"lookupDst", "insertDst", "upsertFile"} =>
                     /\ pc[r] \in {"lookupDst", "insertDst", "upsertFile"}
                     /\ local'[r].row = local[r].row
    PROVE  CacheOK(r)'
<1>1. UNCHANGED RowsOf(arg[r].channel, arg[r].message)
  BY RowsStay
<1> QED
  BY <1>1 DEF CacheOK, Message, NamesOf

\* The folder of the request is found, or is inserted.
LEMMA SeqResolved ==
    ASSUME Inv, Inv', SeqInv, NEW r \in Requests, pc[r] \in {"lookupFolder", "insertFolder"},
           NEW f, Resolved(r, f), OnlyGrows,
           UNCHANGED <<life, messages, nextMessage, files, arg>>
    PROVE  SeqInv'
<1> DEFINE op == arg[r].op
<1>1. /\ Alone(r)
      /\ pc'[r] = AfterEnsure(op)
      /\ local'[r].new = local[r].new /\ local'[r].row = local[r].row
      /\ op # "CreateFolder" => result'[r] = result[r]
      /\ op = "CreateFolder" => result'[r] = "ok"
  BY DEF Resolved, Goto, Alone, Inv, TypeOK, Locals
<1>2. op \in {"CreateFolder", "ListFiles", "UploadFile", "RenameFile", "DeleteFile",
              "MoveFile"}
  BY MethodAt DEF Inv
<1>3. r \in InFlight /\ result[r] = "none"
  BY DEF InFlight, SeqInv, AccountOK
<1>4. /\ op = "CreateFolder" => pc'[r] = "returned"
      /\ op = "ListFiles" => pc'[r] = "listFiles"
      /\ op = "UploadFile" => pc'[r] = "upsertFile"
      /\ op \in {"RenameFile", "MoveFile"} => pc'[r] = "findRow"
      /\ op = "DeleteFile" => pc'[r] = "findToPrune"
  BY <1>1 DEF AfterEnsure
<1>5. /\ Posting(r)' => Posting(r)
      /\ Renaming(r)' => Renaming(r)
      /\ Pruning(r)' => Pruning(r)
  BY <1>2 DEF Posting, Renaming, Pruning
<1>6. CacheOK(r) => CacheOK(r)'
  BY <1>1, <1>2, <1>4, <1>5, CacheStays DEF Renaming
<1>7. ASSUME NEW c, NEW m, Behind(r, c, m) PROVE Behind(r, c, m)'
  BY <1>1, <1>2, <1>4, <1>7 DEF Behind, Posting, Renaming, Pruning, Home
<1>8. /\ pc'[r] # "pruneRow"
      /\ pc'[r] # "returned" => result'[r] = "none"
      /\ arg[r].op \in {"DeleteFile", "MoveFile"} => result'[r] # "ok"
  BY <1>1, <1>2, <1>3, <1>4
<1> QED
  BY <1>1, <1>3, <1>5, <1>6, <1>7, <1>8, SeqQuiet

\* The destination of a move is found, or is inserted.
LEMMA SeqResolvedDst ==
    ASSUME Inv, Inv', SeqInv, NEW r \in Requests, pc[r] \in {"lookupDst", "insertDst"},
           NEW f, ResolvedDst(r, f), OnlyGrows,
           UNCHANGED <<life, messages, nextMessage, files, arg>>
    PROVE  SeqInv'
<1>1. /\ Alone(r)
      /\ pc'[r] = "upsertFile"
      /\ local'[r].new = local[r].new /\ local'[r].row = local[r].row
      /\ UNCHANGED result
  BY DEF ResolvedDst, Goto, Alone, Inv, TypeOK, Locals
<1>2. arg[r].op = "MoveFile" /\ arg'[r] = arg[r]
  BY MethodAt DEF Inv
<1>3. r \in InFlight /\ result'[r] = "none"
  BY <1>1 DEF InFlight, SeqInv, AccountOK
<1>4. Posting(r) /\ ~Renaming(r)' /\ Pruning(r)
  BY <1>1, <1>2 DEF Posting, Renaming, Pruning
<1>5. CacheOK(r) => CacheOK(r)'
  BY <1>1, <1>2, <1>4, CacheStays
<1>6. ASSUME NEW c, NEW m, Behind(r, c, m) PROVE Behind(r, c, m)'
  BY <1>1, <1>2, <1>6 DEF Behind, Posting, Renaming, Pruning, Home
<1> QED
  BY <1>1, <1>3, <1>4, <1>5, <1>6, SeqQuiet

LEMMA SeqLookupFolder ==
    ASSUME Inv, Inv', SeqInv, NEW r \in Requests, LookupFolder(r)
    PROVE  SeqInv'
<1>1. /\ UNCHANGED <<life, messages, nextMessage, files, arg>>
      /\ UNCHANGED <<indexVars, telegramVars>>
  BY DEF LookupFolder, telegramVars, indexVars
<1>2. OnlyGrows
  BY <1>1, SameIndex DEF Inv
<1>3. ASSUME pc[r] = "lookupFolder", NEW f, Resolved(r, f) PROVE SeqInv'
  BY <1>1, <1>2, <1>3, SeqResolved
<1>4. ASSUME pc[r] = "lookupDst", NEW f, ResolvedDst(r, f) PROVE SeqInv'
  BY <1>1, <1>2, <1>4, SeqResolvedDst
<1>5. ASSUME NEW where, UNCHANGED <<local, result>>, Goto(r, where),
             \/ pc[r] = "lookupFolder" /\ where = "insertFolder"
             \/ pc[r] = "lookupDst" /\ where = "insertDst"
      PROVE  SeqInv'
  <2>1. Alone(r) /\ pc'[r] = where /\ arg'[r] = arg[r] /\ local'[r] = local[r]
    BY <1>1, <1>5 DEF Goto, Alone, Inv, TypeOK
  <2>2. r \in InFlight /\ result'[r] = "none"
    BY <1>5 DEF InFlight, SeqInv, AccountOK
  <2>3. pc[r] = "lookupDst" => arg[r].op = "MoveFile"
    BY MethodAt DEF Inv
  <2>4. /\ Posting(r)' => Posting(r)
        /\ Renaming(r)' => Renaming(r)
        /\ Pruning(r)' => Pruning(r)
    BY <1>5, <2>1, <2>3 DEF Posting, Renaming, Pruning
  <2>5. CacheOK(r) => CacheOK(r)'
    BY <1>1, <1>2, <1>5, <2>1, <2>4, CacheStays DEF Renaming
  <2>6. ASSUME NEW c, NEW m, Behind(r, c, m) PROVE Behind(r, c, m)'
    BY <1>5, <2>1, <2>3, <2>6 DEF Behind, Posting, Renaming, Pruning, Home
  <2> QED
    BY <1>1, <1>2, <1>5, <2>1, <2>2, <2>4, <2>5, <2>6, SeqQuiet
<1> QED
  BY <1>3, <1>4, <1>5 DEF LookupFolder

LEMMA SeqInsertFolder ==
    ASSUME Inv, Inv', SeqInv, NEW r \in Requests, InsertFolder(r)
    PROVE  SeqInv'
<1>1. /\ UNCHANGED <<life, messages, nextMessage, files, nextFile, dialect, arg>>
      /\ pc[r] \in {"insertFolder", "insertDst"}
  BY DEF InsertFolder, telegramVars
<1> PICK t \in TitlesToInsert(r) :
      \/ /\ pc[r] = "insertFolder"
         /\ UpsertFolder(arg[r].channel, NameOf[t].text)
         /\ (\E f \in folders' : Resolved(r, f)) \/ FailAfter(r)
      \/ /\ pc[r] = "insertDst"
         /\ UpsertFolder(arg[r].dst, NameOf[t].text)
         /\ (\E f \in folders' : ResolvedDst(r, f)) \/ FailAfter(r)
      \/ /\ Return(r, "failed")
         /\ UNCHANGED <<folders, nextFolder, local>>
  BY DEF InsertFolder
<1>2. ArgOK(r)
  BY DEF Inv, RequestInv
<1>3. NameOf[t].text \in FolderRowNames
  <2>1. arg[r].op = "CreateFolder" => ~TitleOf[arg[r].folderName].panics
    BY <1>1, <1>2 DEF ArgOK
  <2>2. t \in ClientTitles
    BY <2>1, MadeTitle DEF TitlesToInsert, Inv, TypeOK, Args
  <2> QED
    BY <2>2 DEF FolderRowNames
<1>4. /\ pc[r] = "insertFolder" => arg[r].channel \in Channels
      /\ pc[r] = "insertDst" => arg[r].dst \in Channels
  BY <1>2, MethodAt DEF Inv, ArgOK
<1>5. ASSUME NEW c \in Channels, NEW n \in FolderRowNames, UpsertFolder(c, n)
      PROVE  OnlyGrows
  BY <1>1, <1>5, UpsertFolderFits
<1>6. CASE pc[r] = "insertFolder" /\ UpsertFolder(arg[r].channel, NameOf[t].text)
           /\ \E f \in folders' : Resolved(r, f)
  BY <1>1, <1>3, <1>4, <1>5, <1>6, SeqResolved
<1>7. CASE pc[r] = "insertDst" /\ UpsertFolder(arg[r].dst, NameOf[t].text)
           /\ \E f \in folders' : ResolvedDst(r, f)
  BY <1>1, <1>3, <1>4, <1>5, <1>7, SeqResolvedDst
<1>8. CASE Return(r, "failed") /\ UNCHANGED <<folders, nextFolder, local>>
  BY <1>1, <1>8, SeqReturn DEF InFlight, indexVars
<1>9. ASSUME NEW c \in Channels, UpsertFolder(c, NameOf[t].text), FailAfter(r)
      PROVE  SeqInv'
  <2>1. /\ OnlyGrows /\ Alone(r) /\ pc'[r] = "returned" /\ result'[r] = "failed"
        /\ UNCHANGED local
    BY <1>1, <1>3, <1>5, <1>9 DEF FailAfter, Return, Goto, Alone, Inv, TypeOK
  <2>2. ~Posting(r)' /\ ~Renaming(r)' /\ ~Pruning(r)' /\ ~Untroubled'
    BY <2>1 DEF Posting, Renaming, Pruning, Untroubled
  <2>3. r \in InFlight
    BY <1>1 DEF InFlight
  <2> QED
    BY <1>1, <2>1, <2>2, <2>3, SeqQuiet
<1> QED
  BY <1>4, <1>6, <1>7, <1>8, <1>9

\* No row under the request's folder is none under its channel.
LEMMA NothingFound ==
    ASSUME Inv, NEW r \in Requests, pc[r] \in {"findRow", "findToPrune"}
    PROVE  RowsOf(arg[r].channel, arg[r].message) = FileRows(local[r].folder, arg[r].message)
<1>1. IsFolder(local[r].folder, arg[r].channel)
  BY DEF Inv, RequestInv, LocalOK
<1> QED
  BY <1>1, RowsOfFolder

LEMMA SeqFindRow ==
    ASSUME Inv, Inv', SeqInv, NEW r \in Requests, FindRow(r)
    PROVE  SeqInv'
<1> DEFINE a == arg[r]
           rows == FileRows(local[r].folder, a.message)
<1>1. /\ pc[r] = "findRow" /\ a.op \in {"RenameFile", "MoveFile"}
      /\ UNCHANGED <<life, messages, nextMessage, files, indexVars, arg>>
  BY MethodAt DEF FindRow, telegramVars, indexVars, Inv
<1>2. r \in InFlight /\ result[r] = "none" /\ OnlyGrows
  BY <1>1, SameIndex DEF InFlight, SeqInv, AccountOK, Inv
<1>3. rows = RowsOf(a.channel, a.message)
  BY <1>1, NothingFound
<1>4. ASSUME NEW x \in rows, local' = [local EXCEPT ![r].row = x],
             Goto(r, IF a.op = "MoveFile" THEN "lookupDst" ELSE "upsertFile"),
             UNCHANGED result
      PROVE  SeqInv'
  <2>1. /\ Alone(r) /\ arg'[r] = a
        /\ a.op = "MoveFile" => pc'[r] = "lookupDst"
        /\ a.op # "MoveFile" => pc'[r] = "upsertFile"
    BY <1>1, <1>4 DEF Goto, Alone, Inv, TypeOK
  <2>2. local'[r].new = local[r].new /\ local'[r].row = x
    BY <1>4, RowFound
  <2>3. /\ Posting(r)' => Posting(r)
        /\ Renaming(r)' => Renaming(r) /\ pc'[r] = "upsertFile"
        /\ Pruning(r)' => Pruning(r)
    BY <1>1, <2>1 DEF Posting, Renaming, Pruning
  <2>4. CacheOK(r) => CacheOK(r)'
    <3>1. a.op = "MoveFile" /\ CacheOK(r) => NamesOf(Message(a.dst, local[r].new)) = {x.name}
      BY <1>1, <1>3, <1>4 DEF CacheOK
    <3>2. a.op = "MoveFile" /\ CacheOK(r) =>
             NamesOf(Message(arg[r].dst, local[r].new))' = {local[r].row.name}'
      BY <1>1, <2>1, <2>2, <3>1 DEF Message, NamesOf
    <3> QED
      BY <1>1, <2>1, <2>3, <3>2 DEF CacheOK
  <2>5. ASSUME NEW c, NEW m, Behind(r, c, m) PROVE Behind(r, c, m)'
    BY <1>1, <2>1, <2>2, <2>5 DEF Behind, Posting, Renaming, Pruning, Home
  <2>6. pc'[r] # "pruneRow" /\ result'[r] = "none"
    BY <1>2, <1>4, <2>1
  <2> QED
    BY <1>1, <1>2, <2>1, <2>2, <2>3, <2>4, <2>5, <2>6, SeqQuiet
<1>5. ASSUME rows = {}, Return(r, "ok"), UNCHANGED local
      PROVE  SeqInv'
  <2>1. a.op = "MoveFile" => Gone(a.channel, a.message)
    BY <1>1, <1>3, <1>5 DEF Gone, SeqInv, AccountOK, Pruning
  <2>2. ~CacheOK(r)
    BY <1>1, <1>3, <1>5 DEF CacheOK, Renaming
  <2> QED
    BY <1>1, <1>2, <1>5, <2>1, <2>2, SeqReturn
<1> QED
  BY <1>4, <1>5 DEF FindRow

LEMMA SeqFindToPrune ==
    ASSUME Inv, Inv', SeqInv, NEW r \in Requests, FindToPrune(r)
    PROVE  SeqInv'
<1> DEFINE a == arg[r]
           rows == FileRows(local[r].folder, a.message)
<1>1. /\ pc[r] = "findToPrune" /\ a.op \in {"DeleteFile", "MoveFile"}
      /\ UNCHANGED <<life, messages, nextMessage, files, indexVars, arg>>
  BY MethodAt DEF FindToPrune, telegramVars, indexVars, Inv
<1>2. r \in InFlight /\ result[r] = "none" /\ OnlyGrows
  BY <1>1, SameIndex DEF InFlight, SeqInv, AccountOK, Inv
<1>3. rows = RowsOf(a.channel, a.message)
  BY <1>1, NothingFound
<1>4. ASSUME NEW x \in rows, local' = [local EXCEPT ![r].row = x],
             Goto(r, "pruneRow"), UNCHANGED result
      PROVE  SeqInv'
  <2>1. Alone(r) /\ arg'[r] = a /\ pc'[r] = "pruneRow" /\ result'[r] = "none"
    BY <1>1, <1>2, <1>4 DEF Goto, Alone, Inv, TypeOK
  <2>2. local'[r].new = local[r].new /\ local'[r].row = x /\ x \in files
    BY <1>4, RowFound
  <2>3. ~Posting(r)' /\ ~Renaming(r)' /\ Pruning(r)
    BY <1>1, <2>1 DEF Posting, Renaming, Pruning
  <2>4. CacheOK(r)'
    BY <1>1, <2>1, <2>3 DEF CacheOK
  <2>5. ASSUME NEW c, NEW m, Behind(r, c, m) PROVE Behind(r, c, m)'
    BY <1>1, <2>1, <2>5 DEF Behind, Posting, Renaming, Pruning
  <2> QED
    BY <1>1, <1>2, <2>1, <2>2, <2>3, <2>4, <2>5, SeqQuiet
<1>5. ASSUME rows = {}, Return(r, "ok"), UNCHANGED local
      PROVE  SeqInv'
  <2>1. Gone(a.channel, a.message)
    BY <1>1, <1>3, <1>5 DEF Gone, SeqInv, AccountOK, Pruning
  <2>2. ASSUME NEW c, NEW m, Behind(r, c, m) PROVE Agrees(c, m)
    BY <1>1, <2>1, <2>2 DEF Behind, Posting, Renaming, Gone, Agrees, NamesOf
  <2> QED
    BY <1>1, <1>2, <1>5, <2>1, <2>2, SeqReturn
<1> QED
  BY <1>4, <1>5 DEF FindToPrune

LEMMA SeqReadBack ==
    ASSUME Inv, Inv', SeqInv, NEW r \in Requests, ReadBack(r)
    PROVE  SeqInv'
<1>1. /\ pc[r] = "readBack"
      /\ UNCHANGED <<life, messages, nextMessage, files, indexVars, arg, local>>
      /\ arg[r].op \in {"UploadFile", "RenameFile", "MoveFile"}
  BY MethodAt DEF ReadBack, telegramVars, indexVars, Inv
<1>2. r \in InFlight /\ result[r] = "none" /\ OnlyGrows
  BY <1>1, SameIndex DEF InFlight, SeqInv, AccountOK, Inv
<1>3. CASE Return(r, "failed")
  BY <1>1, <1>2, <1>3, SeqReturn
<1>4. CASE arg[r].op = "MoveFile" /\ Goto(r, "findToPrune") /\ UNCHANGED result
  <2>1. Alone(r) /\ arg'[r] = arg[r] /\ pc'[r] = "findToPrune" /\ result'[r] = "none"
    BY <1>1, <1>2, <1>4 DEF Goto, Alone, Inv, TypeOK
  <2>2. ~Posting(r)' /\ ~Renaming(r)' /\ Pruning(r)
    BY <1>1, <1>4, <2>1 DEF Posting, Renaming, Pruning
  <2>3. CacheOK(r)'
    BY <2>1, <2>2 DEF CacheOK
  <2>4. ASSUME NEW c, NEW m, Behind(r, c, m) PROVE Behind(r, c, m)'
    BY <1>1, <1>4, <2>1, <2>4 DEF Behind, Posting, Renaming, Pruning
  <2> QED
    BY <1>1, <1>2, <2>1, <2>2, <2>3, <2>4, SeqQuiet
<1>5. CASE arg[r].op # "MoveFile" /\ Return(r, "ok")
  <2>1. \A c, m : ~Behind(r, c, m)
    BY <1>1, <1>5 DEF Behind, Posting, Renaming, Pruning
  <2> QED
    BY <1>1, <1>2, <1>5, <2>1, SeqReturn
<1> QED
  BY <1>3, <1>4, <1>5 DEF ReadBack, Upserted

-----------------------------------------------------------------------------
(* Steps that begin a request, or change the account.                      *)

LEMMA OneIsOne == \A x : Cardinality({x}) = 1
BY FS_Singleton

\* A client that waits for its call to return is the only one.
LEMMA NoneOpen ==
    ASSUME MaxInFlight = 1, SeqInv, NEW r \in Requests, Call(r)
    PROVE  InFlight = {}
<1> SUFFICES ASSUME NEW q \in InFlight PROVE FALSE
  OBVIOUS
<1>1. InFlight = {q}
  BY DEF SeqInv, OneInFlight
<1>2. Cardinality(InFlight) = 1
  <2>1. Cardinality({q}) = 1
    BY OneIsOne
  <2> QED
    BY <1>1, <2>1
<1>3. Cardinality(InFlight) < 1
  BY DEF Call
<1> QED
  BY <1>2, <1>3

\* With no request open the index is behind with nothing.
LEMMA SeqCall ==
    ASSUME MaxInFlight = 1, Inv, Inv', SeqInv, NEW r \in Requests, Call(r)
    PROVE  SeqInv'
<1> PICK op \in Ops : \E a \in Arguments(op) :
       arg' = [arg EXCEPT ![r] = a] /\ Goto(r, FirstStep(op))
  BY DEF Call
<1> PICK a \in Arguments(op) : arg' = [arg EXCEPT ![r] = a] /\ Goto(r, FirstStep(op))
  OBVIOUS
<1>1. a.op = op /\ op \in Methods
  BY DriveAssumption DEF Arguments
<1>2. /\ pc[r] = "idle"
      /\ UNCHANGED <<life, messages, nextMessage, folders, files, local, result>>
  BY DEF Call, telegramVars, indexVars
<1>3. Alone(r) /\ pc'[r] = FirstStep(op) /\ arg'[r].op = op
  BY <1>1, <1>2 DEF Goto, Alone, Inv, TypeOK
<1>4. InFlight = {}
  BY NoneOpen
<1>5. /\ ~Posting(r)' /\ ~Renaming(r)' /\ ~Pruning(r)'
      /\ CacheOK(r)'
      /\ pc'[r] # "pruneRow"
  BY <1>1, <1>3 DEF FirstStep, Methods, Posting, Renaming, Pruning, CacheOK
<1>6. result'[r] = "none"
  BY <1>2 DEF SeqInv, AccountOK
<1>7. LifeInv' /\ AccountOK(r)'
  BY <1>2, <1>5, <1>6 DEF LifeInv, SeqInv, AccountOK
<1>8. ASSUME NEW c, NEW m PROVE UNCHANGED <<Agrees(c, m), Gone(c, m), Posted(c)>>
  BY <1>2 DEF Agrees, Gone, RowsOf, IsFolder, Message, NamesOf, Posted
<1>9. ASSUME AgreeInv, NEW c \in Channels, NEW m \in Posted(c)', life'[c] = "live"
      PROVE  Agrees(c, m)'
  <2>1. m \in Posted(c) /\ life[c] = "live"
    BY <1>2, <1>8, <1>9
  <2>2. \A q \in Requests : ~Behind(q, c, m)
    BY <1>4, Settled DEF InFlight
  <2>3. Agrees(c, m)
    BY <1>9, <2>1, <2>2 DEF AgreeInv
  <2> QED
    BY <1>8, <2>3
<1> QED
  BY <1>2, <1>3, <1>4, <1>5, <1>7, <1>8, <1>9, SeqFrom

\* Nothing was posted to a new channel yet.
LEMMA SeqCreateChannel ==
    ASSUME Inv, Inv', SeqInv, NEW r \in Requests, CreateChannel(r)
    PROVE  SeqInv'
<1> PICK c \in Channels :
       /\ life[c] = "unused"
       /\ life' = [life EXCEPT ![c] = "live"]
       /\ arg' = [arg EXCEPT ![r].channel = c]
  BY DEF CreateChannel
<1>1. /\ pc[r] = "createChannel" /\ arg[r].op = "CreateFolder"
      /\ UNCHANGED <<messages, nextMessage, folders, files, local, result>>
  BY MethodAt DEF CreateChannel, indexVars, Inv
<1>2. /\ Alone(r) /\ pc'[r] = "setHistoryTTL" /\ arg'[r].op = "CreateFolder"
      /\ InFlight \subseteq {r} /\ result'[r] = "none"
  BY <1>1 DEF CreateChannel, Goto, Alone, Inv, TypeOK, SeqInv, OneInFlight, InFlight, AccountOK
<1>3. ~Posting(r)' /\ ~Renaming(r)' /\ ~Pruning(r)' /\ CacheOK(r)'
  BY <1>2 DEF Posting, Renaming, Pruning, CacheOK
<1>4. AccountOK(r)'
  BY <1>2, <1>3 DEF AccountOK
<1>5. /\ nextMessage[c] = 1
      /\ \A b \in Channels \ {c} : life'[b] = life[b]
      /\ life'[c] = "live"
  BY DEF SeqInv, LifeInv, Inv, TypeOK
<1>6. LifeInv'
  BY <1>1, <1>5 DEF LifeInv, SeqInv
<1>7. ASSUME NEW b, NEW m PROVE UNCHANGED <<Agrees(b, m), Gone(b, m), Posted(b)>>
  BY <1>1 DEF Agrees, Gone, RowsOf, IsFolder, Message, NamesOf, Posted
<1>8. ASSUME AgreeInv, NEW b \in Channels, NEW m \in Posted(b)', life'[b] = "live"
      PROVE  Agrees(b, m)'
  <2>1. m \in Posted(b) /\ life[b] = "live"
    <3>1. m \in Posted(b)
      BY <1>7, <1>8
    <3>2. b # c
      BY <1>5, <3>1 DEF Posted
    <3> QED
      BY <1>5, <1>8, <3>1, <3>2
  <2>2. \A q \in Requests : ~Behind(q, b, m)
    <3>1. \A q \in Requests : q = r \/ pc[q] \in {"idle", "returned"}
      BY <1>2 DEF InFlight
    <3> QED
      BY <1>1, <3>1, Settled, NotOfFiles
  <2>3. Agrees(b, m)
    BY <1>8, <2>1, <2>2 DEF AgreeInv
  <2> QED
    BY <1>7, <2>3
<1> QED
  BY <1>1, <1>2, <1>3, <1>4, <1>6, <1>7, <1>8, SeqFrom

\* The open request returns, or goes on, with what it changed on Telegram in one
\* place: every other message is as it was.
LEMMA SeqTelegram ==
    ASSUME Inv, Inv', SeqInv, NEW r \in Requests, r \in InFlight, Alone(r),
           UNCHANGED <<life, folders, files, arg>>, result'[r] = "none",
           NEW h \in Channels, NEW k, life[h] = "live",
           \A c \in Channels \ {h} : messages'[c] = messages[c] /\ nextMessage'[c] = nextMessage[c],
           \A m \in Posted(h) : m # k => Message(h, m)' = Message(h, m),
           \A m \in Posted(h)' : m \in Posted(h) \/ m = k,
           k \in Posted(h) /\ Gone(h, k) => Message(h, k)' = {},
           AccountOK(r)',
           Untroubled /\ AgreeInv => CacheOK(r)',
           Behind(r, h, k)',
           \A c, m : Behind(r, c, m) => Behind(r, c, m)'
    PROVE  SeqInv'
<1>1. InFlight \subseteq {r} /\ pc[r] # "returned"
  BY DEF SeqInv, OneInFlight, InFlight
<1>2. LifeInv'
  BY DEF LifeInv, SeqInv
<1>3. ASSUME NEW c, NEW m PROVE RowsOf(c, m)' = RowsOf(c, m)
  BY DEF RowsOf, IsFolder
<1>4. ASSUME NEW c \in Channels, NEW m \in Posted(c), ~(c = h /\ m = k)
      PROVE  Message(c, m)' = Message(c, m)
  BY <1>4 DEF Message
<1>5. ASSUME NEW c \in Channels, NEW m \in Posted(c), Gone(c, m)
      PROVE  Gone(c, m)'
  BY <1>3, <1>4, <1>5 DEF Gone
<1>6. ASSUME AgreeInv, NEW c \in Channels, NEW m \in Posted(c)', life'[c] = "live"
      PROVE  Agrees(c, m)' \/ Behind(r, c, m)'
  <2> SUFFICES ASSUME ~Behind(r, c, m)' PROVE Agrees(c, m)'
    OBVIOUS
  <2>1. ~(c = h /\ m = k) /\ ~Behind(r, c, m)
    OBVIOUS
  <2>2. m \in Posted(c) /\ life[c] = "live"
    BY <1>6, <2>1 DEF Posted
  <2>3. \A q \in Requests : ~Behind(q, c, m)
    BY <1>1, <2>1, Settled DEF InFlight
  <2>4. Agrees(c, m)
    BY <1>6, <2>2, <2>3 DEF AgreeInv
  <2> QED
    BY <1>3, <1>4, <2>1, <2>2, <2>4 DEF Agrees
<1> QED
  BY <1>1, <1>2, <1>5, <1>6, SeqFrom

\* A channel that is deleted is not one the index has to agree with.
LEMMA SeqDeleteChannel ==
    ASSUME Inv, Inv', SeqInv, NEW r \in Requests, DeleteChannel(r)
    PROVE  SeqInv'
<1>1. /\ pc[r] = "deleteChannel" /\ arg[r].op = "DeleteFolder"
      /\ UNCHANGED <<nextMessage, indexVars, folders, files, arg, local>>
  BY MethodAt DEF DeleteChannel, indexVars, Inv
<1>2. r \in InFlight /\ InFlight \subseteq {r}
  BY <1>1 DEF InFlight, SeqInv, OneInFlight
<1>3. \A q \in Requests : \A c, m : ~Behind(q, c, m)
  <2>1. \A q \in Requests : q = r \/ pc[q] \in {"idle", "returned"}
    BY <1>2 DEF InFlight
  <2> QED
    BY <1>1, <2>1, Settled, NotOfFiles
<1>4. CASE life[arg[r].channel] # "live" /\ Return(r, "rejected")
           /\ UNCHANGED <<life, messages>>
  BY <1>1, <1>2, <1>3, <1>4, SeqReturn
<1>5. CASE /\ life[arg[r].channel] = "live"
           /\ life' = [life EXCEPT ![arg[r].channel] = "deleted"]
           /\ messages' = [messages EXCEPT ![arg[r].channel] = {}]
           /\ Return(r, "ok")
  <2> PICK c \in Channels : c = arg[r].channel
    BY <1>1 DEF Inv, RequestInv, ArgOK
  <2>1. /\ life'[c] = "deleted" /\ messages'[c] = {}
        /\ \A b \in Channels \ {c} : life'[b] = life[b] /\ messages'[b] = messages[b]
        /\ Alone(r) /\ pc'[r] = "returned" /\ arg'[r].op = "DeleteFolder"
    BY <1>1, <1>5 DEF Return, Goto, Alone, Inv, TypeOK
  <2>2. ~Posting(r)' /\ ~Renaming(r)' /\ ~Pruning(r)' /\ CacheOK(r)'
    BY <2>1 DEF Posting, Renaming, Pruning, CacheOK
  <2>3. AccountOK(r)'
    BY <2>1, <2>2 DEF AccountOK
  <2>4. LifeInv'
    BY <1>1, <2>1 DEF LifeInv, SeqInv
  <2>5. ASSUME NEW b, NEW m PROVE UNCHANGED <<RowsOf(b, m), Posted(b)>>
    BY <1>1 DEF RowsOf, IsFolder, Posted
  <2>6. ASSUME NEW b \in Channels, NEW m \in Posted(b), Gone(b, m) PROVE Gone(b, m)'
    BY <2>1, <2>5, <2>6 DEF Gone, Message
  <2>7. ASSUME AgreeInv, NEW b \in Channels, NEW m \in Posted(b)', life'[b] = "live"
        PROVE  Agrees(b, m)'
    <3>1. b # c /\ m \in Posted(b) /\ life[b] = "live"
      BY <2>1, <2>5, <2>7
    <3>2. Agrees(b, m)
      BY <1>3, <2>7, <3>1 DEF AgreeInv
    <3> QED
      BY <2>1, <2>5, <3>1, <3>2 DEF Agrees, Message
  <2> QED
    BY <1>1, <1>2, <2>1, <2>2, <2>3, <2>4, <2>6, <2>7, SeqFrom
<1> QED
  BY <1>4, <1>5 DEF DeleteChannel

\* Request r posted message k, named n, to channel c.
PostsOne(r, c, k, n) ==
    /\ \A b \in Channels \ {c} : messages'[b] = messages[b] /\ nextMessage'[b] = nextMessage[b]
    /\ \A m : m # k => Message(c, m)' = Message(c, m)
    /\ \A m \in Posted(c)' : m \in Posted(c) \/ m = k
    /\ k \notin Posted(c)
    /\ NamesOf(Message(c, k)') = {n} /\ Message(c, k)' # {}
    /\ local'[r].new = k
    /\ \A q \in Requests \ {r} : local'[q] = local[q]

\* A new message is one by itself.
LEMMA SeqPost ==
    ASSUME Inv, NEW r \in Requests, NEW c \in Channels, NEW x, NEW n, Post(r, c, x, n),
           NEW k, k = nextMessage[c]
    PROVE  PostsOne(r, c, k, n)
<1> DEFINE new == [id |-> k, content |-> x, name |-> n]
<1>1. /\ messages'[c] = messages[c] \cup {new}
      /\ nextMessage'[c] = k + 1 /\ k \in Nat
      /\ \A b \in Channels \ {c} : messages'[b] = messages[b] /\ nextMessage'[b] = nextMessage[b]
      /\ local'[r].new = k
      /\ \A q \in Requests \ {r} : local'[q] = local[q]
  BY DEF Post, Inv, TypeOK, Ids, Locals
<1>2. \A y \in messages[c] : y.id \in Nat /\ y.id < k
  BY DEF Inv, TypeOK, MessageInv, MessageRow, Ids
<1>3. new.id = k /\ new.name = n
  OBVIOUS
<1> HIDE DEF new
<1>4. Message(c, k)' = {new}
  BY <1>1, <1>2, <1>3 DEF Message
<1>5. \A m : m # k => Message(c, m)' = Message(c, m)
  BY <1>1, <1>3 DEF Message
<1>6. k \notin Posted(c) /\ \A m \in Posted(c)' : m \in Posted(c) \/ m = k
  BY <1>1 DEF Posted
<1>7. NamesOf({new}) = {n}
  BY <1>3 DEF NamesOf
<1> QED
  BY <1>1, <1>4, <1>5, <1>6, <1>7 DEF PostsOne

\* The message of an upload is there, under its name, for the index to be told.
LEMMA SeqUpload ==
    ASSUME Inv, Inv', SeqInv, NEW r \in Requests, Upload(r)
    PROVE  SeqInv'
<1>1. /\ pc[r] = "upload" /\ arg[r].op = "UploadFile"
      /\ UNCHANGED <<life, indexVars, folders, files, arg>>
  BY MethodAt DEF Upload, indexVars, Inv
<1>2. r \in InFlight /\ result[r] = "none"
  BY <1>1 DEF InFlight, SeqInv, AccountOK
<1>3. \A c, m : ~Behind(r, c, m)
  BY <1>1 DEF Behind, Posting, Renaming, Pruning
<1>4. CASE Return(r, "rejected") /\ UNCHANGED <<messages, nextMessage, local>>
  BY <1>1, <1>2, <1>3, <1>4, SeqReturn
<1>5. CASE /\ life[arg[r].channel] = "live"
           /\ Post(r, arg[r].channel, r, arg[r].name)
           /\ Goto(r, "lookupFolder") /\ UNCHANGED result
  <2> PICK c \in Channels : c = arg[r].channel
    BY <1>1 DEF Inv, RequestInv, ArgOK
  <2> PICK k : k = nextMessage[c]
    OBVIOUS
  <2> PICK n : n = arg[r].name
    OBVIOUS
  <2>1. PostsOne(r, c, k, n)
    BY <1>5, SeqPost
  <2>2. Alone(r) /\ pc'[r] = "lookupFolder" /\ result'[r] = "none" /\ arg'[r] = arg[r]
    BY <1>1, <1>2, <1>5, <2>1 DEF PostsOne, Goto, Alone, Inv, TypeOK
  <2>3. Posting(r)' /\ ~Renaming(r)' /\ ~Pruning(r)' /\ Home(r)' = c /\ CacheOK(r)'
    BY <1>1, <2>2 DEF Posting, Renaming, Pruning, Home, CacheOK
  <2>4. AccountOK(r)'
    BY <1>1, <2>1, <2>2, <2>3 DEF PostsOne, AccountOK, NamesOf, Message
  <2>5. Behind(r, c, k)'
    BY <2>1, <2>3 DEF PostsOne, Behind
  <2> QED
    BY <1>1, <1>2, <1>3, <1>5, <2>1, <2>2, <2>3, <2>4, <2>5, SeqTelegram DEF PostsOne
<1> QED
  BY <1>4, <1>5 DEF Upload

\* The message of a rename is there, under its new name, and so is its row, unless
\* the index had drifted before.
LEMMA SeqEditCaption ==
    ASSUME Inv, Inv', SeqInv, NEW r \in Requests, EditCaption(r)
    PROVE  SeqInv'
<1>1. /\ pc[r] = "editCaption" /\ arg[r].op = "RenameFile"
      /\ UNCHANGED <<life, nextMessage, indexVars, folders, files, arg, local>>
  BY MethodAt DEF EditCaption, indexVars, Inv
<1>2. r \in InFlight /\ result[r] = "none"
  BY <1>1 DEF InFlight, SeqInv, AccountOK
<1>3. \A c, m : ~Behind(r, c, m)
  BY <1>1 DEF Behind, Posting, Renaming, Pruning
<1> PICK c \in Channels : c = arg[r].channel
  BY <1>1 DEF Inv, RequestInv, ArgOK
<1> PICK k \in Posted(c) : k = arg[r].message
  BY <1>1 DEF Inv, RequestInv, ArgOK
<1>4. CASE Return(r, "rejected") /\ UNCHANGED messages
  BY <1>1, <1>2, <1>3, <1>4, SeqReturn
<1>5. CASE /\ Message(c, k) # {}
           /\ messages' = [messages EXCEPT ![c] =
                 (@ \ Message(c, k)) \cup {[x EXCEPT !.name = arg[r].name] : x \in Message(c, k)}]
           /\ Goto(r, "lookupFolder") /\ UNCHANGED result
  <2> PICK n : n = arg[r].name
    OBVIOUS
  <2> DEFINE renamed == {[x EXCEPT !.name = n] : x \in Message(c, k)}
  <2>1. /\ messages'[c] = (messages[c] \ Message(c, k)) \cup renamed
        /\ \A b \in Channels \ {c} : messages'[b] = messages[b]
    BY <1>5 DEF Inv, TypeOK
  <2>2. ASSUME NEW x \in Message(c, k)
        PROVE  [x EXCEPT !.name = n].id = k /\ [x EXCEPT !.name = n].name = n
    BY DEF Message, Inv, TypeOK, MessageRow
  <2>3. renamed # {} /\ \A y \in renamed : y.id = k /\ y.name = n
    BY <1>5, <2>2
  <2> HIDE DEF renamed
  <2>4. Message(c, k)' = renamed
    BY <2>1, <2>3 DEF Message
  <2>5. \A m : m # k => Message(c, m)' = Message(c, m)
    BY <2>1, <2>3 DEF Message
  <2>6. NamesOf(renamed) = {n}
    BY <2>3 DEF NamesOf
  <2>7. Alone(r) /\ pc'[r] = "lookupFolder" /\ result'[r] = "none" /\ arg'[r] = arg[r]
    BY <1>1, <1>2, <1>5 DEF Goto, Alone, Inv, TypeOK
  <2>8. ~Posting(r)' /\ Renaming(r)' /\ ~Pruning(r)'
    BY <1>1, <2>7 DEF Posting, Renaming, Pruning
  <2>9. AccountOK(r)'
    BY <1>1, <2>4, <2>6, <2>7, <2>8 DEF AccountOK, Message
  <2>10. Behind(r, c, k)'
    BY <2>7, <2>8 DEF Behind
  <2>11. life[c] = "live"
    BY <1>5 DEF SeqInv, LifeInv, Message
  <2>12. ASSUME Untroubled, AgreeInv PROVE CacheOK(r)'
    <3>1. \A q \in Requests : ~Behind(q, c, k)
      <4>1. \A q \in Requests : q = r \/ pc[q] \in {"idle", "returned"}
        BY <1>2 DEF InFlight, SeqInv, OneInFlight
      <4> QED
        BY <1>3, <4>1, Settled
    <3>2. NamesOf(RowsOf(c, k)) = NamesOf(Message(c, k))
      BY <2>11, <2>12, <3>1 DEF AgreeInv, Agrees
    <3>3. RowsOf(c, k) # {}
      BY <1>5, <3>2 DEF NamesOf
    <3>4. RowsOf(c, k)' = RowsOf(c, k)
      BY <1>1 DEF RowsOf, IsFolder
    <3> QED
      BY <1>1, <2>7, <3>3, <3>4 DEF CacheOK
  <2>13. \A m \in Posted(c)' : m \in Posted(c)
    BY <1>1 DEF Posted
  <2>14. ~Gone(c, k)
    BY <1>5 DEF Gone
  <2> QED
    BY <1>1, <1>2, <1>3, <2>1, <2>5, <2>7, <2>9, <2>10, <2>11, <2>12, <2>13, <2>14, SeqTelegram
<1> QED
  BY <1>4, <1>5 DEF EditCaption

\* The message of a request that deletes or moves it is gone; its copy is not.
LEMMA SeqRemove ==
    ASSUME Inv, Inv', SeqInv, NEW r \in Requests,
           DeleteMessage(r) \/ DeleteSource(r)
    PROVE  SeqInv'
<1>1. /\ \/ pc[r] = "deleteMessage" /\ arg[r].op = "DeleteFile"
         \/ pc[r] = "deleteSource" /\ arg[r].op = "MoveFile"
      /\ UNCHANGED <<life, nextMessage, indexVars, folders, files, arg, local>>
  BY MethodAt DEF DeleteMessage, DeleteSource, indexVars, Inv
<1>2. r \in InFlight /\ result[r] = "none"
  BY <1>1 DEF InFlight, SeqInv, AccountOK
<1>3. \/ RemoveMessage(r, "lookupFolder", "rejected") /\ pc[r] = "deleteMessage"
      \/ RemoveMessage(r, "lookupFolder", "failed")
  BY DEF DeleteMessage, DeleteSource
<1> PICK c \in Channels : c = arg[r].channel
  BY <1>1 DEF Inv, RequestInv, ArgOK
<1> PICK k \in Posted(c) : k = arg[r].message
  BY <1>1 DEF Inv, RequestInv, ArgOK
<1>4. CASE UNCHANGED messages /\ pc[r] = "deleteMessage" /\ Return(r, "rejected")
  <2>1. \A b, m : ~Behind(r, b, m)
    BY <1>4 DEF Behind, Posting, Renaming, Pruning
  <2> QED
    BY <1>1, <1>2, <1>4, <2>1, SeqReturn
<1>5. CASE UNCHANGED messages /\ Return(r, "failed")
  BY <1>1, <1>2, <1>5, SeqReturn
<1>6. CASE /\ life[c] = "live"
           /\ messages' = [messages EXCEPT ![c] = @ \ Message(c, k)]
           /\ Goto(r, "lookupFolder") /\ UNCHANGED result
  <2>1. /\ messages'[c] = messages[c] \ Message(c, k)
        /\ \A b \in Channels \ {c} : messages'[b] = messages[b]
    BY <1>6 DEF Inv, TypeOK
  <2>2. Message(c, k)' = {}
    BY <2>1 DEF Message
  <2>3. \A m : m # k => Message(c, m)' = Message(c, m)
    BY <2>1 DEF Message
  <2>4. Alone(r) /\ pc'[r] = "lookupFolder" /\ result'[r] = "none" /\ arg'[r] = arg[r]
    BY <1>1, <1>2, <1>6 DEF Goto, Alone, Inv, TypeOK
  <2>5. /\ Posting(r)' <=> arg[r].op = "MoveFile"
        /\ arg[r].op = "MoveFile" => Posting(r)
        /\ ~Renaming(r)' /\ ~Renaming(r)
        /\ Pruning(r)' /\ ~Pruning(r)
        /\ UNCHANGED Home(r)
    BY <1>1, <2>4 DEF Posting, Renaming, Pruning, Home
  <2>6. AccountOK(r)
    BY DEF SeqInv
  <2>7. ASSUME arg[r].op = "MoveFile"
        PROVE  UNCHANGED Message(arg[r].dst, local[r].new)
    <3> PICK d \in Channels : d = arg[r].dst
      BY <2>7 DEF Inv, RequestInv, ArgOK
    <3> PICK n : n = local[r].new
      OBVIOUS
    <3>1. d # c \/ n # k
      BY <2>5, <2>6, <2>7 DEF AccountOK
    <3>2. Message(d, n)' = Message(d, n)
      BY <2>1, <2>3, <3>1 DEF Message
    <3> QED
      BY <1>1, <3>2
  <2>8. AccountOK(r)'
    <3>1. Posting(r)' => /\ arg[r].op = "MoveFile"
                         /\ Home(r)' = arg[r].dst
                         /\ Message(arg[r].dst, local[r].new)' # {}
      BY <2>4, <2>5, <2>6, <2>7 DEF AccountOK, Home
    <3>2. Message(arg[r].channel, arg[r].message)' = {}
      BY <1>1, <2>2
    <3>3. Posting(r)' => Message(Home(r), local[r].new)' # {}
      BY <2>4, <3>1 DEF Message
    <3> QED
      BY <1>1, <2>4, <2>5, <2>6, <3>1, <3>2, <3>3 DEF AccountOK
  <2>9. Behind(r, c, k)'
    BY <2>4, <2>5 DEF Behind
  <2>10. \A b, m : Behind(r, b, m) => Behind(r, b, m)'
    BY <1>1, <2>5 DEF Behind, Posting
  <2>11. CacheOK(r) => CacheOK(r)'
    <3>1. CASE arg[r].op # "MoveFile"
      BY <2>4, <2>5, <3>1 DEF CacheOK
    <3>2. CASE arg[r].op = "MoveFile"
      <4>1. RowsOf(arg[r].channel, arg[r].message)' = RowsOf(arg[r].channel, arg[r].message)
        BY <1>1 DEF RowsOf, IsFolder
      <4>2. NamesOf(Message(arg[r].dst, local[r].new))' = NamesOf(Message(arg[r].dst, local[r].new))
        BY <2>7, <3>2 DEF NamesOf
      <4> QED
        BY <1>1, <2>4, <2>5, <3>2, <4>1, <4>2 DEF CacheOK
    <3> QED
      BY <3>1, <3>2
  <2>12. \A m \in Posted(c)' : m \in Posted(c)
    BY <1>1 DEF Posted
  <2> QED
    BY <1>1, <1>2, <1>6, <2>1, <2>2, <2>3, <2>4, <2>8, <2>9, <2>10, <2>11, <2>12, SeqTelegram
       DEF AgreeInv
<1> QED
  BY <1>3, <1>4, <1>5, <1>6 DEF RemoveMessage

\* The copy of a moved message is there, under the name its row has, unless the
\* index had drifted before, and it is not the message to delete.
LEMMA SeqForward ==
    ASSUME Inv, Inv', SeqInv, NEW r \in Requests, Forward(r)
    PROVE  SeqInv'
<1>1. /\ pc[r] = "forward" /\ arg[r].op = "MoveFile"
      /\ UNCHANGED <<life, indexVars, folders, files, arg>>
  BY MethodAt DEF Forward, indexVars, Inv
<1>2. r \in InFlight /\ result[r] = "none"
  BY <1>1 DEF InFlight, SeqInv, AccountOK
<1>3. \A c, m : ~Behind(r, c, m)
  BY <1>1 DEF Behind, Posting, Renaming, Pruning
<1> PICK c \in Channels : c = arg[r].channel
  BY <1>1 DEF Inv, RequestInv, ArgOK
<1> PICK m \in Posted(c) : m = arg[r].message
  BY <1>1 DEF Inv, RequestInv, ArgOK
<1> PICK d \in Channels : d = arg[r].dst
  BY <1>1 DEF Inv, RequestInv, ArgOK
<1> PICK k : k = nextMessage[d]
  OBVIOUS
<1>4. CASE Return(r, "rejected") /\ UNCHANGED <<messages, nextMessage, local>>
  BY <1>1, <1>2, <1>3, <1>4, SeqReturn
<1>5. ASSUME life[d] = "live", NEW x \in Message(c, m), Post(r, d, x.content, x.name),
             Goto(r, "deleteSource"), UNCHANGED result
      PROVE  SeqInv'
  <2> PICK n : n = x.name
    OBVIOUS
  <2>1. PostsOne(r, d, k, n)
    BY <1>5, SeqPost
  <2>2. Alone(r) /\ pc'[r] = "deleteSource" /\ result'[r] = "none" /\ arg'[r] = arg[r]
    BY <1>1, <1>2, <1>5, <2>1 DEF PostsOne, Goto, Alone, Inv, TypeOK
  <2>3. Posting(r)' /\ ~Renaming(r)' /\ ~Pruning(r)' /\ Home(r)' = d
    BY <1>1, <2>2 DEF Posting, Renaming, Pruning, Home
  <2>4. ~(d = c /\ k = m)
    BY <2>1 DEF PostsOne
  <2>5. AccountOK(r)'
    BY <1>1, <2>1, <2>2, <2>3, <2>4 DEF PostsOne, AccountOK, Message
  <2>6. Behind(r, d, k)'
    BY <2>1, <2>3 DEF PostsOne, Behind
  <2>7. ASSUME Untroubled, AgreeInv PROVE CacheOK(r)'
    <3>1. \A q \in Requests : ~Behind(q, c, m)
      <4>1. \A q \in Requests : q = r \/ pc[q] \in {"idle", "returned"}
        BY <1>2 DEF InFlight, SeqInv, OneInFlight
      <4> QED
        BY <1>3, <4>1, Settled
    <3>2. life[c] = "live"
      BY <1>5 DEF SeqInv, LifeInv, Message
    <3>3. NamesOf(RowsOf(c, m)) = NamesOf(Message(c, m))
      BY <2>7, <3>1, <3>2 DEF AgreeInv, Agrees
    <3>4. Message(c, m) = {x}
      BY <1>5 DEF Message, Inv, MessageInv
    <3>5. NamesOf(RowsOf(c, m)) = {x.name}
      BY <3>3, <3>4 DEF NamesOf
    <3>6. RowsOf(c, m) # {} /\ \A f \in RowsOf(c, m) : f.name = x.name
      BY <3>5 DEF NamesOf
    <3>7. RowsOf(c, m)' = RowsOf(c, m)
      BY <1>1 DEF RowsOf, IsFolder
    <3>8. NamesOf(Message(arg[r].dst, local[r].new))' = {x.name}
      BY <1>1, <2>1, <2>2 DEF PostsOne, Message, NamesOf
    <3> QED
      BY <1>1, <2>2, <2>3, <3>6, <3>7, <3>8 DEF CacheOK
  <2> QED
    BY <1>1, <1>2, <1>3, <1>5, <2>1, <2>2, <2>5, <2>6, <2>7, SeqTelegram DEF PostsOne
<1> QED
  BY <1>4, <1>5 DEF Forward

-----------------------------------------------------------------------------
(* Steps that change the index of files.                                   *)

\* Where the row that a request writes is served, and what it says.
LEMMA RowTarget ==
    ASSUME Inv, NEW r \in Requests, pc[r] = "upsertFile"
    PROVE  /\ arg[r].op \in {"UploadFile", "RenameFile", "MoveFile"}
           /\ arg[r].op = "UploadFile" =>
                 /\ IsFolder(RowToWrite(r).folder, arg[r].channel)
                 /\ RowToWrite(r).message = local[r].new
                 /\ RowToWrite(r).name = arg[r].name
           /\ arg[r].op = "RenameFile" =>
                 /\ IsFolder(RowToWrite(r).folder, arg[r].channel)
                 /\ RowToWrite(r).message = arg[r].message
                 /\ RowToWrite(r).name = arg[r].name
           /\ arg[r].op = "MoveFile" =>
                 /\ IsFolder(RowToWrite(r).folder, arg[r].dst)
                 /\ RowToWrite(r).message = local[r].new
                 /\ RowToWrite(r).name = local[r].row.name
<1>1. arg[r].op \in {"UploadFile", "RenameFile", "MoveFile"}
  BY MethodAt DEF Inv
<1>2. LocalOK(r)
  BY DEF Inv, RequestInv
<1>3. CASE arg[r].op = "UploadFile"
  BY <1>2, <1>3 DEF LocalOK, RowToWrite
<1>4. CASE arg[r].op = "RenameFile"
  BY <1>2, <1>4 DEF LocalOK, RowToWrite
<1>5. CASE arg[r].op = "MoveFile"
  BY <1>2, <1>5 DEF LocalOK, RowToWrite
<1> QED
  BY <1>1, <1>3, <1>4, <1>5

\* An upsert serves its message under the name it writes, and all the others as
\* before.
LEMMA UpsertServes ==
    ASSUME Inv, NEW row, Upserts(row, FileRows(row.folder, row.message)), UNCHANGED folders,
           NEW h, IsFolder(row.folder, h),
           NEW k, k = row.message, NEW n, n = row.name
    PROVE  /\ NamesOf(RowsOf(h, k))' = {n}
           /\ \A c, m : c # h \/ m # k => RowsOf(c, m)' = RowsOf(c, m)
<1> PICK old : old = FileRows(row.folder, k)
  OBVIOUS
<1> DEFINE new == [id |-> nextFile, folder |-> row.folder, message |-> k, name |-> n]
           renamed == {[f EXCEPT !.name = n] : f \in old}
           written == IF old = {} THEN {new} ELSE renamed
<1>1. files' = (files \ old) \cup written
  BY DEF Upserts
<1>2. ASSUME NEW f \in old
      PROVE  /\ [f EXCEPT !.name = n].name = n
             /\ [f EXCEPT !.name = n].folder = row.folder
             /\ [f EXCEPT !.name = n].message = k
  BY DEF FileRows, Inv, TypeOK, FileRow
<1>3. /\ written # {}
      /\ \A f \in written : f.name = n /\ f.folder = row.folder /\ f.message = k
  <2>1. new.name = n /\ new.folder = row.folder /\ new.message = k
    OBVIOUS
  <2> HIDE DEF new
  <2>2. CASE old = {}
    BY <2>1, <2>2
  <2>3. CASE old # {}
    <3>1. written = renamed /\ renamed # {}
      BY <2>3
    <3>2. \A f \in renamed : f.name = n /\ f.folder = row.folder /\ f.message = k
      BY <1>2
    <3> HIDE DEF written, renamed
    <3> QED
      BY <3>1, <3>2
  <2> QED
    BY <2>2, <2>3
<1> HIDE DEF written
<1>4. \A i, c : IsFolder(i, c)' <=> IsFolder(i, c)
  BY DEF IsFolder
<1>5. RowsOf(h, k) = old
  BY RowsOfFolder
<1>6. RowsOf(h, k)' = written
  BY <1>1, <1>3, <1>4, <1>5 DEF RowsOf
<1>7. NamesOf(written) = {n}
  BY <1>3 DEF NamesOf
<1>8. ASSUME NEW c, NEW m, c # h \/ m # k PROVE RowsOf(c, m)' = RowsOf(c, m)
  <2>1. ASSUME NEW f, f \in old \/ f \in written
        PROVE  ~(f.message = m /\ IsFolder(f.folder, c))
    <3>1. f.folder = row.folder /\ f.message = k
      BY <1>3, <2>1 DEF FileRows
    <3> QED
      BY <1>8, <3>1, FolderOfId
  <2> QED
    BY <1>1, <1>4, <2>1 DEF RowsOf
<1> QED
  BY <1>6, <1>7, <1>8 DEF NamesOf

\* The index is told of the message that was posted or renamed.
LEMMA SeqUpsertFile ==
    ASSUME Inv, Inv', SeqInv, NEW r \in Requests, UpsertFile(r)
    PROVE  SeqInv'
<1> DEFINE op == arg[r].op
<1>1. /\ pc[r] = "upsertFile" /\ op \in {"UploadFile", "RenameFile", "MoveFile"}
      /\ UNCHANGED <<life, messages, nextMessage, folders, arg, local>>
  BY RowTarget DEF UpsertFile, telegramVars
<1>2. InFlight \subseteq {r} /\ result[r] = "none" /\ AccountOK(r)
  BY <1>1 DEF InFlight, SeqInv, OneInFlight, AccountOK
<1>3. /\ Alone(r) /\ arg'[r] = arg[r]
      /\ \/ pc'[r] = "readBack" /\ result'[r] = "none"
         \/ op = "MoveFile" /\ pc'[r] = "findToPrune" /\ result'[r] = "none"
         \/ op # "MoveFile" /\ pc'[r] = "returned"
         \/ pc'[r] = "returned" /\ result'[r] = "failed"
  BY <1>1, <1>2 DEF UpsertFile, Upserted, FailAfter, Return, Goto, Alone, Inv, TypeOK
<1> PICK row : row = RowToWrite(r)
  OBVIOUS
<1> PICK k : k = row.message
  OBVIOUS
<1> PICK n : n = row.name
  OBVIOUS
<1> PICK h : h = Home(r)
  OBVIOUS
<1>4. /\ IsFolder(row.folder, h)
      /\ op \in {"UploadFile", "MoveFile"} => k = local[r].new
      /\ op = "RenameFile" => k = arg[r].message
      /\ op # "MoveFile" => n = arg[r].name
      /\ op = "MoveFile" => n = local[r].row.name
  BY <1>1, RowTarget DEF Home
<1>5. /\ NamesOf(RowsOf(h, k))' = {n}
      /\ \A c, m : c # h \/ m # k => RowsOf(c, m)' = RowsOf(c, m)
  <2>1. Upserts(row, FileRows(row.folder, row.message))
    BY DEF UpsertFile, NewFileId, Upserts
  <2> QED
    BY <1>1, <1>4, <2>1, UpsertServes
<1>6. ASSUME NEW c, NEW m PROVE UNCHANGED <<Message(c, m), Posted(c)>>
  BY <1>1 DEF Message, Posted
<1>7. /\ op \in {"UploadFile", "MoveFile"} => Posting(r)
      /\ op = "RenameFile" => Renaming(r) /\ h = arg[r].channel
      /\ op = "MoveFile" => Pruning(r)
      /\ ~Posting(r)' /\ ~Renaming(r)'
      /\ Pruning(r)' <=> op = "MoveFile" /\ pc'[r] # "returned"
  BY <1>1, <1>3 DEF Posting, Renaming, Pruning, Home
<1>8. Message(h, k) # {} /\ (op # "MoveFile" => NamesOf(Message(h, k)) = {n})
  <2>1. CASE op = "RenameFile"
    <3>1. NamesOf(Message(h, k)) = {n}
      BY <1>2, <1>4, <1>7, <2>1 DEF AccountOK
    <3> QED
      BY <2>1, <3>1 DEF NamesOf
  <2>2. CASE op \in {"UploadFile", "MoveFile"}
    BY <1>2, <1>4, <1>7, <2>2 DEF AccountOK
  <2> QED
    BY <1>1, <2>1, <2>2
<1>9. AccountOK(r)'
  BY <1>1, <1>2, <1>3, <1>7 DEF AccountOK, Message
<1>10. LifeInv'
  BY <1>1 DEF LifeInv, SeqInv
<1>11. ASSUME NEW c, NEW m, Gone(c, m) PROVE Gone(c, m)'
  BY <1>5, <1>6, <1>8, <1>11 DEF Gone
<1>12. CacheOK(r)'
  BY <1>3, <1>7 DEF CacheOK
<1>13. ASSUME AgreeInv, Untroubled',
              NEW c \in Channels, NEW m \in Posted(c)', life'[c] = "live"
       PROVE  Agrees(c, m)' \/ Behind(r, c, m)'
  <2>1. CASE c = h /\ m = k
    <3>1. op = "MoveFile" => NamesOf(Message(h, k)) = {n}
      BY <1>1, <1>4, <1>13 DEF AgreeInv, CacheOK, Home
    <3>2. NamesOf(Message(h, k))' = {n}
      BY <1>6, <1>8, <3>1 DEF NamesOf
    <3> QED
      BY <1>5, <2>1, <3>2 DEF Agrees
  <2>2. CASE c # h \/ m # k
    <3>1. Agrees(c, m) \/ \E q \in Requests : Behind(q, c, m)
      BY <1>1, <1>6, <1>13 DEF AgreeInv
    <3>2. Agrees(c, m) => Agrees(c, m)'
      BY <1>5, <1>6, <2>2 DEF Agrees
    <3>3. ASSUME NEW q \in Requests, Behind(q, c, m) PROVE Behind(r, c, m)'
      <4>1. q = r
        BY <1>2, <3>3, Settled DEF InFlight
      <4>2. Pruning(r) /\ c = arg[r].channel /\ m = arg[r].message
        BY <1>1, <1>4, <1>7, <2>2, <3>3, <4>1 DEF Behind, Posting, Renaming
      <4>3. op = "MoveFile" /\ pc'[r] # "returned"
        BY <1>1, <1>3, <1>13, <4>2 DEF Pruning, Untroubled
      <4> QED
        BY <1>3, <1>7, <4>2, <4>3 DEF Behind
    <3> QED
      BY <3>1, <3>2, <3>3
  <2> QED
    BY <2>1, <2>2
<1> QED
  BY <1>1, <1>2, <1>3, <1>9, <1>10, <1>11, <1>12, <1>13, SeqFrom

\* The row of the message that was deleted or moved goes, and no other.
LEMMA SeqPruneRow ==
    ASSUME Inv, Inv', SeqInv, NEW r \in Requests, PruneRow(r)
    PROVE  SeqInv'
<1>1. /\ pc[r] = "pruneRow" /\ arg[r].op \in {"DeleteFile", "MoveFile"}
      /\ UNCHANGED <<life, messages, nextMessage, folders, arg, local>>
  BY MethodAt DEF PruneRow, telegramVars, Inv
<1>2. InFlight \subseteq {r} /\ AccountOK(r)
  BY <1>1 DEF InFlight, SeqInv, OneInFlight
<1> PICK row : row = local[r].row
  OBVIOUS
<1> PICK c \in Channels : c = arg[r].channel
  BY <1>1 DEF Inv, RequestInv, ArgOK
<1> PICK k \in Posted(c) : k = arg[r].message
  BY <1>1 DEF Inv, RequestInv, ArgOK
<1>3. /\ row \in files /\ row.message = k
      /\ IsFolder(row.folder, c)
  BY <1>1, <1>2 DEF AccountOK, Inv, RequestInv, LocalOK
<1>4. {f \in files : f.id = row.id} = {row}
  BY <1>3 DEF Inv, IndexInv, RowsUnique
<1>5. /\ files' = files \ {row}
      /\ \E outcome \in {"ok", "failed"} : Return(r, outcome)
  BY <1>4 DEF PruneRow, FailAfter
<1>6. Alone(r) /\ pc'[r] = "returned" /\ arg'[r] = arg[r]
  BY <1>1, <1>5 DEF Return, Goto, Alone, Inv, TypeOK
<1>7. \A i, b : IsFolder(i, b)' <=> IsFolder(i, b)
  BY <1>1 DEF IsFolder
<1>8. RowsOf(c, k)' = {}
  <2>1. RowsOf(c, k) = FileRows(row.folder, k)
    BY <1>3, RowsOfFolder
  <2>2. FileRows(row.folder, k) = {row}
    BY <1>3 DEF FileRows, Inv, IndexInv, RowsUnique
  <2> QED
    BY <1>5, <1>7, <2>1, <2>2 DEF RowsOf
<1>9. ASSUME NEW b, NEW m, b # c \/ m # k PROVE RowsOf(b, m)' = RowsOf(b, m)
  <2>1. ~(row.message = m /\ IsFolder(row.folder, b))
    BY <1>3, <1>9, FolderOfId
  <2> QED
    BY <1>5, <1>7, <2>1 DEF RowsOf
<1>10. ASSUME NEW b, NEW m PROVE UNCHANGED <<Message(b, m), Posted(b)>>
  BY <1>1 DEF Message, Posted
<1>11. Message(c, k) = {}
  BY <1>1, <1>2 DEF AccountOK, Pruning
<1>12. ~Posting(r)' /\ ~Renaming(r)' /\ ~Pruning(r)' /\ CacheOK(r)'
  BY <1>6 DEF Posting, Renaming, Pruning, CacheOK
<1>13. Gone(c, k)'
  BY <1>8, <1>10, <1>11 DEF Gone
<1>14. AccountOK(r)'
  BY <1>6, <1>12, <1>13 DEF AccountOK
<1>15. LifeInv'
  BY <1>1 DEF LifeInv, SeqInv
<1>16. ASSUME NEW b, NEW m, Gone(b, m) PROVE Gone(b, m)'
  BY <1>9, <1>10, <1>13, <1>16 DEF Gone
<1>17. ASSUME AgreeInv, NEW b \in Channels, NEW m \in Posted(b)', life'[b] = "live"
       PROVE  Agrees(b, m)'
  <2>1. CASE b = c /\ m = k
    BY <1>8, <1>10, <1>11, <2>1 DEF Agrees
  <2>2. CASE b # c \/ m # k
    <3>1. \A q \in Requests : ~Behind(q, b, m)
      <4>1. \A q \in Requests : q = r \/ pc[q] \in {"idle", "returned"}
        BY <1>2 DEF InFlight
      <4>2. ~Behind(r, b, m)
        BY <1>1, <2>2 DEF Behind, Posting, Renaming
      <4> QED
        BY <4>1, <4>2, Settled
    <3>2. Agrees(b, m)
      BY <1>1, <1>10, <1>17, <3>1 DEF AgreeInv
    <3> QED
      BY <1>9, <1>10, <2>2, <3>2 DEF Agrees
  <2> QED
    BY <2>1, <2>2
<1> QED
  BY <1>1, <1>2, <1>6, <1>12, <1>14, <1>15, <1>16, <1>17, SeqFrom

-----------------------------------------------------------------------------
(* The theorems.                                                           *)

\* At first the index agrees with what of Telegram is in it.
LEMMA InitSeqInv == Init => SeqInv
<1> SUFFICES ASSUME Init PROVE SeqInv
  OBVIOUS
<1>1. \A r \in Requests : pc[r] = "idle" /\ arg[r].op = "none" /\ result[r] = "none"
  BY DEF Init, NoArg
<1>2. OneInFlight
  BY <1>1 DEF OneInFlight, InFlight
<1>3. LifeInv
  BY DEF LifeInv, Init
<1>4. \A r \in Requests : AccountOK(r)
  BY <1>1, Settled DEF AccountOK
<1>5. \A r \in Requests : CacheOK(r)
  BY <1>1, Settled
<1>6. ASSUME NumIndexed = NumExisting, NEW c \in Channels, NEW m \in Posted(c),
             life[c] = "live"
      PROVE  Agrees(c, m)
  <2>1. c \in Existing /\ c \in Indexed
    BY <1>6, DriveAssumption DEF Init, Channels, Existing, Indexed
  <2>2. m = 1
    BY <2>1, DriveAssumption DEF Posted, Init, Existing
  <2>3. Message(c, m) = {[id |-> 1, content |-> c, name |-> FirstName]}
    BY <2>1, <2>2 DEF Message, Init
  <2> DEFINE f == [id |-> c, folder |-> c, message |-> 1, name |-> FirstName]
  <2>4. RowsOf(c, m) = {f}
    <3>1. IsFolder(c, c)
      <4> DEFINE d == [id |-> c, channel |-> c,
                       name |-> NameOf[TitleOf[FirstFolderName].text].text]
      <4>1. d \in folders
        BY <2>1 DEF Init
      <4>2. d.id = c /\ d.channel = c
        OBVIOUS
      <4> QED
        BY <4>1, <4>2 DEF IsFolder
    <3>2. f \in RowsOf(c, m)
      BY <2>1, <2>2, <3>1 DEF RowsOf, Init
    <3>3. ASSUME NEW g \in RowsOf(c, m) PROVE g = f
      <4>1. PICK i \in Indexed :
                   g = [id |-> i, folder |-> i, message |-> 1, name |-> FirstName]
        BY DEF RowsOf, Init
      <4>2. IsFolder(i, c)
        BY <4>1 DEF RowsOf
      <4>3. i = c
        BY <4>2 DEF IsFolder, Init
      <4> QED
        BY <4>1, <4>3
    <3> QED
      BY <3>2, <3>3
  <2>5. NamesOf(RowsOf(c, m)) = {FirstName}
    BY <2>4 DEF NamesOf
  <2>6. NamesOf(Message(c, m)) = {FirstName}
    BY <2>3 DEF NamesOf
  <2> QED
    BY <2>5, <2>6 DEF Agrees
<1>7. Untroubled => AgreeInv
  BY <1>5, <1>6 DEF Untroubled, AgreeInv
<1> QED
  BY <1>2, <1>3, <1>4, <1>7 DEF SeqInv

\* One call at a time, account, index and the open call fit together after a
\* step if they did before it.
LEMMA SeqNext ==
    ASSUME MaxInFlight = 1
    PROVE  Inv /\ SeqInv /\ [Next]_vars => SeqInv'
<1> SUFFICES ASSUME Inv, SeqInv, [Next]_vars PROVE SeqInv'
  OBVIOUS
<1>1. Inv'
  BY InvNext
<1>2. ASSUME NEW r \in Requests, RequestStep(r) PROVE SeqInv'
  <2>1. CASE CreateChannel(r) \/ PanicOnName(r) \/ SetHistoryTTL(r) \/ EditTitle(r)
             \/ DeleteChannel(r)
    BY <1>1, <2>1, SeqCreateChannel, SeqPanicOnName, SeqSetHistoryTTL, SeqEditTitle,
       SeqDeleteChannel
  <2>2. CASE ListDialogs(r) \/ Download(r) \/ ListFiles(r)
    BY <1>1, <2>2, SeqReads
  <2>3. CASE Upload(r) \/ EditCaption(r) \/ DeleteMessage(r) \/ Forward(r) \/ DeleteSource(r)
    BY <1>1, <2>3, SeqUpload, SeqEditCaption, SeqRemove, SeqForward
  <2>4. CASE LookupFolder(r) \/ InsertFolder(r) \/ FindRow(r) \/ FindToPrune(r)
    BY <1>1, <2>4, SeqLookupFolder, SeqInsertFolder, SeqFindRow, SeqFindToPrune
  <2>5. CASE UpsertFile(r) \/ ReadBack(r) \/ PruneRow(r)
    BY <1>1, <2>5, SeqUpsertFile, SeqReadBack, SeqPruneRow
  <2> QED
    BY <1>2, <2>1, <2>2, <2>3, <2>4, <2>5 DEF RequestStep
<1>3. ASSUME NEW r \in Requests, Call(r) \/ Reject(r) \/ Fail(r) PROVE SeqInv'
  BY <1>1, <1>3, SeqCall, SeqReject, SeqFail
<1>4. CASE UNCHANGED vars
  <2>1. UNCHANGED <<life, messages, nextMessage, folders, files, pc, arg, local, result>>
    BY <1>4 DEF vars, telegramVars, indexVars, requestVars
  <2>2. UNCHANGED <<OneInFlight, LifeInv, Untroubled, AgreeInv>>
    BY <2>1 DEF OneInFlight, InFlight, LifeInv, Untroubled, AgreeInv, CacheOK, Behind, Posting,
                Renaming, Pruning, Home, Agrees, NamesOf, RowsOf, IsFolder, Message, Posted
  <2>3. \A r \in Requests : UNCHANGED AccountOK(r)
    BY <2>1 DEF AccountOK, Posting, Renaming, Pruning, Home, Gone, NamesOf, RowsOf, IsFolder,
                Message
  <2> QED
    BY <2>2, <2>3 DEF SeqInv
<1> QED
  BY <1>2, <1>3, <1>4 DEF Next

\* One call at a time, what a call did to Telegram and has yet to tell the index
\* is all the index may be behind with, until a client is told of an error.
THEOREM SeqInvAlways ==
    ASSUME MaxInFlight = 1
    PROVE  Spec => [](Inv /\ SeqInv)
<1>1. Init => Inv /\ SeqInv
  BY InitInv, InitSeqInv
<1>2. Inv /\ SeqInv /\ [Next]_vars => (Inv /\ SeqInv)'
  BY InvNext, SeqNext
<1> QED
  BY <1>1, <1>2, PTL DEF Spec

\* One call at a time, a file whose DeleteFile or MoveFile succeeded is never
\* again listed where it was, whatever calls stop half way before or after.
THEOREM DeletedNotServedAlways ==
    ASSUME MaxInFlight = 1
    PROVE  Spec => []DeletedNotServed
<1>1. SeqInv => DeletedNotServed
  <2> SUFFICES ASSUME SeqInv, NEW r \in Requests,
                      arg[r].op \in {"DeleteFile", "MoveFile"}, result[r] = "ok",
                      NEW d \in FolderRows(arg[r].channel)
               PROVE  FileRows(d.id, arg[r].message) = {}
    BY DEF DeletedNotServed
  <2>1. RowsOf(arg[r].channel, arg[r].message) = {}
    BY DEF SeqInv, AccountOK, Gone
  <2>2. IsFolder(d.id, arg[r].channel)
    BY DEF FolderRows, IsFolder
  <2> QED
    BY <2>1, <2>2 DEF FileRows, RowsOf
<1> QED
  BY <1>1, SeqInvAlways, PTL

\* One call at a time, on an account that was indexed at first, the index agrees
\* with every live folder whenever no call is open, unless a client was told of
\* an error after its call had begun.
THEOREM DriftIsReportedAlways ==
    ASSUME MaxInFlight = 1, NumIndexed = NumExisting
    PROVE  Spec => []DriftIsReported
<1>1. Inv /\ SeqInv => DriftIsReported
  <2> SUFFICES ASSUME Inv, SeqInv, InFlight = {},
                      \A r \in Requests : result[r] \notin {"failed", "not_found"},
                      NEW c \in Channels, life[c] = "live"
               PROVE  Listed(c) = Held(c)
    BY DEF DriftIsReported
  <2>1. AgreeInv
    BY DEF SeqInv, Untroubled
  <2>2. ASSUME NEW m \in Posted(c) PROVE NamesOf(RowsOf(c, m)) = NamesOf(Message(c, m))
    <3>1. \A q \in Requests : ~Behind(q, c, m)
      BY Settled DEF InFlight
    <3> QED
      BY <2>1, <3>1 DEF AgreeInv, Agrees
  <2>3. ASSUME NEW f \in files, NEW d \in FolderRows(c), d.id = f.folder
        PROVE  \E x \in messages[c] : x.id = f.message /\ x.name = f.name
    <3>1. IsFolder(f.folder, c)
      BY <2>3 DEF FolderRows, IsFolder
    <3>2. f.message \in Posted(c)
      <4>1. PICK e \in folders : e.id = f.folder /\ f.message \in 1..nextMessage[e.channel] - 1
        BY DEF Inv, IndexInv, RowsAreReal
      <4>2. e.channel = c
        BY <3>1, <4>1, FolderOfId DEF IsFolder
      <4> QED
        BY <4>1, <4>2 DEF Posted
    <3>3. f.name \in NamesOf(RowsOf(c, f.message))
      BY <3>1 DEF NamesOf, RowsOf
    <3>4. f.name \in NamesOf(Message(c, f.message))
      BY <2>2, <3>2, <3>3
    <3> QED
      BY <3>4 DEF NamesOf, Message
  <2>4. ASSUME NEW x \in messages[c]
        PROVE  \E f \in files : /\ f.message = x.id /\ f.name = x.name
                                /\ \E d \in FolderRows(c) : d.id = f.folder
    <3>1. x.id \in Posted(c)
      BY DEF Inv, TypeOK, MessageInv, MessageRow, Ids, None, Posted
    <3>2. x.name \in NamesOf(Message(c, x.id))
      BY DEF NamesOf, Message
    <3>3. x.name \in NamesOf(RowsOf(c, x.id))
      BY <2>2, <3>1, <3>2
    <3> QED
      BY <3>3 DEF NamesOf, RowsOf, IsFolder, FolderRows
  <2>5. Listed(c) \subseteq Held(c)
    BY <2>3 DEF Listed, Held
  <2>6. Held(c) \subseteq Listed(c)
    BY <2>4 DEF Listed, Held
  <2> QED
    BY <2>5, <2>6
<1> QED
  BY <1>1, SeqInvAlways, PTL

=============================================================================
