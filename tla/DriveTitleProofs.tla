-------------------------- MODULE DriveTitleProofs ---------------------------
(***************************************************************************)
(* Proofs about the folders of Drive and their names: every folder is      *)
(* found whatever it is called and, if the names and the titles clients    *)
(* send are ordinary, carries one marker and is in the index without it;   *)
(* one call at a time, a folder is indexed under the name it was created   *)
(* with.                                                                   *)
(***************************************************************************)
EXTENDS DriveSequentialProofs, FolderTitleProofs

\* The names that can be given and read back without a panic have no marker
\* nested in a marker and no letter that changes its width in lower case.
OrdinaryNames == \A n \in FolderNames : Harmless(n) => Ordinary(n)

\* Nor have the titles that clients send along of their own.
OrdinaryTitles == \A t \in SentTitles : Ordinary(t)

-----------------------------------------------------------------------------
(* Titles and names of folders.                                            *)

\* The names of folders are sequences of symbols.
LEMMA NamesTyped == FolderNames \subseteq Seq(Symbols)
BY DriveAssumption

\* A folder's title is made of a name.
LEMMA TitleMade ==
    ASSUME NEW t \in FolderTitles
    PROVE  \E n \in FolderNames : ~TitleOf[n].panics /\ t = TitleOf[n].text
BY DEF FolderTitles

\* The title made of a name is what FolderName returns for it.
LEMMA TitleIs ==
    ASSUME NEW n \in FolderNames
    PROVE  n \in Seq(Symbols) /\ TitleOf[n] = FolderName(Bytes(n))
BY NamesTyped DEF TitleOf

\* A title that does not panic when it is read is that of a harmless name.
LEMMA TitleHarmless ==
    ASSUME NEW n \in FolderNames, ~TitleOf[n].panics,
           ~DisplayName(TitleOf[n].text).panics
    PROVE  Harmless(n)
BY TitleIs DEF Harmless

\* What the index is told of a harmless name, if it is ordinary.
LEMMA OrdinaryName ==
    ASSUME OrdinaryNames, NEW n \in FolderNames, Harmless(n)
    PROVE  LET name == NameOf[TitleOf[n].text].text
           IN  /\ name = TrimSpace(Bytes(Stripped(n)))
               /\ ~IsFolderTitle(name)
<1> DEFINE folder == FolderName(Bytes(n))
<1>1. n \in Seq(Symbols) /\ TitleOf[n] = folder /\ Ordinary(n)
  BY TitleIs DEF OrdinaryNames
<1>2. TitleOf[n].text \in ClientTitles
  <2>1. ~TitleOf[n].panics
    BY <1>1 DEF Harmless
  <2> QED
    BY <2>1, MadeTitle
<1>3. NameOf[TitleOf[n].text] = DisplayName(TitleOf[n].text)
  BY <1>2 DEF NameOf
<1>4. /\ DisplayName(folder.text) =
            [text |-> TrimSpace(Bytes(Stripped(n))), panics |-> FALSE]
      /\ ~IsFolderTitle(DisplayName(folder.text).text)
  BY <1>1, OrdinaryFolder
<1>5. DisplayName(folder.text).text = TrimSpace(Bytes(Stripped(n)))
  <2> HIDE DEF folder
  <2> QED
    BY <1>4
<1> HIDE DEF folder
<1> QED
  BY <1>1, <1>3, <1>4, <1>5

-----------------------------------------------------------------------------
(* Every folder is found and marked once.                                  *)

\* ListFolders finds every folder, whatever it is called or renamed to and
\* wherever its creation stopped.
THEOREM FoldersListedAlways == Spec => []FoldersListed
<1>1. TypeOK => FoldersListed
  <2> SUFFICES ASSUME TypeOK, NEW c \in Channels
               PROVE  IsFolderTitle(title[c])
    BY EveryNameIsMarkedAlways DEF FoldersListed
  <2>1. title[c] \in FolderTitles
    BY DEF TypeOK
  <2>2. PICK n \in FolderNames : ~TitleOf[n].panics /\ title[c] = TitleOf[n].text
    BY <2>1, TitleMade
  <2> QED
    BY <2>2, TitleIs, NameIsMarked
<1> QED
  BY <1>1, TypeCorrect, PTL

\* Of ordinary names, and of these only, FolderName is idempotent: to rename a
\* folder to the title it is listed under leaves it as it is.
THEOREM OrdinaryMarkedOnce ==
    ASSUME OrdinaryNames
    PROVE  Spec => []MarkedOnce
<1>1. TypeOK => MarkedOnce
  <2> SUFFICES ASSUME TypeOK, NEW c \in Channels, ~FolderName(title[c]).panics
               PROVE  FolderName(title[c]).text = title[c]
    BY DEF MarkedOnce
  <2>1. title[c] \in FolderTitles
    BY DEF TypeOK
  <2>2. PICK n \in FolderNames : ~TitleOf[n].panics /\ title[c] = TitleOf[n].text
    BY <2>1, TitleMade
  <2>3. ~DisplayName(title[c]).panics
    BY FolderIs
  <2>4. Ordinary(n)
    BY <2>2, <2>3, TitleHarmless DEF OrdinaryNames
  <2> QED
    BY <2>2, <2>4, TitleIs, OrdinaryFolder
<1> QED
  BY <1>1, TypeCorrect, PTL

-----------------------------------------------------------------------------
(* No folder is in the index with a marker in its name.                    *)

\* The index has folders under names that were read off a title: of a folder
\* that was made with a name, or one that a client sent along.
NamesInv ==
    \A f \in folders :
        \/ \E n \in FolderNames : Harmless(n) /\ f.name = NameOf[TitleOf[n].text].text
        \/ \E t \in SentTitles : f.name = DisplayName(Bytes(t)).text

\* What a folder is inserted under.
LEMMA InsertedName ==
    ASSUME Inv, NEW r \in Requests, pc[r] \in {"insertFolder", "insertDst"},
           NEW t \in TitlesToInsert(r), ~NameOf[t].panics
    PROVE  \/ \E n \in FolderNames :
                 /\ Harmless(n) /\ t = TitleOf[n].text
                 /\ arg[r].op = "CreateFolder" => n = arg[r].folderName
           \/ /\ arg[r].op # "CreateFolder"
              /\ \E sent \in SentTitles : NameOf[t].text = DisplayName(Bytes(sent)).text
<1>1. ArgOK(r)
  BY DEF Inv, RequestInv
<1>2. ASSUME NEW n \in FolderNames, ~TitleOf[n].panics, t = TitleOf[n].text
      PROVE  Harmless(n)
  <2>1. NameOf[t] = DisplayName(t)
    BY <1>2, MadeTitle DEF NameOf
  <2> QED
    BY <1>2, <2>1, TitleHarmless
<1>3. CASE arg[r].op = "CreateFolder"
  <2>1. arg[r].folderName \in FolderNames
    BY DEF Inv, TypeOK, Args
  <2>2. ~TitleOf[arg[r].folderName].panics
    BY <1>1, <1>3 DEF ArgOK
  <2>3. t = TitleOf[arg[r].folderName].text
    BY <1>3 DEF TitlesToInsert
  <2> QED
    BY <1>2, <2>1, <2>2, <2>3
<1>4. CASE arg[r].op # "CreateFolder" /\ t \in FolderTitles
  <2> PICK n \in FolderNames : ~TitleOf[n].panics /\ t = TitleOf[n].text
    BY <1>4, TitleMade
  <2> QED
    BY <1>2, <1>4
<1>5. CASE arg[r].op # "CreateFolder" /\ t \notin FolderTitles
  <2>1. t \in ClientTitles
    BY <1>5 DEF TitlesToInsert
  <2>2. PICK sent \in SentTitles : t = Bytes(sent)
    BY <1>5, <2>1 DEF ClientTitles
  <2>3. NameOf[t] = DisplayName(t)
    BY <2>1 DEF NameOf
  <2> QED
    BY <1>5, <2>2, <2>3
<1> QED
  BY <1>3, <1>4, <1>5

\* An insert adds a row or renames the one there is.
LEMMA UpsertFolderNames ==
    ASSUME Inv, NEW c \in Channels, NEW n, UpsertFolder(c, n)
    PROVE  \A f \in folders' : f \in folders \/ f.name = n
<1>1. \A f \in folders : [f EXCEPT !.name = n].name = n
  BY DEF Inv, TypeOK, FolderRow
<1>2. FolderRows(c) \subseteq folders
  BY DEF FolderRows
<1> DEFINE new == [id |-> nextFolder, channel |-> c, name |-> n]
           renamed == {[f EXCEPT !.name = n] : f \in FolderRows(c)}
<1>3. new.name = n
  OBVIOUS
<1>4. \A f \in renamed : f.name = n
  BY <1>1, <1>2
<1>5. folders' = folders \cup {new} \/ folders' = (folders \ FolderRows(c)) \cup renamed
  BY DEF UpsertFolder
<1> HIDE DEF new, renamed
<1> QED
  BY <1>3, <1>4, <1>5

\* No other step changes the folders of the index.
LEMMA FoldersStay ==
    ASSUME NEW r \in Requests,
           Call(r) \/ Reject(r) \/ RequestStep(r) \/ Fail(r), ~InsertFolder(r)
    PROVE  UNCHANGED folders
<1>1. CASE Call(r) \/ Reject(r) \/ Fail(r)
  BY <1>1 DEF Call, Reject, Fail, indexVars
<1>2. CASE CreateChannel(r) \/ PanicOnName(r) \/ SetHistoryTTL(r) \/ EditTitle(r)
           \/ DeleteChannel(r) \/ ListDialogs(r)
  BY <1>2 DEF CreateChannel, PanicOnName, SetHistoryTTL, EditTitle, DeleteChannel, ListDialogs,
              indexVars
<1>3. CASE Upload(r) \/ Download(r) \/ EditCaption(r) \/ DeleteMessage(r)
           \/ Forward(r) \/ DeleteSource(r)
  BY <1>3 DEF Upload, Download, EditCaption, DeleteMessage, Forward, DeleteSource, indexVars
<1>4. CASE LookupFolder(r) \/ ListFiles(r) \/ FindRow(r)
           \/ UpsertFile(r) \/ ReadBack(r) \/ FindToPrune(r) \/ PruneRow(r)
  BY <1>4 DEF LookupFolder, ListFiles, FindRow, UpsertFile, ReadBack, FindToPrune, PruneRow,
              indexVars
<1> QED
  BY <1>1, <1>2, <1>3, <1>4 DEF RequestStep

\* Whatever requests interleave, the index gets names that were read.
LEMMA NamesNext == Inv /\ NamesInv /\ [Next]_vars => NamesInv'
<1> SUFFICES ASSUME Inv, NamesInv, [Next]_vars PROVE NamesInv'
  OBVIOUS
<1>1. CASE UNCHANGED folders
  BY <1>1 DEF NamesInv
<1>2. ASSUME NEW r \in Requests, InsertFolder(r)
      PROVE  NamesInv'
  <2> PICK t \in TitlesToInsert(r) :
        \/ /\ pc[r] = "insertFolder" /\ ~NameOf[t].panics
           /\ UpsertFolder(arg[r].channel, NameOf[t].text)
        \/ /\ pc[r] = "insertDst" /\ ~NameOf[t].panics
           /\ UpsertFolder(arg[r].dst, NameOf[t].text)
        \/ /\ NameOf[t].panics
           /\ UNCHANGED folders
    BY <1>2 DEF InsertFolder
  <2>1. ArgOK(r)
    BY DEF Inv, RequestInv
  <2>2. CASE NameOf[t].panics
    BY <1>1, <2>2
  <2>3. CASE ~NameOf[t].panics
    <3>1. PICK c \in Channels : UpsertFolder(c, NameOf[t].text)
      BY <2>1, <2>3, MethodAt DEF ArgOK, Inv
    <3>2. \A f \in folders' : f \in folders \/ f.name = NameOf[t].text
      BY <3>1, UpsertFolderNames
    <3>3. pc[r] \in {"insertFolder", "insertDst"}
      BY <2>3
    <3>4. \/ \E n \in FolderNames : Harmless(n) /\ t = TitleOf[n].text
          \/ \E sent \in SentTitles : NameOf[t].text = DisplayName(Bytes(sent)).text
      BY <2>3, <3>3, InsertedName
    <3> QED
      BY <3>2, <3>4 DEF NamesInv
  <2> QED
    BY <2>2, <2>3
<1>3. CASE UNCHANGED vars
  BY <1>1, <1>3 DEF vars, indexVars
<1> QED
  BY <1>1, <1>2, <1>3, FoldersStay DEF Next

\* Of ordinary names and titles, and of these only, the marker is stripped,
\* whatever requests interleave.
THEOREM OrdinaryNamesStripped ==
    ASSUME OrdinaryNames, OrdinaryTitles
    PROVE  Spec => []NamesStripped
<1>1. Init => NamesInv
  <2> SUFFICES ASSUME Init, NEW f \in folders
               PROVE  \E n \in FolderNames :
                         Harmless(n) /\ f.name = NameOf[TitleOf[n].text].text
    BY DEF NamesInv
  <2>1. f.name = NameOf[TitleOf[FirstFolderName].text].text
    BY DEF Init
  <2>2. FirstFolderName \in FolderNames /\ Harmless(FirstFolderName)
    <3>1. \E n \in FolderNames : Harmless(n)
      BY DriveAssumption
    <3> QED
      BY <3>1 DEF FirstFolderName
  <2> QED
    BY <2>1, <2>2
<1>2. NamesInv => NamesStripped
  <2> SUFFICES ASSUME NamesInv, NEW f \in folders
               PROVE  ~IsFolderTitle(f.name)
    BY DEF NamesStripped
  <2>1. ASSUME NEW n \in FolderNames, Harmless(n), f.name = NameOf[TitleOf[n].text].text
        PROVE  ~IsFolderTitle(f.name)
    BY <2>1, OrdinaryName
  <2>2. ASSUME NEW t \in SentTitles, f.name = DisplayName(Bytes(t)).text
        PROVE  ~IsFolderTitle(f.name)
    <3>1. t \in Seq(Symbols) /\ Ordinary(t)
      BY DriveAssumption DEF OrdinaryTitles
    <3> QED
      BY <2>2, <3>1, OrdinaryStripped
  <2> QED
    BY <2>1, <2>2 DEF NamesInv
<1> QED
  BY <1>1, <1>2, InitInv, InvNext, NamesNext, PTL DEF Spec

-----------------------------------------------------------------------------
(* One call at a time, a folder is indexed under the name it was created   *)
(* with.                                                                   *)

\* No request speaks of a channel that was never created, and a channel that
\* is new, or was not found in the index, is not there.
Fresh(r) ==
    /\ arg[r].channel \in Channels => life[arg[r].channel] # "unused"
    /\ arg[r].dst \in Channels => life[arg[r].dst] # "unused"
    /\ \/ pc[r] = "insertFolder"
       \/ arg[r].op = "CreateFolder" /\ pc[r] \in {"setHistoryTTL", "lookupFolder"}
       => \A d \in folders : d.channel # arg[r].channel
    /\ pc[r] = "insertDst" => \A d \in folders : d.channel # arg[r].dst

FreshInv ==
    /\ \A d \in folders : life[d.channel] # "unused"
    /\ \A r \in Requests : Fresh(r)

CreateInv == FreshInv /\ NamedAsGiven

\* A channel stays one that was created.
LifeGrows == \A c \in Channels : life[c] # "unused" => life'[c] # "unused"

\* The only request that moves is r.
OnlyMoves(r) ==
    \A q \in Requests \ {r} : pc'[q] = pc[q] /\ arg'[q] = arg[q] /\ result'[q] = result[q]

\* A step that adds no folder, to the index or to Telegram, and finds none
\* missing keeps the invariant.
LEMMA CreateQuiet ==
    ASSUME Inv, CreateInv, NEW r \in Requests, LifeGrows, OnlyMoves(r),
           UNCHANGED <<folders, arg>>, pc'[r] \notin {"insertFolder", "insertDst"},
           arg[r].op = "CreateFolder" =>
               /\ result'[r] # "ok"
               /\ pc'[r] \in {"setHistoryTTL", "lookupFolder"} => pc[r] = "setHistoryTTL"
    PROVE  CreateInv'
<1>1. \A d \in folders' : life'[d.channel] # "unused"
  BY DEF CreateInv, FreshInv, LifeGrows, Inv, TypeOK, FolderRow
<1>2. ASSUME NEW q \in Requests PROVE Fresh(q)'
  <2>1. Fresh(q)
    BY DEF CreateInv, FreshInv
  <2>2. CASE q = r
    BY <2>1, <2>2 DEF Fresh, LifeGrows
  <2>3. CASE q # r
    BY <2>1, <2>3 DEF Fresh, LifeGrows, OnlyMoves
  <2> QED
    BY <2>2, <2>3
<1>3. FreshInv'
  BY <1>1, <1>2 DEF FreshInv
<1>4. NamedAsGiven'
  BY DEF CreateInv, NamedAsGiven, OnlyMoves, FolderRows
<1> QED
  BY <1>3, <1>4 DEF CreateInv

\* A call that begins speaks of channels that were created.
LEMMA CreateCall ==
    ASSUME MaxInFlight = 1, Inv, SeqInv, CreateInv, NEW r \in Requests, Call(r)
    PROVE  CreateInv'
<1> PICK op \in Ops : \E a \in Arguments(op) :
       arg' = [arg EXCEPT ![r] = a] /\ Goto(r, FirstStep(op))
  BY DEF Call
<1> PICK a \in Arguments(op) : arg' = [arg EXCEPT ![r] = a] /\ Goto(r, FirstStep(op))
  OBVIOUS
<1>1. /\ a.op = op /\ op \in Methods
      /\ a.channel # None => life[a.channel] # "unused"
      /\ a.dst # None => life[a.dst] # "unused"
  <2>1. /\ a.op = op
        /\ a.channel # None => life[a.channel] # "unused"
        /\ IF op = "MoveFile" THEN a.dst # None /\ life[a.dst] # "unused" ELSE a.dst = None
    BY DEF Arguments
  <2> QED
    BY <2>1, DriveAssumption
<1>2. pc[r] = "idle" /\ UNCHANGED <<life, folders, result>>
  BY DEF Call, telegramVars, indexVars
<1>3. pc'[r] = FirstStep(op) /\ arg'[r] = a /\ OnlyMoves(r)
  BY <1>2 DEF Goto, OnlyMoves, Inv, TypeOK
<1>4. /\ pc'[r] \notin {"insertFolder", "insertDst", "setHistoryTTL"}
      /\ op = "CreateFolder" => pc'[r] = "createChannel"
  BY <1>1, <1>3 DEF FirstStep, Methods
<1>5. result[r] # "ok"
  <2>1. result[r] = "ok" => pc[r] = "returned"
    BY DEF Inv, RequestInv, ArgOK
  <2> QED
    BY <1>2, <2>1
<1>6. ASSUME NEW q \in Requests PROVE Fresh(q)'
  <2>1. CASE q # r
    <3>1. Fresh(q)
      BY DEF CreateInv, FreshInv
    <3> QED
      BY <1>2, <1>3, <2>1, <3>1 DEF Fresh, OnlyMoves
  <2>2. CASE q = r
    <3>1. None \notin Channels
      BY DEF None, Channels
    <3> QED
      BY <1>1, <1>2, <1>3, <1>4, <2>2, <3>1 DEF Fresh
  <2> QED
    BY <2>1, <2>2
<1>7. FreshInv'
  BY <1>2, <1>6 DEF CreateInv, FreshInv
<1>8. NamedAsGiven'
  BY <1>2, <1>3, <1>5 DEF CreateInv, NamedAsGiven, OnlyMoves, FolderRows
<1> QED
  BY <1>7, <1>8 DEF CreateInv

\* A channel that is created is not in the index.
LEMMA CreateCreateChannel ==
    ASSUME Inv, CreateInv, NEW r \in Requests, CreateChannel(r)
    PROVE  CreateInv'
<1> PICK c \in Channels :
       /\ life[c] = "unused"
       /\ life' = [life EXCEPT ![c] = "live"]
       /\ arg' = [arg EXCEPT ![r].channel = c]
  BY DEF CreateChannel
<1>1. pc[r] = "createChannel" /\ Goto(r, "setHistoryTTL") /\ UNCHANGED <<folders, result>>
  BY DEF CreateChannel, indexVars
<1>2. /\ pc'[r] = "setHistoryTTL" /\ arg'[r].channel = c
      /\ arg'[r].op = arg[r].op /\ arg'[r].dst = arg[r].dst
      /\ OnlyMoves(r) /\ LifeGrows /\ life'[c] # "unused"
  BY <1>1 DEF Goto, OnlyMoves, LifeGrows, Inv, TypeOK, Args
<1>3. \A d \in folders : d.channel # c
  BY DEF CreateInv, FreshInv
<1>4. result[r] # "ok"
  <2>1. result[r] = "ok" => pc[r] = "returned"
    BY DEF Inv, RequestInv, ArgOK
  <2> QED
    BY <1>1, <2>1
<1>5. \A d \in folders' : life'[d.channel] # "unused"
  BY <1>1, <1>2 DEF CreateInv, FreshInv, LifeGrows, Inv, TypeOK, FolderRow
<1>6. ASSUME NEW q \in Requests PROVE Fresh(q)'
  <2>1. Fresh(q)
    BY DEF CreateInv, FreshInv
  <2>2. CASE q # r
    BY <1>1, <1>2, <2>1, <2>2 DEF Fresh, OnlyMoves, LifeGrows
  <2>3. CASE q = r
    BY <1>1, <1>2, <1>3, <2>1, <2>3 DEF Fresh, LifeGrows
  <2> QED
    BY <2>2, <2>3
<1>7. FreshInv'
  BY <1>5, <1>6 DEF FreshInv
<1>8. NamedAsGiven'
  BY <1>1, <1>2, <1>4 DEF CreateInv, NamedAsGiven, OnlyMoves, FolderRows
<1> QED
  BY <1>7, <1>8 DEF CreateInv

\* A folder that is about to be inserted is not in the index.
LEMMA CreateLookupFolder ==
    ASSUME Inv, CreateInv, NEW r \in Requests, LookupFolder(r)
    PROVE  CreateInv'
<1>1. UNCHANGED <<life, folders, arg>> /\ LifeGrows
  BY DEF LookupFolder, telegramVars, indexVars, LifeGrows
<1>2. ASSUME pc[r] = "lookupFolder",
             NEW f \in FolderRows(arg[r].channel), Resolved(r, f)
      PROVE  CreateInv'
  <2>1. arg[r].op # "CreateFolder"
    BY <1>2 DEF CreateInv, FreshInv, Fresh, FolderRows
  <2>2. arg[r].op \in {"ListFiles", "UploadFile", "RenameFile", "DeleteFile", "MoveFile"}
    BY <1>2, <2>1, MethodAt DEF Inv
  <2>3. pc'[r] = AfterEnsure(arg[r].op) /\ OnlyMoves(r)
    BY <1>1, <1>2, <2>1 DEF Resolved, Goto, OnlyMoves, Inv, TypeOK
  <2>4. pc'[r] \notin {"insertFolder", "insertDst"}
    BY <2>2, <2>3 DEF AfterEnsure
  <2> QED
    BY <1>1, <2>1, <2>3, <2>4, CreateQuiet
<1>3. ASSUME pc[r] = "lookupDst",
             NEW f \in FolderRows(arg[r].dst), ResolvedDst(r, f)
      PROVE  CreateInv'
  <2>1. arg[r].op # "CreateFolder"
    BY <1>3, MethodAt DEF Inv
  <2>2. pc'[r] = "upsertFile" /\ OnlyMoves(r)
    BY <1>1, <1>3 DEF ResolvedDst, Goto, OnlyMoves, Inv, TypeOK
  <2> QED
    BY <1>1, <2>1, <2>2, CreateQuiet
<1>4. ASSUME NEW where, Goto(r, where), UNCHANGED result,
             \/ /\ pc[r] = "lookupFolder" /\ where = "insertFolder"
                /\ FolderRows(arg[r].channel) = {}
             \/ /\ pc[r] = "lookupDst" /\ where = "insertDst"
                /\ FolderRows(arg[r].dst) = {}
      PROVE  CreateInv'
  <2>1. pc'[r] = where /\ OnlyMoves(r)
    BY <1>1, <1>4 DEF Goto, OnlyMoves, Inv, TypeOK
  <2>2. ASSUME NEW q \in Requests PROVE Fresh(q)'
    <3>1. Fresh(q)
      BY DEF CreateInv, FreshInv
    <3>2. CASE q # r
      BY <1>1, <2>1, <3>1, <3>2 DEF Fresh, OnlyMoves
    <3>3. CASE q = r
      BY <1>1, <1>4, <2>1, <3>1, <3>3 DEF Fresh, FolderRows
    <3> QED
      BY <3>2, <3>3
  <2>3. FreshInv'
    BY <1>1, <2>2 DEF CreateInv, FreshInv
  <2>4. NamedAsGiven'
    BY <1>1, <1>4 DEF CreateInv, NamedAsGiven, FolderRows
  <2> QED
    BY <2>3, <2>4 DEF CreateInv
<1> QED
  BY <1>2, <1>3, <1>4 DEF LookupFolder

\* The folder is inserted under the name its creator gave it.
LEMMA CreateInsertFolder ==
    ASSUME OrdinaryNames, Inv, SeqInv, CreateInv, NEW r \in Requests, InsertFolder(r)
    PROVE  CreateInv'
<1>1. UNCHANGED <<life, arg>> /\ LifeGrows /\ pc[r] \in {"insertFolder", "insertDst"}
  BY DEF InsertFolder, telegramVars, LifeGrows
<1> PICK t \in TitlesToInsert(r) :
      \/ /\ pc[r] = "insertFolder" /\ ~NameOf[t].panics
         /\ UpsertFolder(arg[r].channel, NameOf[t].text)
         /\ \/ \E f \in folders' : f.channel = arg[r].channel /\ Resolved(r, f)
            \/ FailAfter(r)
      \/ /\ pc[r] = "insertDst" /\ ~NameOf[t].panics
         /\ UpsertFolder(arg[r].dst, NameOf[t].text)
         /\ \/ \E f \in folders' : f.channel = arg[r].dst /\ ResolvedDst(r, f)
            \/ FailAfter(r)
      \/ /\ NameOf[t].panics
         /\ Return(r, "failed")
         /\ UNCHANGED <<folders, nextFolder, local>>
  BY DEF InsertFolder
<1>2. CASE Return(r, "failed") /\ UNCHANGED folders
  <2>1. pc'[r] = "returned" /\ result'[r] = "failed" /\ OnlyMoves(r)
    BY <1>1, <1>2 DEF Return, Goto, OnlyMoves, Inv, TypeOK
  <2> QED
    BY <1>1, <1>2, <2>1, CreateQuiet
<1>3. ASSUME NEW c \in Channels, FolderRows(c) = {}, life[c] # "unused",
             ~NameOf[t].panics, UpsertFolder(c, NameOf[t].text), OnlyMoves(r),
             pc'[r] \notin {"setHistoryTTL", "lookupFolder", "insertFolder", "insertDst"},
             arg[r].op = "CreateFolder" => arg[r].channel = c
      PROVE  CreateInv'
  <2> DEFINE new == [id |-> nextFolder, channel |-> c, name |-> NameOf[t].text]
  <2>1. folders' = folders \cup {new}
    BY <1>3 DEF UpsertFolder
  <2>2. new.channel = c /\ new.name = NameOf[t].text
    OBVIOUS
  <2> HIDE DEF new
  <2>3. \A d \in folders' : life'[d.channel] # "unused"
    BY <1>1, <1>3, <2>1, <2>2 DEF CreateInv, FreshInv
  <2>4. \A q \in Requests \ {r} :
           pc'[q] \notin {"setHistoryTTL", "lookupFolder", "insertFolder", "insertDst"}
    <3>1. r \in InFlight
      BY <1>1 DEF InFlight
    <3>2. \A q \in Requests \ {r} : q \notin InFlight
      BY <3>1 DEF SeqInv, OneInFlight
    <3> QED
      BY <1>3, <3>2 DEF InFlight, OnlyMoves
  <2>5. FreshInv'
    <3>1. ASSUME NEW q \in Requests PROVE Fresh(q)'
      <4>1. Fresh(q)
        BY DEF CreateInv, FreshInv
      <4>2. pc'[q] \notin {"setHistoryTTL", "lookupFolder", "insertFolder", "insertDst"}
        BY <1>3, <2>4
      <4> QED
        BY <1>1, <4>1, <4>2 DEF Fresh
    <3> QED
      BY <2>3, <3>1 DEF FreshInv
  <2>6. ASSUME NEW q \in Requests, arg'[q].op = "CreateFolder", result'[q] = "ok"
        PROVE  \E f \in folders' :
                  /\ f.channel = arg'[q].channel
                  /\ f.name = TrimSpace(Bytes(Stripped(arg'[q].folderName)))
    <3>1. CASE q = r
      <4>1. PICK n \in FolderNames :
                /\ Harmless(n) /\ t = TitleOf[n].text /\ n = arg[r].folderName
        BY <1>1, <1>3, <2>6, <3>1, InsertedName
      <4>2. NameOf[t].text = TrimSpace(Bytes(Stripped(arg[r].folderName)))
        BY <4>1, OrdinaryName
      <4>3. new \in folders' /\ new.channel = arg'[q].channel
        BY <1>1, <1>3, <2>1, <2>2, <2>6, <3>1
      <4> QED
        BY <1>1, <2>2, <3>1, <4>2, <4>3
    <3>2. CASE q # r
      <4>1. arg[q].op = "CreateFolder" /\ result[q] = "ok" /\ arg'[q] = arg[q]
        BY <1>1, <1>3, <2>6, <3>2 DEF OnlyMoves
      <4>2. PICK f \in FolderRows(arg[q].channel) :
                f.name = TrimSpace(Bytes(Stripped(arg[q].folderName)))
        BY <4>1 DEF CreateInv, NamedAsGiven
      <4> QED
        BY <2>1, <4>1, <4>2 DEF FolderRows
    <3> QED
      BY <3>1, <3>2
  <2>7. NamedAsGiven'
    BY <2>6 DEF NamedAsGiven, FolderRows
  <2> QED
    BY <2>5, <2>7 DEF CreateInv
<1>4. ArgOK(r)
  BY DEF Inv, RequestInv
<1>5. CASE pc[r] = "insertFolder" /\ ~NameOf[t].panics
           /\ UpsertFolder(arg[r].channel, NameOf[t].text)
           /\ \E f \in folders' : f.channel = arg[r].channel /\ Resolved(r, f)
  <2>1. arg[r].op \in {"CreateFolder", "ListFiles", "UploadFile", "RenameFile", "DeleteFile",
                       "MoveFile"}
    BY <1>5, MethodAt DEF Inv
  <2>2. arg[r].channel \in Channels
    BY <1>4, <1>5, <2>1 DEF ArgOK
  <2>3. pc'[r] = AfterEnsure(arg[r].op) /\ OnlyMoves(r)
    BY <1>1, <1>5 DEF Resolved, Goto, OnlyMoves, Inv, TypeOK
  <2>4. pc'[r] \notin {"setHistoryTTL", "lookupFolder", "insertFolder", "insertDst"}
    BY <2>1, <2>3 DEF AfterEnsure
  <2>5. FolderRows(arg[r].channel) = {} /\ life[arg[r].channel] # "unused"
    BY <1>5, <2>2 DEF CreateInv, FreshInv, Fresh, FolderRows
  <2> QED
    BY <1>3, <1>5, <2>2, <2>3, <2>4, <2>5
<1>6. CASE pc[r] = "insertDst" /\ ~NameOf[t].panics
           /\ UpsertFolder(arg[r].dst, NameOf[t].text)
           /\ \E f \in folders' : f.channel = arg[r].dst /\ ResolvedDst(r, f)
  <2>1. arg[r].op = "MoveFile"
    BY <1>6, MethodAt DEF Inv
  <2>2. arg[r].dst \in Channels
    BY <1>4, <2>1 DEF ArgOK
  <2>3. pc'[r] = "upsertFile" /\ OnlyMoves(r)
    BY <1>1, <1>6 DEF ResolvedDst, Goto, OnlyMoves, Inv, TypeOK
  <2>4. FolderRows(arg[r].dst) = {} /\ life[arg[r].dst] # "unused"
    BY <1>6, <2>2 DEF CreateInv, FreshInv, Fresh, FolderRows
  <2> QED
    BY <1>3, <1>6, <2>1, <2>2, <2>3, <2>4
<1>7. ASSUME NEW c, ~NameOf[t].panics, UpsertFolder(c, NameOf[t].text), FailAfter(r),
             \/ pc[r] = "insertFolder" /\ c = arg[r].channel
             \/ pc[r] = "insertDst" /\ c = arg[r].dst
      PROVE  CreateInv'
  <2>1. c \in Channels /\ (arg[r].op = "CreateFolder" => arg[r].channel = c)
    BY <1>4, <1>7, MethodAt DEF ArgOK, Inv
  <2>2. pc'[r] = "returned" /\ OnlyMoves(r)
    BY <1>1, <1>7 DEF FailAfter, Return, Goto, OnlyMoves, Inv, TypeOK
  <2>3. FolderRows(c) = {} /\ life[c] # "unused"
    BY <1>7, <2>1 DEF CreateInv, FreshInv, Fresh, FolderRows
  <2> QED
    BY <1>3, <1>7, <2>1, <2>2, <2>3
<1> QED
  BY <1>2, <1>5, <1>6, <1>7

\* Every other step is one that adds no folder.
LEMMA CreateOther ==
    ASSUME Inv, CreateInv, NEW r \in Requests, RequestStep(r) \/ Reject(r) \/ Fail(r),
           ~CreateChannel(r), ~LookupFolder(r), ~InsertFolder(r)
    PROVE  CreateInv'
<1>1. UNCHANGED folders
  BY FoldersStay
<1>2. CASE Reject(r) \/ Fail(r) \/ PanicOnName(r)
  <2>1. \E a \in {"rejected", "failed"} : Return(r, a)
        /\ UNCHANGED <<life, arg>>
    BY <1>2 DEF Reject, Fail, PanicOnName, telegramVars
  <2>2. pc'[r] = "returned" /\ result'[r] # "ok" /\ OnlyMoves(r) /\ LifeGrows
    BY <2>1 DEF Return, Goto, OnlyMoves, LifeGrows, Inv, TypeOK
  <2> QED
    BY <1>1, <2>1, <2>2, CreateQuiet
<1>3. CASE SetHistoryTTL(r)
  <2>1. pc[r] = "setHistoryTTL" /\ Goto(r, "lookupFolder") /\ UNCHANGED <<life, arg, result>>
    BY <1>3 DEF SetHistoryTTL, telegramVars
  <2>2. pc'[r] = "lookupFolder" /\ OnlyMoves(r) /\ LifeGrows
    BY <2>1 DEF Goto, OnlyMoves, LifeGrows, Inv, TypeOK
  <2>3. result'[r] # "ok"
    <3>1. result[r] = "ok" => pc[r] = "returned"
      BY DEF Inv, RequestInv, ArgOK
    <3> QED
      BY <2>1, <3>1
  <2> QED
    BY <1>1, <2>1, <2>2, <2>3, CreateQuiet
<1>4. ASSUME pc[r] \notin {"idle", "createChannel", "setHistoryTTL", "lookupFolder",
                           "insertFolder", "returned"},
             UNCHANGED arg, LifeGrows, OnlyMoves(r),
             pc'[r] \notin {"insertFolder", "insertDst"}
      PROVE  CreateInv'
  <2>1. arg[r].op # "CreateFolder"
    <3>1. pc[r] \in Stages(arg[r].op) \cup {"returned"}
      BY DEF Inv, TypeOK
    <3> QED
      BY <1>4, <3>1 DEF Stages
  <2> QED
    BY <1>1, <1>4, <2>1, CreateQuiet
<1>5. CASE EditTitle(r) \/ DeleteChannel(r) \/ ListDialogs(r)
  <2>1. /\ pc[r] \in {"editTitle", "deleteChannel", "listDialogs"}
        /\ UNCHANGED arg /\ \E a : Return(r, a)
    BY <1>5 DEF EditTitle, DeleteChannel, ListDialogs
  <2>2. LifeGrows
    BY <1>5 DEF EditTitle, DeleteChannel, ListDialogs, telegramVars, LifeGrows, Inv, TypeOK
  <2>3. pc'[r] = "returned" /\ OnlyMoves(r)
    BY <2>1 DEF Return, Goto, OnlyMoves, Inv, TypeOK
  <2> QED
    BY <1>4, <2>1, <2>2, <2>3
<1>6. ASSUME pc[r] \in {"upload", "download", "editCaption", "deleteMessage", "forward",
                        "deleteSource", "listFiles", "findRow", "upsertFile", "readBack",
                        "findToPrune", "pruneRow"},
             UNCHANGED <<arg, life>>,
             \/ \E where \in {"lookupFolder", "deleteSource", "lookupDst", "upsertFile",
                              "readBack", "findToPrune", "pruneRow"} :
                   Goto(r, where) /\ UNCHANGED result
             \/ \E a : Return(r, a)
      PROVE  CreateInv'
  <2>1. OnlyMoves(r) /\ pc'[r] \notin {"insertFolder", "insertDst"} /\ LifeGrows
    BY <1>6 DEF Return, Goto, OnlyMoves, LifeGrows, Inv, TypeOK
  <2> QED
    BY <1>4, <1>6, <2>1
<1>7. CASE Upload(r) \/ Download(r) \/ EditCaption(r)
  BY <1>6, <1>7 DEF Upload, Download, EditCaption, telegramVars
<1>8. CASE DeleteMessage(r) \/ Forward(r) \/ DeleteSource(r)
  BY <1>6, <1>8 DEF DeleteMessage, Forward, DeleteSource, RemoveMessage, telegramVars
<1>9. CASE ListFiles(r) \/ FindRow(r) \/ UpsertFile(r)
  BY <1>6, <1>9 DEF ListFiles, FindRow, UpsertFile, Upserted, FailAfter, telegramVars
<1>10. CASE ReadBack(r) \/ FindToPrune(r) \/ PruneRow(r)
  BY <1>6, <1>10 DEF ReadBack, FindToPrune, PruneRow, Upserted, FailAfter, telegramVars
<1> QED
  BY <1>2, <1>3, <1>5, <1>7, <1>8, <1>9, <1>10 DEF RequestStep

\* At first no folder was created, and what is indexed is on Telegram.
LEMMA InitCreateInv == Init => CreateInv
<1> SUFFICES ASSUME Init PROVE CreateInv
  OBVIOUS
<1>1. \A d \in folders : life[d.channel] # "unused"
  <2>1. \A c \in Indexed : c \in Channels /\ c \in Existing
    BY DriveAssumption DEF Indexed, Existing, Channels
  <2>2. \A d \in folders : d.channel \in Indexed
    BY DEF Init
  <2>3. \A c \in Channels : c \in Existing => life[c] = "live"
    BY DEF Init
  <2> QED
    BY <2>1, <2>2, <2>3
<1>2. \A r \in Requests : arg[r].channel = None /\ arg[r].dst = None /\ arg[r].op = "none"
                          /\ pc[r] = "idle"
  BY DEF Init, NoArg
<1>3. None \notin Channels
  BY DEF None, Channels
<1> QED
  BY <1>1, <1>2, <1>3 DEF CreateInv, FreshInv, Fresh, NamedAsGiven

\* With one call open at a time every step keeps the invariant.
LEMMA CreateNext ==
    ASSUME MaxInFlight = 1, OrdinaryNames
    PROVE  Inv /\ SeqInv /\ CreateInv /\ [Next]_vars => CreateInv'
<1> SUFFICES ASSUME Inv, SeqInv, CreateInv, [Next]_vars PROVE CreateInv'
  OBVIOUS
<1>1. ASSUME NEW r \in Requests, Call(r) \/ Reject(r) \/ RequestStep(r) \/ Fail(r)
      PROVE  CreateInv'
  BY <1>1, CreateCall, CreateCreateChannel, CreateLookupFolder, CreateInsertFolder, CreateOther
<1>2. CASE UNCHANGED vars
  BY <1>2 DEF vars, telegramVars, indexVars, requestVars, CreateInv, FreshInv, Fresh, NamedAsGiven,
              FolderRows
<1> QED
  BY <1>1, <1>2 DEF Next

\* One call at a time, a folder that was created without an error is in the
\* index under the name its creator gave it, whatever other calls do later.
THEOREM NamedAsGivenAlways ==
    ASSUME MaxInFlight = 1, OrdinaryNames
    PROVE  Spec => []NamedAsGiven
<1>1. Init => Inv /\ SeqInv /\ CreateInv
  BY InitInv, InitSeqInv, InitCreateInv
<1>2. Inv /\ SeqInv /\ CreateInv /\ [Next]_vars => (Inv /\ SeqInv /\ CreateInv)'
  BY InvNext, SeqNext, CreateNext
<1>3. Inv /\ SeqInv /\ CreateInv => NamedAsGiven
  BY DEF CreateInv
<1> QED
  BY <1>1, <1>2, <1>3, PTL DEF Spec

=============================================================================
