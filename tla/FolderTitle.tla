---------------------------- MODULE FolderTitle -----------------------------
(***************************************************************************)
(* Folder titles: the marker "[TC]" that makes a channel a folder,         *)
(* internal/telegram/dialogs, and the title of a folder's name,            *)
(* internal/telegram/folders.                                              *)
(*                                                                         *)
(* Go indexes strings by bytes, and lower-casing a letter may change how   *)
(* many it takes.  A title is written with the symbols below and handled   *)
(* as the sequence of their bytes; the two halves of the marker are        *)
(* symbols of their own, in either case.                                   *)
(***************************************************************************)
EXTENDS Integers, Sequences, SequencesExt

CONSTANT MaxTitle   \* bound: symbols in the titles that are checked

ASSUME FolderTitleAssumption == MaxTitle \in Nat

Open    == "[T"
Close   == "C]"
Space   == " "
Letter  == "x"
Grows   == "grows"     \* U+023A: two bytes, three when lower-cased
Shrinks == "shrinks"   \* U+0130: two bytes, one when lower-cased

Invalid == "invalid"   \* U+FFFD: three bytes, in lower case only

Symbols == {Open, Close, Space, Letter, Grows, Shrinks}

Width(symbol) == IF symbol \in {Space, Letter} THEN 1 ELSE 2

\* The bytes of a string, each with its place in its symbol.
Bytes(symbols) ==
    FlattenSeq([i \in DOMAIN symbols |->
                   [k \in 1..Width(symbols[i]) |-> <<symbols[i], k>>]])

marker == Bytes(<<Open, Close>>)

\* Bytes i and i + 1 are a letter of two bytes that lower-casing may change.
LeadBytes == {<<Grows, 1>>, <<Shrinks, 1>>}
TailBytes == {<<Grows, 2>>, <<Shrinks, 2>>}
Joins(text, i) ==
    i \in 1..Len(text) - 1 /\ text[i] \in LeadBytes /\ text[i + 1] \in TailBytes

\* What byte i is in lower case: a byte that is no letter of its own, as a cut
\* may leave it, is replaced by U+FFFD; a letter that grows has a byte more, one
\* that shrinks a byte less, and what the halves of both make keeps its width.
LowerAt(text, i) ==
    LET tail == text[i] \in TailBytes
    IN  IF (text[i] \in LeadBytes /\ ~Joins(text, i)) \/ (tail /\ ~Joins(text, i - 1))
        THEN <<<<Invalid, 1>>, <<Invalid, 2>>, <<Invalid, 3>>>>
        ELSE IF ~tail \/ text[i - 1][1] # text[i][1] THEN <<text[i]>>
        ELSE IF text[i] = <<Grows, 2>> THEN <<text[i], <<Grows, 3>>>>
        ELSE <<>>

\* strings.ToLower.
ToLower(text) == FlattenSeq([i \in DOMAIN text |-> LowerAt(text, i)])

\* strings.Index of the marker: the bytes before its first occurrence, -1
\* without one.
Index(text) ==
    LET starts == {i \in 0..Len(text) - Len(marker) :
                      SubSeq(text, i + 1, i + Len(marker)) = marker}
    IN  IF starts = {} THEN -1 ELSE CHOOSE i \in starts : \A j \in starts : i <= j

IsFolderTitle(t) == Index(ToLower(t)) >= 0

\* strings.TrimSpace.
TrimSpace(text) ==
    LET kept == {i \in DOMAIN text : text[i] # <<Space, 1>>}
    IN  IF kept = {} THEN <<>>
        ELSE SubSeq(text, CHOOSE i \in kept : \A j \in kept : i <= j,
                          CHOOSE i \in kept : \A j \in kept : j <= i)

\* Seeded fault: the cut ends where the marker begins in what is left.
Bug_Cut(s) ==
    LET i == Index(s.lower)
    IN  IF i < 0 \/ s.panics THEN s
        ELSE [rest   |-> SubSeq(s.rest, i + 1, Len(s.rest)),
              lower  |-> SubSeq(s.lower, i + Len(marker) + 1, Len(s.lower)),
              kept   |-> s.kept \o SubSeq(s.rest, 1, i),
              panics |-> FALSE]

\* One turn of DisplayName's loop: the marker is looked for in the lower-cased
\* title and cut out of the title itself, where an index past its end panics.
Cut(s) ==
    LET i == Index(s.lower)
    IN  IF i < 0 \/ s.panics THEN s
        ELSE [rest   |-> SubSeq(s.rest, i + Len(marker) + 1, Len(s.rest)),
              lower  |-> SubSeq(s.lower, i + Len(marker) + 1, Len(s.lower)),
              kept   |-> s.kept \o SubSeq(s.rest, 1, i),
              panics |-> i + Len(marker) > Len(s.rest)]

\* DisplayName: the text without markers, and whether it panics.
DisplayName(t) ==
    LET turns == Len(t)
        s[k \in 0..turns] ==
            IF k = 0 THEN [rest |-> t, lower |-> ToLower(t),
                           kept |-> <<>>, panics |-> FALSE]
            ELSE Cut(s[k - 1])
    IN  [text |-> TrimSpace(s[turns].kept \o s[turns].rest), panics |-> s[turns].panics]

\* Seeded fault: a name that consists of the marker gets no marker.
Bug_FolderName(displayName) ==
    LET clean == DisplayName(displayName)
    IN  [clean EXCEPT !.text = IF @ = <<>> THEN @ ELSE @ \o Bytes(<<Space>>) \o marker]

\* FolderName: the name without markers, and the marker after it.
FolderName(displayName) ==
    LET clean == DisplayName(displayName)
    IN  [clean EXCEPT !.text = IF @ = <<>> THEN marker ELSE @ \o Bytes(<<Space>>) \o marker]

-----------------------------------------------------------------------------
(* Facts about titles.                                                     *)

\* The places of the markers in a title.
Markers(t) ==
    {i \in 1..Len(t) - 1 : t[i] = Open /\ t[i + 1] = Close}

\* No letter before a marker changes its width when it is lower-cased.
CutsAlign(t) ==
    \A i \in Markers(t), j \in DOMAIN t :
        t[j] \in {Grows, Shrinks} => j > i

\* A title without its markers, symbol by symbol.
Stripped(t) ==
    FlattenSeq([i \in DOMAIN t |->
        IF {i - 1, i} \cap Markers(t) = {} THEN <<t[i]>> ELSE <<>>])

\* Taking out the markers puts no new marker together, as from "[T[TC]C]".
OneLayer(t) == Markers(Stripped(t)) = {}

\* A name with no such marker and no letter that changes its width.
Ordinary(t) == OneLayer(t) /\ \A j \in DOMAIN t : t[j] \notin {Grows, Shrinks}

Titles == BoundedSeq(Symbols, MaxTitle)

\* Whatever the name, what FolderName makes of it is the title of a folder.
EveryNameIsMarked ==
    \A t \in Titles :
        LET folder == FolderName(Bytes(t))
        IN  ~folder.panics => IsFolderTitle(folder.text)

=============================================================================
