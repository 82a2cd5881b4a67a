------------------------------ MODULE MCDrive -------------------------------
(* Drive for TLC.                                                          *)
EXTENDS Drive, TLC

Symmetry == Permutations(Requests)

\* A folder name, and with it the marker as a name and names that panic: when
\* their title is read, and when it is made.
OneName   == {<<Letter>>}
SomeNames == {<<Letter>>, <<Open, Close>>, <<Grows>>, <<Grows, Open, Close>>}

\* A title with a marker nested in a marker, "[T[TC]C]", and a name that ends
\* besides with a letter that is shorter in lower case.
NestedTitle == {<<Open, Open, Close, Close>>}
NestedName  == OneName \cup {<<Open, Open, Close, Close, Shrinks>>}

=============================================================================
