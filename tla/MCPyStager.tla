------------------------------ MODULE MCPyStager ------------------------------
(***************************************************************************)
(* Source directories for model checking PyStager.                         *)
(***************************************************************************)
EXTENDS PyStager

Names == <<"a", "b", "c", "d", "e">>

\* A source with the first n names, all of one shape.
Source(n, shape, others) ==
    [load_level |-> 0, exists |-> TRUE, items |-> SubSeq(Names, 1, n), others |-> others,
     shape |-> [name \in {Names[i] : i \in 1 .. n} |-> shape]]

NoSource == [Source(0, "flat", 0) EXCEPT !.exists = FALSE]

\* From no item to two for some of the slaves; and no source at all.
FlatSources == {NoSource} \cup {Source(n, "flat", 0) : n \in 0 .. 5}

\* Directories whose own sub-directories have no files.
HollowSources == {Source(n, "hollow", 0) : n \in 1 .. 3}

\* Directories whose own sub-directories all have files.
DeepSources == {Source(n, "deep", 0) : n \in 1 .. 3}

\* A plain file lies beside the sub-directories.
MixedSources == {Source(n, "flat", 1) : n \in 1 .. 3}

\* Files, in a directory without others, with two of one name, and with one that is
\* not at the top.
FileSources ==
    {[Source(3, shape, 0) EXCEPT !.load_level = 1] : shape \in {"flat", "deep"}}
    \cup {[Source(2, "flat", 0) EXCEPT !.load_level = 1, !.items = list] :
             list \in {<<"a", "b", "a">>, <<"a", "b", "a", "b">>}}

\* All of these, and one of which only some sub-directories can be hashed.
AllSources ==
    FlatSources \cup HollowSources \cup DeepSources \cup MixedSources \cup FileSources
    \cup {[Source(4, "flat", 0) EXCEPT !.shape["b"] = "deep"]}

=============================================================================
