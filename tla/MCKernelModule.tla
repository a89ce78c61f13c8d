--------------------------- MODULE MCKernelModule ---------------------------
(* Programs, files and runs of nluser for model-checking the kernel module. *)
EXTENDS KernelModule

CONSTANTS p1, s1, mytest, aout, f, g, d, e, h

Processes == {p1}
CommOfAll == [p \in Processes |-> mytest]
Senders == {s1}
Comms == {mytest, aout}
AllOptions == {<<"-r">>, <<>>, <<mytest>>, <<aout>>, <<aout, "-r">>}

\* All names but g are absolute.  The directory d has the file f and the directory e, whose
\* name does not end with a slash; h is in e, and g is the name that is made for it.
Paths == {f, g, d, e, h}
AbsolutePaths == {f, d, e, h}
SlashedPaths == {d}
AnEntry(path, file, directory) == [path |-> path, file |-> file, directory |-> directory]
TheEntries == [x \in {d, e} |-> IF x = d THEN <<AnEntry(f, f, FALSE), AnEntry(e, e, TRUE)>>
                                         ELSE <<AnEntry(g, h, FALSE)>>]
Requests == {[fn |-> "open", path |-> g, mode |-> "rdonly"],
             [fn |-> "openat", path |-> f, mode |-> "wronly"]}

\* The name of the second section has both programs in it.
TheSections == {<<mytest, mytest>>, <<aout, mytest>>, <<aout, aout>>}
Pair(path, letters) == [path |-> path, letters |-> letters]
Section1 == [name |-> mytest, pairs |-> <<Pair(h, {"f"})>>]
Section2(pairs) == [name |-> aout, pairs |-> pairs]
TheFiles == {<<Section1, Section2(<<Pair(d, NULL), Pair(f, {"W", "r"})>>), Section2(NULL), Section1>>,
             <<Section2(<<Pair(d, {"w", "r"}), NULL, Pair(g, {"F"})>>)>>,
             NULL}
=============================================================================
