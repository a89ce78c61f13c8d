------------------------------ MODULE MCAccess ------------------------------
(* File systems, configuration files and names for model-checking config.c. *)
EXTENDS Access

nginx == <<"nginx">>
cat == <<"cat">>

d == <<"/", "d">>
ds == d \o Slash
e == <<"/", "e">>
f == ds \o <<"f">>
g == ds \o <<"g">>
x == <<"/", "x">>

FlatFiles == {f, g, x}
\* The directory below /d has no files.
FlatDirectories == {d, ds \o <<"s">>}

\* Absolute names, single ones, and a relative one with a slash.
TheNames == {f, <<"f">>, <<"x">>, <<"d", "/", "f">>}
TheBases == {AT_FDCWD, d}

\* /e/d/f as well as /e/df.
DeepFiles == {e \o ds \o <<"f">>, e \o Slash \o <<"d", "f">>, x}
DeepDirectories == {e, e \o d}

P(path, letters) == [path |-> path, letters |-> letters]
S(name, pairs) == [name |-> name, pairs |-> pairs]

\* A directory, a file in it and another, a pair without AUTHORITY, one without PATH.
SomePairs == {P(ds, {"F"}), P(ds, {}), P(f, {"w", "r"}), P(x, {"R"}), P(<<>>, {"w"}), NULL}
Two == {<<p, q>> : p, q \in SomePairs} \cup {<<p>> : p \in SomePairs} \cup {<<>>}

\* Sections of the program around one of another.
FlatConfigs ==
  {<<S(nginx, ps), S(cat, <<P(g, {"r"}), P(f, {"f"})>>)>> : ps \in Two}
    \cup {<<S(nginx, ps), S(cat, NULL), S(nginx, <<p>>)>> : ps \in Two, p \in {P(f, {"R"}), P(ds, {"w"}), NULL}}
    \cup {<<S(nginx, NULL)>>, NULL}

\* A directory with one below it.
DeepConfigs == {<<S(nginx, <<P(e \o Slash, {"F"})>>)>>}
=============================================================================
