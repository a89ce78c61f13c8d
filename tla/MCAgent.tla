------------------------------ MODULE MCAgent -------------------------------
(* Threads, requests and rules for model-checking the agent. *)
EXTENDS Agent

CONSTANTS t1, t2, p1, p2, p3, b1, b2, b3

MCThread1 == {t1}
MCThread2 == {t1, t2}
Paths2 == {p1, p2}
Paths3 == {p1, p2, p3}
Buffers2 == {b1, b2}
Buffers3 == {b1, b2, b3}

Ask(k, m) == [path |-> k, mode |-> m]

\* Two threads on two paths: p1 in two modes, so that its verdict varies.
MixedRequest == {Ask(p1, "rdonly"), Ask(p1, "wronly"), Ask(p2, "rdwr")}
MixedRules == {[k \in Paths2 |-> IF k = p1 THEN {"R"} ELSE NoRule]}

\* Every mode of access on one path, under every permission.
AnyModeRequest == {Ask(p1, m) : m \in Mode} \cup {Ask(p2, "rdonly")}
AllRules == [Paths2 -> {NoRule} \cup Permissions]

\* Each path in one mode only, three paths for two entries.
OneModeRequest == {Ask(p1, "rdonly"), Ask(p2, "rdwr"), Ask(p3, "fopen")}
OneModeRules == [Paths3 -> {NoRule, {}, {"R"}, {"W"}, {"R", "W"}, {"R", "F"}}]
=============================================================================
