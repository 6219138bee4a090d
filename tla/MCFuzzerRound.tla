---- MODULE MCFuzzerRound ----
(* Instances of FuzzerRound for TLC. *)
EXTENDS FuzzerRound

\* One sample size, or three with uneven gaps.
MCSizes == {<<2>>, <<2, 3, 7>>}
\* No input is ignored from the start, or the first one, or the last one.
MCIgnoreLists == {{}, {0}, {3}}
====
