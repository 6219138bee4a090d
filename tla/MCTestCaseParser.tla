---- MODULE MCTestCaseParser ----
(* Instances of TestCaseParser for TLC. *)
EXTENDS TestCaseParser, SequencesExt

MCFile(actors, symbols, checks, sizes) ==
    [actors |-> actors, symbols |-> symbols, checks |-> checks, sizes |-> sizes,
     offsets |-> [s \in DOMAIN sizes |->
                    FoldLeft(LAMBDA a, b : a + b, 0, SubSeq(sizes, 1, s - 1))]]

\* Files with one to three actors, small and full sections, with and without
\* symbols; two may fail the integrity check, three have a section
\* that is too large.  The last two, in this order, leave the parser in a section.
MCFiles ==
    {MCFile(<<{}>>, 2, Facts, <<3>>),
     MCFile(<<{}>>, 1, Facts, <<1>>),
     MCFile(<<{}, {"user"}>>, 2, Facts, <<2, 3>>),
     MCFile(<<{}, {"guest"}, {}>>, 3, Facts, <<1, 2, 1>>),
     MCFile(<<{}>>, 0, {"ordered", "targets"}, <<2>>),
     MCFile(<<{}>>, 1, Facts \ {"start"}, <<2>>),
     MCFile(<<{}, {}>>, 2, Facts, <<2, 4>>),
     MCFile(<<{}>>, 1, Facts, <<4>>),
     MCFile(<<{}, {}>>, 2, Facts, <<1, 4>>),
     MCFile(<<{}, {}, {}>>, 0, Facts, <<1, 3, 1>>)}
====
