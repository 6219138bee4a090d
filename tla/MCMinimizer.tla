---------------------------- MODULE MCMinimizer ----------------------------
(* Programs with instrumentation, jumps and two-byte instructions, every   *)
(* combination of what their leak needs, and short input sequences.        *)
EXTENDS Minimizer, TLC

L(id, k) == [id |-> id, k |-> k, t |-> 0, by |-> "none", n |-> 0, two |-> FALSE,
             tag |-> FALSE, before |-> 0, nopped |-> FALSE]
Inst(id, by, n) == [L(id, "inst") EXCEPT !.by = by, !.n = n]
Mask(id, b, n) == [Inst(id, "mask", n) EXCEPT !.tag = TRUE, !.before = b]
Jump(id, t) == [L(id, "jump") EXCEPT !.t = t]
TwoByte(id) == [L(id, "inst") EXCEPT !.two = TRUE]

\* a masked load after a branch; a masked store with two lines of instrumentation
Branchy == <<L(1, "directive"), Jump(2, 5), Mask(3, 4, 2), Inst(4, "simplification", 1),
             L(5, "label"), TwoByte(6)>>
Masked == <<L(1, "directive"), L(8, "label"), Mask(2, 4, 1), Mask(3, 4, 0), Inst(4, "constant", 1),
            L(5, "fixed"), Inst(6, "none", 0)>>
\* a shift, the patch of its undefined flags behind it, then a masked access;
\* the stc behind the last instruction stands before the next block's label
Patched == <<L(1, "directive"), Inst(2, "none", 0), Mask(3, 5, 0), Mask(4, 5, 1),
             Inst(5, "simplification", 1), Mask(6, 0, 0), L(7, "label")>>
Tiny == <<L(1, "directive"), Inst(2, "none", 0)>>

Input(o, w) == [obj |-> o, w |-> w]
\* two inputs of one class; and three, of which the last two violate
Pair == <<Input(1, <<1, 2, 3, 4, 5, 6>>), Input(2, <<1, 3, 3, 5, 5, 7>>)>>
Three == <<Input(1, <<1, 2, 3, 3, 2, 2>>), Input(2, <<2, 2, 3, 4, 5, 6>>),
           Input(3, <<2, 3, 3, 5, 5, 7>>)>>
Four == <<Input(1, <<1, 0, 0, 0, 0, 0>>), Input(2, <<2, 2, 3, 4, 5, 6>>),
          Input(3, <<1, 2, 3, 3, 2, 2>>), Input(4, <<2, 3, 3, 5, 5, 7>>)>>

AllPasses == <<"removal", "simplification", "nop", "constant", "mask", "label">>

Scenario(p, ins, boost, ip, ps, an, needs, free, word) ==
    [prog |-> p, inputs |-> ins, ipc |-> boost, input_passes |-> ip, passes |-> ps,
     analysis |-> an, needs |-> needs, unfenced |-> free, leak |-> word]

\* truths: which lines are needed, and how much of them
Truths(levels) == {{f} : f \in {g \in [DOMAIN levels -> 0 .. 4] :
                       \A id \in DOMAIN levels : g[id] \in levels[id]}}

Programs ==
    {Scenario(Branchy, Pair, 1, <<>>, ps, <<"fence", "comment">>, t, free, 2) :
        ps \in {AllPasses, <<"removal", "nop", "mask">>},
        t \in Truths((2 :> {2}) @@ (3 :> {0, 1, 3}) @@ (4 :> {0, 1, 2, 3}) @@ (6 :> {0, 1, 2})),
        free \in {{}, {4}}}
    \cup
    {Scenario(Masked, Pair, 1, <<>>, ps, <<"comment", "fence">>, t, {}, 2) :
        ps \in {AllPasses, <<"nop", "removal", "label">>},
        t \in Truths((2 :> {0, 2}) @@ (3 :> {0, 2}) @@ (4 :> {0, 1, 2, 3}) @@ (6 :> {0, 2}))}
    \cup
    {Scenario(Patched, Pair, 1, <<>>, ps, <<>>, t, {}, 2) :
        ps \in {AllPasses, <<"nop", "removal", "mask">>},
        t \in Truths((2 :> {1, 2}) @@ (3 :> {0, 2}) @@ (4 :> {0, 2}) @@ (5 :> {0, 1, 2}))}
    \cup
    {Scenario(Branchy, Pair, 1, <<>>, <<"nop", "removal", "label">>, <<>>, t \cup u, {}, 2) :
        t \in Truths((3 :> {3}) @@ (4 :> {0, 2})), u \in Truths((6 :> {1, 2}) @@ (2 :> {2}))}

Inputs ==
    {Scenario(Tiny, ins, boost, ip, <<"removal">>, <<>>, t, {}, word) :
        ins \in {Pair, Three, Four}, boost \in {1, 2},
        ip \in {<<"seq">>, <<"diff">>, <<"seq", "diff">>, <<"diff", "seq">>},
        t \in Truths(2 :> {2}), word \in {2, 4, 6}}

MCScenarios == Programs \cup Inputs
MCRegionEnds == <<4, 6>>
=============================================================================
