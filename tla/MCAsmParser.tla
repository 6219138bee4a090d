---------------------------- MODULE MCAsmParser ----------------------------
(* Files of two actors with calls, branches, macros and reopened sections. *)
EXTENDS AsmParser

A == <<"a">>
MCActorConf == (Main :> [mode |-> "host", pl |-> "kernel"])
               @@ (A :> [mode |-> "host", pl |-> "user"])
MCSectionOrder == <<Main, A>>

MCVocabulary ==
    {Section(Main), Section(A), Func(<<"f">>), Func(<<"f", "0">>), Func(<<"g">>),
     Line("label", <<"l">>, <<>>), Line("blank", <<>>, <<>>),
     Line("inst", <<"add">>, <<>>), Line("inst", <<"nop">>, <<>>),
     Line("branch", <<"jmp">>, <<<<"l">>>>), Line("branch", <<"jcc">>, <<<<"l">>>>),
     Macro("switch", <<A, <<"g">>>>), Macro("set_k2u_target", <<A, <<"g">>>>),
     Macro("landing_k2u", <<>>), Macro("measurement_end", <<>>),
     Macro("set_data_permissions", <<A>>)}

\* the exit, none, and an instruction that should not be there
MCEndings == {<<Exit>>, <<>>, <<Exit, Line("inst", <<"add">>, <<>>)>>}
=============================================================================
