-------------------------- MODULE MCContractModel --------------------------
(* Test cases for the contract model.  Without a protected page the        *)
(* fault-based contracts are sequential.                                   *)
EXTENDS ContractModel

Rw == {"present", "accessed", "writable", "dirty"}
NotPresent == Rw \ {"present"}
ReadOnly == Rw \ {"writable"}

SpectreContracts == {"seq", "cond", "bpas", "cond-bpas"}

(* Test cases of one actor. *)
Single(bodies, contracts, clauses, entries) ==
    [body : bodies, other : {<<>>}, mode : {"user"}, amd : {FALSE}, contract : contracts,
     obs : clauses, pte : entries, handler : {"exit", "end"}]

(* A handler with code makes no difference where nothing faults. *)
Configured(bodies, contracts) ==
    {t \in Single(bodies, contracts, {"ct"}, {Rw, NotPresent}) :
        \/ t.pte = NotPresent
        \/ t.contract \in SpectreContracts /\ (t.handler = "exit" \/ Contains(t.body, "div"))}

Pairs ==
    {<<a, b>> : a \in {"movCA", "loadA", "addA", "storeA", "storeC", "div", "jcxz", "loop"},
                b \in {"loadA", "loadC", "storeA", "storeC", "fence"}}

Triples ==
    {<<a, b, c>> : a \in {"jcxz", "storeA"}, b \in {"loop", "storeC", "loadC"},
                   c \in {"loadA", "fence"}}

(* A value that leaves a register through memory, and more stores than     *)
(* levels of speculation.                                                  *)
Quadruples == {<<"loadA", "store0", "load0", "loadA">>, <<"storeA", "storeC", "storeA", "storeC">>}

(* The other observation clauses, and the other ways to protect a page. *)
Observed ==
    {t \in Single({<<"jcxz", "loadA", "storeA">>, <<"loadC", "jcxz", "loadA">>,
                   <<"movCA", "loop", "jcxz">>, <<"storeA", "loadA", "loadC">>},
                  {"seq", "cond", "bpas", "nullinj-fault"}, Observations \ {"ct"},
                  {Rw, NotPresent}) :
        t.handler = "exit" /\ (t.pte = Rw) = (t.contract \in SpectreContracts)}

Protected ==
    {t \in Single({<<"storeA", "loadC">>, <<"jcxz", "storeA", "loadA">>},
                  SpeculatorNames \ {"cond-bpas"}, {"ct"},
                  {ReadOnly, Rw \ {"accessed"}, Rw \ {"dirty"}, Rw \cup {"reserved_bit"}}) :
        t.handler = "exit"}

(* Two actors: there and back, with speculation and faults before the      *)
(* switch, in the second actor and behind it.                              *)
Switching(kind, vendors, prepare, there, land, others) ==
    {t \in [body : {prepare \o x \o <<there>> \o land \o <<"loadA">> :
                        x \in {<<>>, <<"jcxz">>, <<"loadA">>}},
            other : others, mode : {kind}, amd : vendors,
            contract : {"cond", "bpas", "deh", "nullinj-fault", "nullinj-assist", "meltdown"},
            obs : {"ct"}, pte : {Rw, NotPresent}, handler : {"exit", "end"}] :
        (t.pte = Rw) = (t.contract \in SpectreContracts)}

TwoActors ==
    UNION {Switching("user", {FALSE}, <<"set_u2k_target", "set_k2u_target">>, "switch_k2u",
                     <<"landing_u2k">>,
                     {<<"landing_k2u", "switch_u2k">>, <<"jcxz", "movCA", "switch_u2k">>,
                      <<"set_u2k_target", "switch_u2k">>}),
           Switching("user", {FALSE}, <<"set_u2k_target", "set_k2u_target_f2">>, "switch_k2u",
                     <<"landing_u2k">>, {<<"wbinvd", "loop", "switch_u2k">>}),
           Switching("guest", {TRUE}, <<"set_g2h_target", "set_h2g_target">>, "switch_h2g",
                     <<"landing_g2h">>,
                     {<<"landing_h2g", "movCA", "switch_g2h">>, <<"loop", "wbinvd", "switch_g2h">>}),
           Switching("guest", {FALSE}, <<>>, "switch", <<>>, {<<"jcxz", "switch">>})}

(* Left out, because the code does something else there than the           *)
(* properties say: a store that faults under bpas and is handled by code;  *)
(* a division by a zero that was injected for an assist; a load for an     *)
(* assist with a switch behind it, whose speculation is rolled back in     *)
(* another actor than the one whose page must become accessible.           *)
Divergent(t) ==
    \/ t.contract = "bpas" /\ PagePermissions(t) # "rw" /\ t.handler = "end"
    \/ /\ t.contract = "nullinj-assist"
       /\ \/ Contains(t.body, "div")
          \/ t.other # <<>> /\ \E i \in 1..Landing(t) - 2 : t.body[i] = "loadA"

MCTests ==
    {t \in UNION {Configured(Pairs \cup Triples, SpeculatorNames \ {"cond-bpas"}),
                  Configured(Quadruples, {"seq", "cond", "bpas", "nullinj-fault", "meltdown"}),
                  Configured(Pairs, {"cond-bpas"}), Observed, Protected, TwoActors} :
        ~Divergent(t)}

=============================================================================
