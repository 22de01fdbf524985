---------------------------- MODULE MCKernelPatch ----------------------------
(* KernelPatch on kernels put together from a few pieces. *)
EXTENDS KernelPatch

Mmu(a, b)  == <<"MSR3", a, "MSR4", b, "MSR2">>
Amcc       == <<"STR", "ISB", "MSR3", "MSR4", "MSR2">>
Call(adrp, mov) == <<"LDR_0", "LDR_n", adrp, "ADD", mov, "BLR">>

\* Functions with up to two moves of X2 before their call.
Some == {"MOV_Xn_X2", "MOV_X0_X2", "OTHER", "STP_X28_X27"}
Functions ==
    {<<p, a, b, "OTHER">> \o Call(adrp, mov) :
        p \in {"SUB_SP", "OTHER"}, a \in Some, b \in Some,
        adrp \in {"ADRP", "ADRP_PBP"}, mov \in {"MOV_X0_Xn", "MOV_X0_X2"}}

\* The two lockdown sequences, next to each other, interleaved or cut short.
Lockdowns ==
    {Mmu(a, b) \o Amcc : a \in {"OTHER", "MSR3"}, b \in {"OTHER", "MSR4", "STR"}}
      \cup {Amcc \o Mmu("OTHER", "NOP"), Amcc, Mmu("OTHER", "ISB"),
            <<"STR", "ISB", "MSR3", "MSR4", "MSR2", "MSR4", "MSR2", "OTHER", "MSR2">>,
            Mmu("OTHER", "STR") \o <<"ISB", "MSR3", "MSR4", "MSR2">>,
            Mmu("MSR3", "MSR4") \o <<"MSR2">> \o Amcc}

MCTexts ==
    {l \o f : l \in Lockdowns, f \in Functions}
      \cup {f \o l : l \in {Mmu("OTHER", "MSR4") \o Amcc}, f \in Functions}
      \cup {l \o f \o g : l \in {Amcc \o Mmu("OTHER", "NOP")},
                          f \in {<<"SUB_SP", "MOV_Xn_X2", "OTHER">> \o Call("ADRP_PBP", "MOV_X0_Xn"),
                                 <<"SUB_SP", "OTHER", "OTHER">> \o Call("ADRP_PBP", "MOV_X0_X2")},
                          g \in Functions}
=============================================================================
