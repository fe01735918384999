---------------------------- MODULE MCExecEngine ----------------------------
(***************************************************************************)
(* Guest programs for the engine's runs: every way to fill the code memory *)
(* with instructions of a small set.                                       *)
(***************************************************************************)
EXTENDS ExecEngine, TLC

MCAllocSizes == {1}

I(op) == [op |-> op, off |-> 0]
J(op, off) == [op |-> op, off |-> off]

\* Code for the comparison with the guest machine: branches both ways, stores
\* before and behind the pc, returns from calls.
GuestPCs == {4, 8, 12, 16}
GuestInstrs == {I("seq"), J("st", 4), J("st", -8), J("b", -8), J("b", 8), J("bl", 4),
                I("ret"), J("bcond", 8), I("svc"), J("read", 4), J("map", -4), J("mremap", 8),
                I("undef"), I("ldf")}
GuestPrograms == [GuestPCs -> GuestInstrs]

\* Every kind of instruction.
AnyCode == {I("seq"), I("unsup"), J("st", 4), J("st", -4), J("st", 64), I("stf"), I("ldf"),
            J("b", -4), J("bl", -8), I("ret"), I("br"), J("bcond", -4), I("svc"),
            I("exit"), J("read", -4), J("map", 4), J("mremap", -4), I("undef")}
AnyPCs == {4, 8, 12}
AnyPrograms == [AnyPCs -> AnyCode]

\* A loop that overwrites its first instruction.
PatchPrograms == {(4 :> J("st", 0)) @@ (8 :> J("b", -4)) @@ (12 :> I("exit"))}
=============================================================================
