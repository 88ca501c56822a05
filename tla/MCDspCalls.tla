------------------------------ MODULE MCDspCalls ------------------------------
(***************************************************************************)
(* The builds CMakeLists.txt can make for x86-64, 32-bit x86, AArch64 and  *)
(* other processors, on machines with and without the instructions, the    *)
(* CPUID leaf and the operating system's support each unit needs.          *)
(*                                                                         *)
(* The arithmetic shares with IEEE's the laws a vector unit may use and no *)
(* others: it commutes, negation passes through products, zero and one are *)
(* neutral - and it neither associates nor distributes.                    *)
(***************************************************************************)
EXTENDS DspCalls

MCBuilds ==
    {[arch |-> "x86", units |-> {"sse2"} \cup wide] : wide \in SUBSET {"avx2", "avx512"}}
    \cup {[arch |-> "x86", units |-> {"avx2"}], [arch |-> "x86", units |-> {}],
          [arch |-> "aarch64", units |-> {"neon"}], [arch |-> "other", units |-> {}]}

Avx2Silicon == {"sse2", "osxsave", "avx", "avx2"}
Wide == {"xmm", "ymm", "opmask", "zmm", "hi16"}
X86(leaf, bits, saves) == [arch |-> "x86", leaf |-> leaf, bits |-> bits, saves |-> saves]
NotX86(arch) == [arch |-> arch, leaf |-> 0, bits |-> {}, saves |-> {}]

MCMachines ==
    {X86(2, {"sse2"}, {"xmm"}),
     X86(6, {"sse2", "osxsave", "avx"}, {"xmm", "ymm"}),
     X86(7, Avx2Silicon, {"xmm", "ymm"}),
     X86(7, Avx2Silicon \ {"osxsave"}, {}),
     X86(7, Avx2Silicon \cup {"avx512f"}, {"xmm"}),
     X86(7, Avx2Silicon \cup {"avx512f"}, {"xmm", "ymm"}),
     X86(7, Avx2Silicon \cup {"avx512f"}, Wide),
     NotX86("aarch64"), NotX86("other")}

P == 1009
MCDoubles == 0 .. P - 1
MCPlus(x, y) == (((x + y) % P) * (1 + ((x * y) % P))) % P
MCTimes(x, y) ==
    LET product == (x * y) % P
        bend == ((((x * x) % P) - 1) * (((y * y) % P) - 1)) % P
    IN  (product * (1 + bend)) % P
MCNegated(x) == (-x) % P
MCOver(x, n) == MCTimes(x, 7 * n)
MCUnit(k, n) == IF (k % n) = 0 THEN <<1, 0>> ELSE <<(311 * (k % n) + n) % P, (97 * (k % n) + 13 * n) % P>>

\* Every fourth number is zero: the join of the hybrid bands skips those.
MCSamples == [k \in 1 .. 97 |-> IF k % 4 = 3 THEN 0 ELSE (k * 577 + 5) % P]

ArmBuilds == {b \in MCBuilds : b.arch = "aarch64"}

=============================================================================
