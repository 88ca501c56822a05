------------------------------- MODULE DspCalls -------------------------------
(***************************************************************************)
(* The life of a process that uses the kernels: the first use resolves the *)
(* table, then the filterbanks and renderers call kernels and transforms.  *)
(*                                                                         *)
(* Which implementation serves a kernel (src/simd/dispatch.cpp and         *)
(* cpu_probe.cpp): a binary carries the units its build compiled; the      *)
(* first use of a kernel asks the machine what it can run, applies what    *)
(* JOC_SIMD asks for, and fixes the table for the life of the process.     *)
(*                                                                         *)
(* Bits are compared in the arithmetic of the constants, of which no law   *)
(* is known but that addition commutes.  Meaning is compared in a field    *)
(* where the formulas of the transforms are exact: complexes over the      *)
(* integers modulo 239, in which -1 has no root and a circle of 240 turns  *)
(* exists.                                                                 *)
(***************************************************************************)
EXTENDS Transforms

CONSTANTS
    Builds,       \* the architecture and the vector units of a binary
    Machines      \* the machines it may run on

KernelNames == {"fft_butterflies", "qmf_synthesis_basis", "hybrid_low_join", "render_hybrid_path",
                "complex_axpy", "qmf_analysis_taps", "complex_multiply"}
Isas == {"scalar", "sse2", "avx2", "avx512", "neon"}
Architectures == {"x86", "aarch64", "other"}

\* A machine: its architecture, the highest leaf of CPUID, the instructions its
\* silicon has, and the register states its system saves.
ASSUME MachinesAssumption ==
    \A m \in Machines :
        /\ m.arch \in Architectures /\ m.leaf \in Nat
        /\ m.bits \subseteq {"sse2", "osxsave", "avx", "avx2", "avx512f"}
        /\ m.saves \subseteq {"xmm", "ymm", "opmask", "zmm", "hi16"}
        /\ m.leaf < 7 => m.bits \cap {"avx2", "avx512f"} = {}

\* The units CMakeLists.txt compiles for each architecture, where the compiler can.
UnitsFor == [x86 |-> {"sse2", "avx2", "avx512"}, aarch64 |-> {"neon"}, other |-> {}]
ASSUME BuildsAssumption ==
    \A b \in Builds : b.arch \in Architectures /\ b.units \subseteq UnitsFor[b.arch]

VARIABLES
    build,        \* what JOC_SIMD_HAVE_* say
    machine,
    request,      \* JOC_SIMD
    selected,     \* Resolution.selected
    active        \* Resolution.active, and by it Resolution.kernels

dispatch_vars == <<build, machine, request, selected, active>>

Unresolved == "unresolved"

-----------------------------------------------------------------------------
(* cpu_probe.cpp                                                           *)

\* Leaf 7; a processor without it answers with the data of its highest leaf.
Leaf7(m) == IF m.leaf >= 7 THEN m.bits ELSE {"avx2", "avx512f"}

\* Mutant: what the system saves is not asked.
probe_x86_SiliconOnly(m) ==
    (m.bits \cap {"sse2"}) \cup
    (IF m.leaf < 7 THEN {}
     ELSE (m.bits \cap {"avx2"}) \cup (IF "avx512f" \in m.bits THEN {"avx512"} ELSE {}))

\* CPUID and XCR0 have to agree.
probe_x86(m) ==
    LET wide == {"osxsave", "avx"} \subseteq m.bits /\ m.leaf >= 7 /\ {"xmm", "ymm"} \subseteq m.saves
        zmm == "avx512f" \in Leaf7(m) /\ {"opmask", "zmm", "hi16"} \subseteq m.saves
    IN  (m.bits \cap {"sse2"}) \cup
        (IF wide THEN (Leaf7(m) \cap {"avx2"}) \cup (IF zmm THEN {"avx512"} ELSE {}) ELSE {})

probe(m) ==
    CASE m.arch = "x86" -> probe_x86(m)
      [] m.arch = "aarch64" -> {"neon"}
      [] OTHER -> {}

isa_supported(isa) == isa = "scalar" \/ isa \in probe(machine)

-----------------------------------------------------------------------------
(* dispatch.cpp                                                            *)

isa_rank(isa) == CASE isa = "scalar" -> 0 [] isa \in {"sse2", "neon"} -> 1 [] isa = "avx2" -> 2 [] OTHER -> 3

isa_compiled(isa) == isa = "scalar" \/ isa \in build.units

\* What a unit implements: four ranks do not fill a 512-bit vector.
Implements(isa) == IF isa = "avx512" THEN KernelNames \ {"qmf_synthesis_basis"} ELSE KernelNames

\* The first of the ladder that is able, else the scalar reference.
Widest(ladder, able) ==
    LET fit == {i \in DOMAIN ladder : ladder[i] \in able}
    IN  IF fit = {} THEN "scalar" ELSE ladder[Min(fit)]

\* An override that this build or this machine cannot provide, or that is no
\* name at all, is ignored.
Forced == request \in Isas /\ isa_compiled(request) /\ isa_supported(request)

Ladder == <<"avx512", "avx2", "sse2", "neon">>
Selected ==
    IF Forced THEN request
    ELSE Widest(Ladder, {isa \in Isas : isa_compiled(isa) /\ isa_supported(isa)})

\* The widest unit at or below the selected one that has the kernel.
Serves(kernel, best) ==
    Widest(Ladder \o <<"scalar">>,
           {isa \in Isas : /\ isa_rank(isa) <= isa_rank(best) /\ isa_compiled(isa) /\ isa_supported(isa)
                           /\ kernel \in Implements(isa)})

\* The first use of any kernel.
resolve ==
    /\ selected = Unresolved
    /\ selected' = Selected
    /\ active' = [kernel \in KernelNames |-> Serves(kernel, Selected)]
    /\ UNCHANGED <<build, machine, request>>

DispatchInit ==
    /\ build \in Builds /\ machine \in {m \in Machines : m.arch = build.arch}
    /\ request \in Isas \cup {"auto", "sse9"}
    /\ selected = Unresolved /\ active = [kernel \in KernelNames |-> Unresolved]

-----------------------------------------------------------------------------
(* What the machine can really execute: its silicon has the instructions   *)
(* and its system saves the registers they use.                            *)

Registers == [scalar |-> {}, sse2 |-> {}, neon |-> {}, avx2 |-> {"xmm", "ymm"},
              avx512 |-> {"xmm", "ymm", "opmask", "zmm", "hi16"}]
Instructions == [scalar |-> {}, neon |-> {}, sse2 |-> {"sse2"}, avx2 |-> {"osxsave", "avx", "avx2"},
                 avx512 |-> {"osxsave", "avx", "avx512f"}]
Runs(isa) ==
    /\ isa = "scalar" \/ isa \in build.units
    /\ Instructions[isa] \subseteq machine.bits /\ Registers[isa] \subseteq machine.saves

-----------------------------------------------------------------------------
(* The calls.                                                              *)

CONSTANTS
    MaxCount,      \* the longest run of complexes, and the most rows
    FftSizes,      \* the transforms the kernel does, and the plans
    PlanSizes,
    AnySizes,      \* the transforms without a plan
    Samples        \* what memory holds when a kernel is called

ASSUME CallsAssumption ==
    /\ MaxCount \in Nat
    /\ \A n \in FftSizes \cup PlanSizes : n \in Nat /\ IsPowerOfTwo(n)
    /\ \A n \in FftSizes : n >= MinVectorFftSize
    /\ Samples \in Seq(Doubles) /\ Samples # << >>
ASSUME UnitAssumption ==
    \A n \in FftSizes \cup PlanSizes : \A length \in 1 .. n, k \in {-1, 1} : Unit(k, length) \in Doubles \X Doubles

VARIABLE call          \* the kernel called last, and what it wrote

vars == <<dispatch_vars, call>>

-----------------------------------------------------------------------------
(* The field.                                                              *)

Q == 239
Turn == 240
FieldPlus(x, y) == (x + y) % Q
FieldTimes(x, y) == (x * y) % Q
FieldNegated(x) == (-x) % Q
FieldInverse == [x \in 1 .. Q - 1 |-> CHOOSE y \in 1 .. Q - 1 : (x * y) % Q = 1]
FieldOver(x, n) == (x * FieldInverse[n]) % Q

Turned(w, z) == <<(w[1] * z[1] - w[2] * z[2]) % Q, (w[1] * z[2] + w[2] * z[1]) % Q>>

\* The first 256 powers of a point of the circle, the first doubled eight times.
PowersOf(z) ==
    FoldLeft(LAMBDA powers, k :
                 LET next == Turned(powers[Len(powers)], z)
                 IN  Evaluated(powers \o [i \in DOMAIN powers |-> Turned(powers[i], next)]),
             <<<<1, 0>>>>, [k \in 1 .. 8 |-> k])
Circle == {z \in (0 .. Q - 1) \X (0 .. Q - 1) : (z[1] * z[1] + z[2] * z[2]) % Q = 1}

\* The generator is a point of full order.
Turns ==
    LET full == {z \in Circle : LET powers == Evaluated(PowersOf(z))
                                IN  \A d \in {48, 80, 120} : powers[d + 1] # <<1, 0>>}
    IN  Evaluated(PowersOf(CHOOSE z \in full : TRUE))
FieldUnit(k, n) == Turns[((((k % n) * (Turn \div n)) % Turn)) + 1]

Field == INSTANCE Transforms WITH
    Doubles <- 0 .. Q - 1, Plus <- FieldPlus, Times <- FieldTimes, Negated <- FieldNegated,
    Over <- FieldOver, Unit <- FieldUnit,
    SynthesisBands <- 2, SynthesisTaps <- 3, HybridTerms <- 4, HybridOutputs <- 8,
    PathBands <- 7, AnalysisBands <- 8

-----------------------------------------------------------------------------
(* What the kernels are called with.                                       *)

Data(seed, size) == [k \in 0 .. size - 1 |-> Samples[((101 * seed + k) % Len(Samples)) + 1]]
Scalar(seed) == Data(seed, 1)[0]

Counts == [kernel \in KernelNames |-> IF kernel = "fft_butterflies" THEN FftSizes
                                      ELSE IF kernel = "render_hybrid_path" THEN {1}
                                      ELSE 0 .. MaxCount]

\* What a kernel writes when a unit does the work.
Written(isa, kernel, n) ==
    CASE kernel = "fft_butterflies" ->
            fft_butterflies(isa, Data(1, 2 * n), n, Twiddle(n, FALSE), StageBegin(n))
      [] kernel = "qmf_synthesis_basis" ->
            qmf_synthesis_basis(isa, Data(0, n * SynthesisBands * Ranks), Data(2, n * SynthesisTaps),
                                Data(3, SynthesisBands * SynthesisTaps * Ranks), n)
      [] kernel = "hybrid_low_join" ->
            hybrid_low_join(isa, Data(0, n * HybridOutputs), Data(4, n * HybridTerms),
                            Data(5, HybridTerms * HybridOutputs), n)
      [] kernel = "render_hybrid_path" ->
            render_hybrid_path(isa, Data(6, 4 * PathBands), Data(7, 4 * PathBands),
                               [ear \in 0 .. 1 |-> Data(8 + ear, 2 * PathBands)], Scalar(19))
      [] kernel = "complex_axpy" -> complex_axpy(isa, Data(10, 2 * n), Data(11, 2 * n), Scalar(20), n)
      [] kernel = "qmf_analysis_taps" ->
            qmf_analysis_taps(isa, Data(12, n * AnalysisBands), Data(13, n * AnalysisBands),
                              Data(14, AnalysisBands), n)
      [] kernel = "complex_multiply" ->
            complex_multiply(isa, Data(15, 2 * n), Data(16, 2 * n), Data(17, 2 * n), n)

\* The transforms: a plan, and a transform of any length, in either direction.
PlanBits(isa, n, inverse) == apply(isa, Data(18, 2 * n), n, inverse)
InPlaceBits(n, inverse) == fft_in_place(Data(18, 2 * n), n, inverse)

Signal(n) == [k \in 0 .. 2 * n - 1 |-> (k * k * 37 + 11 * k + 5) % Q]
PlanField(isa, n, inverse) == Field!apply(isa, Signal(n), n, inverse)
AnyField(n, inverse) == Field!fft_any(Signal(n), n, inverse)
Meant(n, inverse) == Field!Transform(Signal(n), n, inverse)

-----------------------------------------------------------------------------
(* The process.                                                            *)

Idle == [name |-> "idle"]

Init == DispatchInit /\ call = Idle

Resolve == resolve /\ UNCHANGED call

\* A kernel, through the table.
CallKernel(kernel, n) ==
    /\ selected # Unresolved /\ call = Idle
    /\ call' = [name |-> kernel, n |-> n, inverse |-> FALSE,
                wrote |-> Evaluated(Written(active[kernel], kernel, n))]
    /\ UNCHANGED dispatch_vars

\* A plan applied, and the transform without a plan.
CallPlan(n, inverse) ==
    /\ selected # Unresolved /\ call = Idle
    /\ call' = [name |-> "plan", n |-> n, inverse |-> inverse,
                wrote |-> Evaluated(PlanBits(active["fft_butterflies"], n, inverse)),
                exact |-> Evaluated(PlanField(active["fft_butterflies"], n, inverse))]
    /\ UNCHANGED dispatch_vars
CallAny(n, inverse) ==
    /\ selected # Unresolved /\ call = Idle
    /\ call' = [name |-> "any", n |-> n, inverse |-> inverse, exact |-> Evaluated(AnyField(n, inverse))]
    /\ UNCHANGED dispatch_vars

Return == call # Idle /\ call' = Idle /\ UNCHANGED dispatch_vars

Next ==
    \/ Resolve \/ Return
    \/ \E kernel \in KernelNames : \E n \in Counts[kernel] : CallKernel(kernel, n)
    \/ \E n \in PlanSizes, inverse \in BOOLEAN : CallPlan(n, inverse)
    \/ \E n \in AnySizes, inverse \in BOOLEAN : CallAny(n, inverse)

Spec == Init /\ [][Next]_vars

-----------------------------------------------------------------------------
(* Properties.                                                             *)

TypeOK ==
    /\ build \in Builds /\ machine \in Machines /\ request \in Isas \cup {"auto", "sse9"}
    /\ active \in [KernelNames -> Isas \cup {Unresolved}]
    /\ selected \in Isas \cup {Unresolved}

\* Whatever unit serves a call, it writes the bits the scalar reference writes
\* (simd.h: "every ISA path reproduces the scalar bits exactly"), and a plan
\* the bits of the transform in place.
CallIsScalar ==
    /\ call.name \in KernelNames => call.wrote = Written("scalar", call.name, call.n)
    /\ call.name = "plan" => call.wrote = InPlaceBits(call.n, call.inverse)

\* NEON's accumulation of scaled complexes, which leaves every second one out.
NeonAxpy == call.name = "complex_axpy" /\ active["complex_axpy"] = "neon"

\* Every call has the reference's bits, that one kernel of the NEON unit aside.
BitsAreScalar == NeonAxpy \/ CallIsScalar

\* A transform is the sum it stands for, in either direction: through a plan
\* with any unit, of any length, and over Bluestein's convolution.
TransformsAreMeant ==
    call.name \in {"plan", "any"} => call.exact = Meant(call.n, call.inverse)

Width == [scalar |-> 0, sse2 |-> 1, neon |-> 1, avx2 |-> 2, avx512 |-> 3]

\* An AArch64 binary is asked for sse2.  kernels_intrin_neon.cpp:7 says that sse2
\* stays available on it; isa_compiled says that it is no part of it, so the
\* request is ignored.
Sse2OnNeon == "neon" \in build.units /\ request = "sse2"

\* Every kernel is served by a unit of this binary that has it and that the
\* machine can execute, the widest there is; an override that can be honoured
\* bounds the width of all of them.  How wide the units are where AArch64 is
\* asked for sse2 is left open: the code and its comment disagree.
TableRunsHere ==
    selected # Unresolved =>
        \A kernel \in KernelNames :
            LET allowed == {isa \in Isas :
                               /\ Runs(isa) /\ kernel \in Implements(isa)
                               /\ (request \in Isas /\ Runs(request)) => Width[isa] <= Width[request]}
            IN  /\ active[kernel] \in allowed
                /\ Sse2OnNeon \/ \A isa \in allowed : Width[isa] <= Width[active[kernel]]

=============================================================================
