-------------------------------- MODULE Sizing --------------------------------
(***************************************************************************)
(* The model catalog (core/catalog.py with configs/models) and the fit     *)
(* engine (core/sizing/engine.py) in whole numbers: memory and disk in     *)
(* 1/100 GB, as the engine rounds them, times in 1/10 h.  Free disk is     *)
(* measured finer, in 1/1000 GB, because its rounding to zero matters.     *)
(***************************************************************************)
EXTENDS Integers, Sequences

\* Context lengths and hidden sizes are in units of 128: a user's context length is
\* taken to be a multiple of it, as all of the profiles' are.
Unit == 128

\* round(), ties to even.  Where a float that stands for a tie is a little more or less,
\* the engine may be 1/100 GB off this.
Round(n, d) ==
    LET q == n \div d
        r == n % d
    IN  IF 2 * r > d \/ (2 * r = d /\ q % 2 = 1) THEN q + 1 ELSE q

AtLeast(x, y) == IF x < y THEN y ELSE x

-----------------------------------------------------------------------------
(***************************************************************************)
(* The catalog.                                                            *)
(***************************************************************************)
ALL_SIZES == <<"20M", "50M", "100M", "200M", "500M">>
Sizes     == {ALL_SIZES[i] : i \in DOMAIN ALL_SIZES}

\* Parameters, in millions.
Millions(size) ==
    CASE size = "20M" -> 20 [] size = "50M" -> 50 [] size = "100M" -> 100
      [] size = "200M" -> 200 [] size = "500M" -> 500

USER_FACING_SIZES == SubSeq(ALL_SIZES, 1, 3)

RequiredFeature(size) ==
    IF Millions(size) <= 100 THEN "model-size:<=100M" ELSE "model-size:>100M"

\* ffn_multiplier is 4 everywhere.
Architecture(vocabulary, context, layers, hidden, heads) ==
    [vocabulary |-> vocabulary, context |-> context \div Unit, layers |-> layers,
     hidden |-> hidden \div Unit, heads |-> heads]

\* The YAML profiles, which ModelConfigGenerator.generate returns.
ModelProfile(size) ==
    CASE size = "20M"  -> Architecture(16000, 512, 6, 256, 8)
      [] size = "50M"  -> Architecture(24000, 1024, 8, 384, 8)
      [] size = "100M" -> Architecture(32000, 1024, 12, 512, 8)
      [] size = "200M" -> Architecture(32000, 2048, 16, 768, 12)
      [] size = "500M" -> Architecture(32000, 2048, 24, 1024, 16)

\* generate with a context_length.
WithContext(size, context) == [ModelProfile(size) EXCEPT !.context = context \div Unit]

\* What evaluate assumes when its caller gives no architecture.
DefaultArchitecture(size) ==
    Architecture(32000, 1024, AtLeast(Round(Millions(size), 8), 4), 512, 8)

-----------------------------------------------------------------------------
(***************************************************************************)
(* _estimate_resources.                                                    *)
(***************************************************************************)
\* TrainingConfig, whose fields are at least 1; the knobs that the engine does not read are
\* left out.
TrainingSpecs ==
    [batch : Nat \ {0}, mixed : BOOLEAN, epochs : Nat \ {0}, accumulation : Nat \ {0}]

DefaultTraining == [batch |-> 1, mixed |-> FALSE, epochs |-> 1, accumulation |-> 1]

\* Bytes per parameter: 10^6 parameters of one byte are 390625/4194304 of 1/100 GB.
Parameters(size, bytes) == Round(Millions(size) * bytes * 390625, 4194304)

\* With lengths in units of 128, 2^14 of the 2^30 cancels out.
Activations(training, arch) ==
    LET bytes   == IF training.mixed THEN 2 ELSE 4
        feature == arch.context * arch.hidden * arch.layers * (2 + 4)
        attend  == arch.heads * arch.context * arch.context * arch.layers
    IN  Round(training.batch * (feature + attend) * bytes * 100, 65536)

\* The master copy of the weights, the gradients, and what a framework takes, with its
\* reservation on an accelerator.
MasterCopy(size, training) == IF training.mixed THEN Parameters(size, 2) ELSE 0
Gradients(size, training)  == Parameters(size, IF training.mixed THEN 2 ELSE 4)
Runtime(hardware)          == 50 + (IF hardware.gpu.vendor = "None" THEN 0 ELSE 100)

\* component_subtotal: weights, master copy, gradients, optimizer, activations,
\* tokenizer, data pipeline and runtime.
Subtotal(hardware, size, training, arch) ==
      Parameters(size, 4) + MasterCopy(size, training) + Gradients(size, training)
    + Parameters(size, 8) + Activations(training, arch)
    + Round(500000 + 8 * arch.vocabulary, 100000)
    + 20 + training.batch + Runtime(hardware)

\* memory_required: the subtotal and a quarter of it as the safety margin.
MemoryRequired(hardware, size, training, arch) ==
    LET subtotal == Subtotal(hardware, size, training, arch)
    IN  subtotal + Round(subtotal, 4)

\* disk_required: 2.5 checkpoints, of 4 bytes a parameter, and the dataset.
DiskRequired(size) == Parameters(size, 10) + Round(350 + 4 * Millions(size), 10)

-----------------------------------------------------------------------------
(***************************************************************************)
(* Status, difficulty and duration.                                        *)
(***************************************************************************)
\* _classify_memory.  A status is its position in _STATUS_ORDER: recommended, possible,
\* constrained, not_recommended.
ClassifyMemory(available, required) ==
    IF available >= 2 * required THEN 1
    ELSE IF 4 * available >= 5 * required THEN 2
    ELSE IF 10 * available >= 9 * required THEN 3
    ELSE 4

Confidence(rank, hardware) ==
    CASE rank = 1 -> IF hardware.gpu.vendor = "None" THEN "medium" ELSE "high"
      [] rank = 2 -> "medium"
      [] rank = 3 -> "low"
      [] rank = 4 -> "high"

\* Variant: the cap takes the better of the two statuses.
CapAtBetter(rank, required, available) ==
    IF available <= 0 THEN rank
    ELSE IF 2 * available < required THEN 4
    ELSE IF available < required THEN (IF rank < 3 THEN rank ELSE 3)
    ELSE rank

\* _apply_disk_gating, which passes a disk with nothing free.
ApplyDiskGating(rank, required, available) ==
    IF available <= 0 THEN rank
    ELSE IF 2 * available < required THEN 4
    ELSE IF available < required THEN AtLeast(rank, 3)
    ELSE rank

\* _compute_difficulty, times 100, as the factor that _estimate_duration_hours takes.
Difficulty(hardware, size) ==
    LET M == Millions(size)
        C == hardware.cores
    IN  IF M <= 20 /\ C >= 8 THEN 80
        ELSE IF M <= 50 /\ (C >= 12 \/ hardware.gpu.vendor # "None") THEN 100
        ELSE IF M <= 100 /\ C >= 8 THEN 135
        ELSE 180

\* cpu_factor of cores and accelerator, times 40.
Capacity(hardware, required) ==
    AtLeast(hardware.cores, 2) *
        (IF hardware.gpu.vendor = "NVIDIA" /\ 10 * hardware.gpu.memory >= 6 * required THEN 25
         ELSE IF hardware.gpu.vendor # "None" THEN 14 ELSE 10)

\* _estimate_duration_hours, and the range made of it, in 1/10 h: at least half an hour.
Hours(hardware, size, training, required) ==
    LET work == training.epochs * AtLeast(training.batch * training.accumulation, 4)
        unit == 8 * Capacity(hardware, required)
        base == AtLeast(Millions(size) * Difficulty(hardware, size) * work, 5 * unit)
    IN  <<Round(base, unit), Round(5 * base, 2 * unit)>>

\* evaluate: the FitResult.
Evaluate(hardware, size, training, arch) ==
    LET required == MemoryRequired(hardware, size, training, arch)
        memory   == ClassifyMemory(hardware.available, required)
        disk     == DiskRequired(size)
    IN  [size |-> size, required |-> required, disk |-> disk,
         status |-> ApplyDiskGating(memory, disk, Round(hardware.free, 10)),
         confidence |-> Confidence(memory, hardware),
         difficulty |-> Difficulty(hardware, size),
         hours |-> Hours(hardware, size, training, required)]

\* Pipeline.plan, the totals: the estimates of model-init, pretrain and tokenizer-train,
\* and the fit when the project has a profile.
PlanMemory(size, required) ==
    AtLeast(required, AtLeast(50, 20 + Parameters(size, 8)))
PlanDisk(size, disk) == disk + Parameters(size, 4) + 5
=============================================================================
