------------------------------- MODULE Profiler -------------------------------
(***************************************************************************)
(* The hardware profiler (core/hardware/profiler.py), as far as the fit    *)
(* engine uses its profile: cores, memory, disk and the display adapter.   *)
(* The adapters come from a PowerShell query that may fail, their memory   *)
(* from it and from the registry.  Units are those of Sizing.              *)
(***************************************************************************)
EXTENDS Integers, Sequences, FiniteSetsExt

CONSTANTS
    Names,        \* names of display adapters, without those the profiler passes over
    Overlaps,     \* pairs of names of which one contains the other
    Undescribed   \* of a registry key without DriverDesc

ASSUME OverlapsAssumption == Overlaps \subseteq Names \X Names /\ Undescribed \notin Names

\* _gpu_vendor, which finds it in the names.
Vendors == {"NVIDIA", "AMD", "Intel", "Unknown"}

\* An adapter that Windows lists.  A "basic" one has no name, or is the basic or the
\* remote display.
Adapters == [name : Names, basic : BOOLEAN, vendor : Vendors, memory : Nat]

\* A key of the display class in the registry: qwMemorySize or MemorySize, 0 without them.
Keys == [description : Names \cup {Undescribed}, memory : Nat]

\* What the operating system knows of a machine.
MachineSpecs ==
    [windows : BOOLEAN, cores : Nat, available : Nat, free : Nat,
     adapters : Seq(Adapters), keys : SUBSET Keys]

Gpus      == [vendor : Vendors \cup {"None"}, memory : Nat]
NoGpu     == [vendor |-> "None", memory |-> 0]
Hardwares == [cores : Nat \ {0}, available : Nat, free : Nat, gpu : Gpus]

\* AdapterRAM is a 32-bit field that saturates near 4 GB.
AdapterRam(adapter) == IF adapter.memory < 400 THEN adapter.memory ELSE 400

\* _read_adapter_memory: a key without a description is anybody's.
Matches(key, name) ==
    key.description \in {Undescribed, name}
    \/ <<key.description, name>> \in Overlaps \/ <<name, key.description>> \in Overlaps

\* _gpu_memory_bytes_from_registry.
RegistryMemory(keys, name) == Max({0} \cup {key.memory : key \in {k \in keys : Matches(k, name)}})

\* _gpu_from_raw.
GpuFromRaw(adapter, keys) ==
    [vendor |-> adapter.vendor,
     memory |-> Max({AdapterRam(adapter), RegistryMemory(keys, adapter.name)})]

\* _gpu_rank: g is not ranked before h.
Discrete(gpu) == gpu.vendor \in {"NVIDIA", "AMD"}
NotBefore(g, h) ==
    \/ Discrete(h) /\ ~Discrete(g)
    \/ Discrete(h) = Discrete(g) /\ g.memory <= h.memory

\* _select_gpu: the first one in rank, by a sort that is stable.
SelectGpu(adapters, keys) ==
    LET gpus == {i \in DOMAIN adapters : ~adapters[i].basic}
        Gpu(i) == GpuFromRaw(adapters[i], keys)
        best == {i \in gpus : \A j \in gpus : NotBefore(Gpu(j), Gpu(i))}
    IN  IF gpus = {} THEN NoGpu ELSE Gpu(Min(best))

\* Variant: no "or 1" where psutil does not know the number of cores.
CoresAsTold(machine, answered) ==
    [cores |-> machine.cores, available |-> machine.available, free |-> machine.free,
     gpu |-> SelectGpu(IF machine.windows /\ answered THEN machine.adapters ELSE << >>,
                       machine.keys)]

\* profile, when the query has answered in time, or has failed or timed out: then there
\* are no adapters.
Profile(machine, answered) ==
    [cores |-> Max({machine.cores, 1}), available |-> machine.available, free |-> machine.free,
     gpu |-> SelectGpu(IF machine.windows /\ answered THEN machine.adapters ELSE << >>,
                       machine.keys)]
=============================================================================
