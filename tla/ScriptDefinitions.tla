------------------------- MODULE ScriptDefinitions -------------------------
(***************************************************************************)
(* The scripts that collect data on a target, what each of them requires   *)
(* of the target, and the choice of those that are run there.  A script is *)
(* named by its Go constant without the suffix (ScriptName or Name).       *)
(*                                                                         *)
(*   superuser   it is run with sudo, or skipped where that is impossible  *)
(*   sequential  it is not run at the same time as others                  *)
(*   lkms        the kernel modules it needs                               *)
(*   archs, vendors, uarchs   the processors it is for; {} means all       *)
(*                                                                         *)
(* The text of the scripts is data: which of their commands are missing on *)
(* a target or what they print is not modelled.                            *)
(***************************************************************************)
EXTENDS Integers, Sequences, FiniteSets, TLC

Intel == "GenuineIntel"
X86   == "x86_64"

----------------------------------------------------------------------------
(* Processors: the entries of cpuDefinitions by their short names, which   *)
(* SPR_MCC, SPR_XCC and SPR share.                                         *)

Processor(arch, vendor, uarch) == [arch |-> arch, vendor |-> vendor, uarch |-> uarch]

cpuDefinitions ==
    {Processor(X86, Intel, u) : u \in
        {"HSW", "BDW", "SKL", "KBL", "CFL", "RKL", "TGL", "ADL", "MTL", "ARL", "HSX", "BDX",
         "SKX", "CLX", "CPX", "ICX", "SPR", "EMR", "SRF", "GNR", "CWF", "DMR"}}
    \cup {Processor(X86, "AuthenticAMD", u) : u \in
            {"Naples", "Rome", "Milan", "Genoa", "Bergamo", "Turin (Zen 5)", "Turin (Zen 5c)"}}
    \cup {Processor("aarch64", "ARM", u) : u \in {"Neoverse-N1", "Neoverse-V1", "Neoverse-V2"}}

GetCPU(uarch) == CHOOSE cpu \in cpuDefinitions : cpu.uarch = uarch

\* The restrictions of a script or a table: an empty list restricts nothing.
IntendedFor(def, cpu) ==
    /\ def.archs # {} => cpu.arch \in def.archs
    /\ def.vendors # {} => cpu.vendor \in def.vendors
    /\ def.uarchs # {} => cpu.uarch \in def.uarchs

----------------------------------------------------------------------------
(* script_defs.go                                                          *)

\* The entries of two maps; those of the first where both have one.
Join(f, g) == [x \in DOMAIN f \cup DOMAIN g |-> IF x \in DOMAIN f THEN f[x] ELSE g[x]]
f ++ g == Join(f, g)

Plain == [superuser |-> FALSE, sequential |-> FALSE, lkms |-> {},
          archs |-> {}, vendors |-> {}, uarchs |-> {}]
With(def, lkms) == [def EXCEPT !.lkms = lkms]
OnIntel(def) == [def EXCEPT !.vendors = {Intel}]
OnUarchs(def, uarchs) == [def EXCEPT !.uarchs = uarchs]
OnX86(def) == [def EXCEPT !.archs = {X86}]
InTurn(def) == [def EXCEPT !.sequential = TRUE]

Root  == [Plain EXCEPT !.superuser = TRUE]
Msr   == With(Root, {"msr"})
IntelMsr == OnIntel(Msr)

All(names, def) == [n \in names |-> def]

TpmiUarchs == {"GNR", "GNR-D", "SRF", "CWF", "DMR"}

hostScripts ==
    All({"Hostname", "Date", "Lscpu", "LscpuCache", "LspciVmm", "Uname", "ProcCmdline",
         "ProcCpuinfo", "EtcRelease", "GccVersion", "BinutilsVersion", "GlibcVersion",
         "PythonVersion", "Python3Version", "JavaVersion", "OpensslVersion", "BaseFrequency",
         "MaximumFrequency", "ScalingDriver", "ScalingGovernor", "Cstates"}, Plain)
    ++ All({"Dmidecode", "Sysctl"}, Root)
    ++ All({"LspciBits"}, OnUarchs(Root, {"SPR", "EMR"}))
    ++ All({"LspciDevices"}, OnUarchs(Plain, TpmiUarchs))
    ++ All({"Cpuid"}, With(Root, {"cpuid"}))
    ++ All({"C1Demotion"}, IntelMsr)

msrScripts ==
    All({"SpecCoreFrequencies", "PPIN", "PrefetchControl", "Prefetchers", "L3CacheWayEnabled",
         "PackagePowerLimit", "EpbSource", "Epb", "EppValid", "EppPackageControl"}, IntelMsr)
    ++ All({"PrefetchersAtom"}, OnUarchs(IntelMsr, {"SRF", "CWF"}))

powerScripts ==
    All({"Epp", "EppPackage", "UncoreMaxFromMSR", "UncoreMinFromMSR"}, IntelMsr)
    ++ All({"UncoreMaxFromTPMI", "UncoreMinFromTPMI", "UncoreDieTypesFromTPMI", "Elc"},
           OnUarchs(Root, TpmiUarchs))

sstScripts ==
    All({"SSTTFHP", "SSTTFLP"}, OnUarchs(Root, {"GNR", "GNR-D", "DMR"}))
    ++ All({"ChaCount"}, IntelMsr)

deviceScripts ==
    All({"IaaDevices", "DsaDevices", "Meminfo", "TransparentHugePages", "NumaBalancing",
         "IRQBalance", "DiskInfo"}, Plain)
    ++ All({"Lshw", "NicInfo", "Hdparm"}, Root)

\* Mutant of statusScripts: Superuser is forgotten in a script with a kernel module.
statusScriptsPlainCve ==
    All({"Df"}, Plain) ++ All({"ProcessList"}, InTurn(Plain))
    ++ All({"Cve"}, With(Plain, {"msr"}))
    ++ All({"FindMnt", "IpmitoolSensors", "IpmitoolChassis", "Tme", "KernelLog"}, Root)
    ++ All({"IpmitoolEvents"}, With(Root, {"ipmi_devintf", "ipmi_si"}))
    ++ All({"PMUDriverVersion"}, OnIntel(Root))
    ++ All({"PMUBusy"}, IntelMsr)
    ++ All({"GaudiInfo", "GaudiFirmware", "GaudiNuma", "GaudiArchitecture"},
           OnIntel(Plain))

statusScripts ==
    All({"Df"}, Plain) ++ All({"ProcessList"}, InTurn(Plain)) ++ All({"Cve"}, Msr)
    ++ All({"FindMnt", "IpmitoolSensors", "IpmitoolChassis", "Tme", "KernelLog"}, Root)
    ++ All({"IpmitoolEvents"}, With(Root, {"ipmi_devintf", "ipmi_si"}))
    ++ All({"PMUDriverVersion"}, OnIntel(Root))
    ++ All({"PMUBusy"}, IntelMsr)
    ++ All({"GaudiInfo", "GaudiFirmware", "GaudiNuma", "GaudiArchitecture"},
           OnIntel(Plain))

benchmarkScripts ==
    All({"MemoryBenchmark", "NumaBenchmark"}, InTurn(Msr))
    ++ All({"SpeedBenchmark"}, InTurn(Plain))
    ++ All({"FrequencyBenchmark"}, OnX86(InTurn(Msr)))

powerBenchmarkScripts ==
    All({"PowerBenchmark", "IdlePowerBenchmark"}, OnX86(InTurn(Msr)))
    ++ All({"StorageBenchmark"}, InTurn(Root))
    ++ All({"MpstatTelemetry", "IostatTelemetry", "MemoryTelemetry", "NetworkTelemetry"}, Root)

telemetryScripts ==
    All({"TurbostatTelemetry"}, OnX86(Msr)) ++ All({"InstructionTelemetry"}, Msr)
    ++ All({"GaudiTelemetry"}, Root) ++ All({"PDUTelemetry"}, Plain)

callStackScripts == All({"CollapsedCallStacks"}, InTurn(Root))

lockScripts == All({"ProfileKernelLock"}, Root)

scriptDefinitions ==
    hostScripts ++ msrScripts ++ powerScripts ++ sstScripts ++ deviceScripts ++ statusScripts
    ++ benchmarkScripts ++ powerBenchmarkScripts ++ telemetryScripts ++ callStackScripts
    ++ lockScripts

----------------------------------------------------------------------------
(* script.go                                                               *)

scriptForTarget(s, cpu) == IntendedFor(scriptDefinitions[s], cpu)

\* The scripts that RunScripts does not skip.
ScriptsToRun(names, cpu, canElevate) ==
    {s \in names : /\ scriptForTarget(s, cpu)
                   /\ scriptDefinitions[s].superuser => canElevate}

\* One parallel script alone is run as a sequential one.
ParallelScripts(names) ==
    LET parallel == {s \in names : ~scriptDefinitions[s].sequential}
    IN  IF Cardinality(parallel) = 1 THEN {} ELSE parallel

LkmsToInstall(names) == UNION {scriptDefinitions[s].lkms : s \in names}

============================================================================
