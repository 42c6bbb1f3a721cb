---------------------------- MODULE ReportTables ----------------------------
(***************************************************************************)
(* The tables of the reports: the scripts a table declares, which are the  *)
(* ones that are run for it, the script outputs that the functions which   *)
(* fill it read, and the processors it is for.  A table is named by its Go *)
(* constant without the suffix TableName, a read set by the function that  *)
(* reads; what a function computes from the outputs is not modelled.       *)
(***************************************************************************)
EXTENDS ScriptDefinitions

----------------------------------------------------------------------------
(* table_helpers*.go: the script outputs that a helper reads.              *)

operatingSystemFromOutput == {"EtcRelease"}
UarchFromOutput == {"Lscpu", "LspciBits", "LspciDevices"}
baseFrequencyFromOutput == {"BaseFrequency", "Dmidecode", "Lscpu"}
getSpecFrequencyBuckets == {"SpecCoreFrequencies"} \cup UarchFromOutput
maxFrequencyFromOutput == {"Dmidecode", "MaximumFrequency"} \cup getSpecFrequencyBuckets
allCoreMaxFrequencyFromOutput == getSpecFrequencyBuckets
hyperthreadingFromOutput == {"Lscpu"}
numaCPUListFromOutput == {"Lscpu"}
ppinsFromOutput == {"PPIN"}
channelsFromOutput == {"Lscpu", "LspciBits", "LspciDevices"}
turboEnabledFromOutput == {"Cpuid", "Lscpu"}
GetL3LscpuMB == {"LscpuCache"}
GetL3MSRMB == {"L3CacheWayEnabled", "Lscpu"} \cup UarchFromOutput \cup GetL3LscpuMB
l3FromOutput == GetL3MSRMB \cup GetL3LscpuMB
l3PerCoreFromOutput == {"Lscpu"} \cup GetL3MSRMB \cup GetL3LscpuMB
prefetchersFromOutput == {"PrefetchControl", "Prefetchers", "PrefetchersAtom"} \cup
    UarchFromOutput
isaSupportedFromOutput == {"Cpuid"}
acceleratorCountsFromOutput == {"Lshw"}
acceleratorWorkQueuesFromOutput == {"DsaDevices", "IaaDevices"}
tdpFromOutput == {"PackagePowerLimit"}
epbFromOutput == {"Epb"}
eppFromOutput == {"Epp", "EppPackage", "EppPackageControl", "EppValid"}
cstatesFromOutput == {"Cstates"}
uncoreMinMaxDieFrequencyFromOutput == {"UncoreDieTypesFromTPMI", "UncoreMaxFromTPMI",
    "UncoreMinFromTPMI"}
uncoreMinMaxFrequencyFromOutput == {"UncoreMaxFromMSR", "UncoreMinFromMSR"}
uncoreMinFrequencyFromOutput == uncoreMinMaxFrequencyFromOutput
uncoreMaxFrequencyFromOutput == uncoreMinMaxFrequencyFromOutput
chaCountFromOutput == {"ChaCount"}
elcFieldValuesFromOutput == {"Elc"}
numaBalancingFromOutput == {"NumaBalancing"}
clusteringModeFromOutput == {"Lscpu"} \cup UarchFromOutput
installedMemoryFromOutput == {"Dmidecode"}
derivedDimmsFieldFromOutput == {"Dmidecode", "Lscpu"} \cup channelsFromOutput
populatedChannelsFromOutput == {"Dmidecode"} \cup derivedDimmsFieldFromOutput
nicIRQMappingsFromOutput == {"NicInfo"}
diskInfoFromOutput == {"DiskInfo", "Hdparm"}
filesystemFieldValuesFromOutput == {"Df", "FindMnt"}
gpuInfoFromOutput == {"Lshw"}
gaudiInfoFromOutput == {"GaudiArchitecture", "GaudiFirmware", "GaudiInfo", "GaudiNuma"}
getPCIDevices == {"LspciVmm"}
cveInfoFromOutput == {"Cve"}
prefetchersSummaryFromOutput == {"PrefetchControl", "Prefetchers", "PrefetchersAtom"} \cup
    UarchFromOutput
elcSummaryFromOutput == elcFieldValuesFromOutput
cstatesSummaryFromOutput == cstatesFromOutput
nicSummaryFromOutput == {"NicInfo"}
diskSummaryFromOutput == diskInfoFromOutput
acceleratorSummaryFromOutput == acceleratorCountsFromOutput
cveSummaryFromOutput == cveInfoFromOutput
systemSummaryFromOutput == {"Date", "Dmidecode", "Lscpu", "ProcCpuinfo", "Uname"} \cup UNION
    {hyperthreadingFromOutput, turboEnabledFromOutput, tdpFromOutput,
    operatingSystemFromOutput, nicSummaryFromOutput, diskSummaryFromOutput,
    installedMemoryFromOutput}
l3InstanceFromOutput == GetL3MSRMB \cup GetL3LscpuMB
cpuSpeedFromOutput == {"SpeedBenchmark"}
storagePerfFromOutput == {"StorageBenchmark"}
javaFoldedFromOutput == {"CollapsedCallStacks"}
nativeFoldedFromOutput == {"CollapsedCallStacks"}
maxRenderDepthFromOutput == {"CollapsedCallStacks"}

----------------------------------------------------------------------------
(* table_defs.go: the script outputs that the fields of a table are from.  *)

hostTableValues == {"Date", "Dmidecode", "Hostname"}
pcieSlotsTableValues == {"Dmidecode"}
biosTableValues == {"Dmidecode"}
operatingSystemTableValues == {"ProcCmdline", "ProcCpuinfo", "Uname"} \cup
    operatingSystemFromOutput
softwareVersionTableValues == {"BinutilsVersion", "GccVersion", "GlibcVersion", "JavaVersion",
    "OpensslVersion", "Python3Version", "PythonVersion"}
cpuTableValues == {"Lscpu", "LscpuCache"} \cup UNION {UarchFromOutput,
    baseFrequencyFromOutput, maxFrequencyFromOutput, allCoreMaxFrequencyFromOutput,
    hyperthreadingFromOutput, numaCPUListFromOutput, ppinsFromOutput, channelsFromOutput,
    turboEnabledFromOutput, l3FromOutput, l3PerCoreFromOutput}
prefetcherTableValues == prefetchersFromOutput
isaTableValues == isaSupportedFromOutput
acceleratorTableValues == acceleratorCountsFromOutput \cup acceleratorWorkQueuesFromOutput
powerTableValues == {"ScalingDriver", "ScalingGovernor"} \cup UNION {tdpFromOutput,
    epbFromOutput, eppFromOutput}
cstateTableValues == cstatesFromOutput
uncoreTableValues == UNION {UarchFromOutput, uncoreMinMaxDieFrequencyFromOutput,
    uncoreMinFrequencyFromOutput, uncoreMaxFrequencyFromOutput, chaCountFromOutput}
elcTableValues == elcFieldValuesFromOutput
elcTableInsights == epbFromOutput
maximumFrequencyTableValues == getSpecFrequencyBuckets
sstTFHPTableValues == {"SSTTFHP"}
sstTFLPTableValues == {"SSTTFLP"}
memoryTableValues == {"Meminfo", "Tme", "TransparentHugePages"} \cup UNION
    {numaBalancingFromOutput, clusteringModeFromOutput, installedMemoryFromOutput,
    populatedChannelsFromOutput}
memoryTableInsights == {"Lscpu"} \cup UarchFromOutput
dimmTableValues == {"Dmidecode"} \cup derivedDimmsFieldFromOutput
nicTableValues == {"NicInfo"}
nicPacketSteeringTableValues == {"NicInfo"}
nicCpuAffinityTableValues == nicIRQMappingsFromOutput
networkConfigTableValues == {"IRQBalance", "Sysctl"}
diskTableValues == diskInfoFromOutput
filesystemTableValues == filesystemFieldValuesFromOutput
gpuTableValues == gpuInfoFromOutput
gaudiTableValues == gaudiInfoFromOutput
cxlTableValues == getPCIDevices
cveTableValues == cveInfoFromOutput
processTableValues == {"ProcessList"}
sensorTableValues == {"IpmitoolSensors"}
chassisStatusTableValues == {"IpmitoolChassis"}
systemEventLogTableValues == {"IpmitoolEvents"}
kernelLogTableValues == {"KernelLog"}
pmuTableValues == {"PMUBusy", "PMUDriverVersion"}
systemSummaryTableValues == {"Date", "Dmidecode", "Hostname", "Lscpu", "Meminfo",
    "ProcCpuinfo", "ScalingDriver", "ScalingGovernor", "TransparentHugePages", "Uname"} \cup
    UNION {UarchFromOutput, baseFrequencyFromOutput, maxFrequencyFromOutput,
    allCoreMaxFrequencyFromOutput, hyperthreadingFromOutput, ppinsFromOutput,
    turboEnabledFromOutput, prefetchersSummaryFromOutput, tdpFromOutput, elcSummaryFromOutput,
    epbFromOutput, operatingSystemFromOutput, cstatesSummaryFromOutput,
    numaBalancingFromOutput, nicSummaryFromOutput, diskSummaryFromOutput,
    acceleratorSummaryFromOutput, cveSummaryFromOutput, systemSummaryFromOutput, l3FromOutput,
    installedMemoryFromOutput}
briefSummaryTableValues == {"Date", "Hostname", "Lscpu", "Meminfo", "ScalingDriver",
    "ScalingGovernor", "Uname"} \cup UNION {UarchFromOutput, maxFrequencyFromOutput,
    allCoreMaxFrequencyFromOutput, hyperthreadingFromOutput, tdpFromOutput,
    elcSummaryFromOutput, epbFromOutput, operatingSystemFromOutput, cstatesSummaryFromOutput,
    nicSummaryFromOutput, diskSummaryFromOutput}
configurationTableValues == {"C1Demotion", "Lscpu", "PrefetchControl", "Prefetchers",
    "PrefetchersAtom", "ScalingGovernor"} \cup UNION {UarchFromOutput,
    allCoreMaxFrequencyFromOutput, tdpFromOutput, uncoreMinMaxDieFrequencyFromOutput,
    uncoreMinFrequencyFromOutput, uncoreMaxFrequencyFromOutput, elcSummaryFromOutput,
    epbFromOutput, eppFromOutput, cstatesSummaryFromOutput, l3InstanceFromOutput}
speedBenchmarkTableValues == cpuSpeedFromOutput
powerBenchmarkTableValues == {"IdlePowerBenchmark", "PowerBenchmark"}
temperatureBenchmarkTableValues == {"PowerBenchmark"}
frequencyBenchmarkTableValues == {"FrequencyBenchmark"} \cup getSpecFrequencyBuckets
memoryBenchmarkTableValues == {"MemoryBenchmark"}
numaBenchmarkTableValues == {"NumaBenchmark"}
storageBenchmarkTableValues == storagePerfFromOutput
cpuUtilizationTelemetryTableValues == {"MpstatTelemetry"}
utilizationCategoriesTelemetryTableValues == {"MpstatTelemetry"}
irqRateTelemetryTableValues == {"MpstatTelemetry"}
driveTelemetryTableValues == {"IostatTelemetry"}
networkTelemetryTableValues == {"NetworkTelemetry"}
memoryTelemetryTableValues == {"MemoryTelemetry"}
powerTelemetryTableValues == {"TurbostatTelemetry"}
temperatureTelemetryTableValues == {"TurbostatTelemetry"}
frequencyTelemetryTableValues == {"TurbostatTelemetry"}
ipcTelemetryTableValues == {"TurbostatTelemetry"}
c6TelemetryTableValues == {"TurbostatTelemetry"}
gaudiTelemetryTableValues == {"GaudiTelemetry"}
pduTelemetryTableValues == {"PDUTelemetry"}
callStackFrequencyTableValues == UNION {javaFoldedFromOutput, nativeFoldedFromOutput,
    maxRenderDepthFromOutput}
kernelLockAnalysisTableValues == {"ProfileKernelLock"}
instructionTelemetryTableValues == {"InstructionTelemetry"}

----------------------------------------------------------------------------
(* tableDefinitions.                                                       *)

Table(scripts, reads) == [scripts |-> scripts, reads |-> reads,
                          archs |-> {}, vendors |-> {}, uarchs |-> {}]

ElcUarchs == {"GNR", "SRF", "CWF", "DMR"}

hostTables ==
   [Host |-> Table({"Hostname", "Date", "Dmidecode"}, hostTableValues),
    BIOS |-> Table({"Dmidecode"}, biosTableValues),
    OperatingSystem |-> Table({"EtcRelease", "Uname", "ProcCmdline", "ProcCpuinfo"},
        operatingSystemTableValues),
    SoftwareVersion |-> Table({"GccVersion", "GlibcVersion", "BinutilsVersion",
        "PythonVersion", "Python3Version", "JavaVersion", "OpensslVersion"},
        softwareVersionTableValues),
    CPU |-> Table({"Lscpu", "LscpuCache", "LspciBits", "LspciDevices", "Cpuid",
        "BaseFrequency", "MaximumFrequency", "SpecCoreFrequencies", "PPIN",
        "L3CacheWayEnabled"}, cpuTableValues),
    Prefetcher |-> OnIntel(Table({"Lscpu", "LspciBits", "LspciDevices", "PrefetchControl",
        "Prefetchers", "PrefetchersAtom"}, prefetcherTableValues)),
    ISA |-> OnX86(Table({"Cpuid"}, isaTableValues)),
    Accelerator |-> OnUarchs(OnIntel(Table({"Lshw", "IaaDevices", "DsaDevices"},
        acceleratorTableValues)), {"SPR", "EMR", "GNR", "SRF", "CWF", "DMR"}),
    Power |-> OnIntel(Table({"PackagePowerLimit", "Epb", "Epp", "EppValid",
        "EppPackageControl", "EppPackage", "ScalingDriver", "ScalingGovernor"},
        powerTableValues)),
    Cstate |-> Table({"Cstates"}, cstateTableValues),
    MaximumFrequency |-> OnIntel(Table({"SpecCoreFrequencies", "Lscpu", "LspciBits",
        "LspciDevices"}, maximumFrequencyTableValues))]

memoryTables ==
   [Uncore |-> OnIntel(Table({"UncoreMaxFromMSR", "UncoreMinFromMSR", "UncoreMaxFromTPMI",
        "UncoreMinFromTPMI", "UncoreDieTypesFromTPMI", "ChaCount", "Lscpu", "LspciBits",
        "LspciDevices"}, uncoreTableValues)),
    Elc |-> OnUarchs(Table({"Elc"}, elcTableValues \cup elcTableInsights), ElcUarchs),
    SSTTFHP |-> OnUarchs(Table({"SSTTFHP"}, sstTFHPTableValues), ElcUarchs),
    SSTTFLP |-> OnUarchs(Table({"SSTTFLP"}, sstTFLPTableValues), ElcUarchs),
    Memory |-> Table({"Dmidecode", "Meminfo", "TransparentHugePages", "NumaBalancing",
        "Lscpu", "LspciBits", "LspciDevices", "Tme"}, memoryTableValues \cup
        memoryTableInsights),
    DIMM |-> Table({"Dmidecode", "Lscpu", "LspciBits", "LspciDevices"}, dimmTableValues)]

\* Mutant of networkTables: a table does not declare a script it reads.
networkTablesUndeclared ==
   [NetworkConfig |-> Table({"IRQBalance"}, networkConfigTableValues),
    NIC |-> Table({"NicInfo"}, nicTableValues),
    NICCpuAffinity |-> Table({"NicInfo"}, nicCpuAffinityTableValues),
    NICPacketSteering |-> Table({"NicInfo"}, nicPacketSteeringTableValues)]

networkTables ==
   [NetworkConfig |-> Table({"Sysctl", "IRQBalance"}, networkConfigTableValues),
    NIC |-> Table({"NicInfo"}, nicTableValues),
    NICCpuAffinity |-> Table({"NicInfo"}, nicCpuAffinityTableValues),
    NICPacketSteering |-> Table({"NicInfo"}, nicPacketSteeringTableValues)]

deviceTables ==
   [Disk |-> Table({"DiskInfo", "Hdparm"}, diskTableValues),
    Filesystem |-> Table({"Df", "FindMnt"}, filesystemTableValues),
    GPU |-> Table({"Lshw"}, gpuTableValues),
    Gaudi |-> OnX86(Table({"GaudiInfo", "GaudiFirmware", "GaudiNuma", "GaudiArchitecture"},
        gaudiTableValues)),
    CXL |-> Table({"LspciVmm"}, cxlTableValues),
    PCIe |-> Table({"Dmidecode"}, pcieSlotsTableValues),
    CVE |-> Table({"Cve"}, cveTableValues),
    Process |-> Table({"ProcessList"}, processTableValues),
    Sensor |-> Table({"IpmitoolSensors"}, sensorTableValues),
    ChassisStatus |-> Table({"IpmitoolChassis"}, chassisStatusTableValues),
    PMU |-> OnIntel(Table({"PMUBusy", "PMUDriverVersion"}, pmuTableValues)),
    SystemEventLog |-> Table({"IpmitoolEvents"}, systemEventLogTableValues),
    KernelLog |-> Table({"KernelLog"}, kernelLogTableValues)]

summaryTables ==
   [SystemSummary |-> Table({"Hostname", "Date", "Dmidecode", "Lscpu", "LscpuCache",
        "LspciBits", "LspciDevices", "L3CacheWayEnabled", "Cpuid", "BaseFrequency",
        "SpecCoreFrequencies", "PrefetchControl", "Prefetchers", "PrefetchersAtom", "PPIN",
        "Meminfo", "TransparentHugePages", "NumaBalancing", "NicInfo", "DiskInfo",
        "ProcCpuinfo", "Uname", "EtcRelease", "PackagePowerLimit", "Epb", "ScalingDriver",
        "ScalingGovernor", "Cstates", "Elc", "Cve"}, systemSummaryTableValues),
    BriefSysSummary |-> Table({"Hostname", "Date", "Lscpu", "LscpuCache", "LspciBits",
        "LspciDevices", "MaximumFrequency", "SpecCoreFrequencies", "Meminfo", "NicInfo",
        "DiskInfo", "Uname", "EtcRelease", "PackagePowerLimit", "Epb", "ScalingDriver",
        "ScalingGovernor", "Cstates", "Elc"}, briefSummaryTableValues),
    Configuration |-> OnIntel(Table({"Lscpu", "LscpuCache", "LspciBits", "LspciDevices",
        "L3CacheWayEnabled", "PackagePowerLimit", "Epb", "Epp", "EppValid",
        "EppPackageControl", "EppPackage", "ScalingGovernor", "UncoreMaxFromMSR",
        "UncoreMinFromMSR", "UncoreMaxFromTPMI", "UncoreMinFromTPMI",
        "UncoreDieTypesFromTPMI", "SpecCoreFrequencies", "Elc", "PrefetchControl",
        "Prefetchers", "PrefetchersAtom", "Cstates", "C1Demotion"}, configurationTableValues))]

benchmarkTables ==
   [SpeedBenchmark |-> Table({"SpeedBenchmark"}, speedBenchmarkTableValues),
    PowerBenchmark |-> OnX86(Table({"IdlePowerBenchmark", "PowerBenchmark"},
        powerBenchmarkTableValues)),
    TemperatureBenchmark |-> OnX86(Table({"PowerBenchmark"}, temperatureBenchmarkTableValues)),
    FrequencyBenchmark |-> OnX86(Table({"SpecCoreFrequencies", "Lscpu", "LspciBits",
        "LspciDevices", "FrequencyBenchmark"}, frequencyBenchmarkTableValues)),
    MemoryBenchmark |-> OnX86(Table({"MemoryBenchmark"}, memoryBenchmarkTableValues)),
    NUMABenchmark |-> OnX86(Table({"NumaBenchmark"}, numaBenchmarkTableValues)),
    StorageBenchmark |-> Table({"StorageBenchmark"}, storageBenchmarkTableValues)]

telemetryTables ==
   [CPUUtilizationTelemetry |-> Table({"MpstatTelemetry"}, cpuUtilizationTelemetryTableValues),
    UtilizationCategoriesTelemetry |-> Table({"MpstatTelemetry"},
        utilizationCategoriesTelemetryTableValues),
    IPCTelemetry |-> OnX86(Table({"TurbostatTelemetry"}, ipcTelemetryTableValues)),
    C6Telemetry |-> OnX86(Table({"TurbostatTelemetry"}, c6TelemetryTableValues)),
    FrequencyTelemetry |-> OnX86(Table({"TurbostatTelemetry"}, frequencyTelemetryTableValues)),
    IRQRateTelemetry |-> Table({"MpstatTelemetry"}, irqRateTelemetryTableValues),
    DriveTelemetry |-> Table({"IostatTelemetry"}, driveTelemetryTableValues),
    NetworkTelemetry |-> Table({"NetworkTelemetry"}, networkTelemetryTableValues),
    MemoryTelemetry |-> Table({"MemoryTelemetry"}, memoryTelemetryTableValues),
    PowerTelemetry |-> OnX86(Table({"TurbostatTelemetry"}, powerTelemetryTableValues))]

moreTelemetryTables ==
   [TemperatureTelemetry |-> OnX86(Table({"TurbostatTelemetry"},
        temperatureTelemetryTableValues)),
    InstructionTelemetry |-> OnX86(Table({"InstructionTelemetry"},
        instructionTelemetryTableValues)),
    GaudiTelemetry |-> OnX86(Table({"GaudiTelemetry"}, gaudiTelemetryTableValues)),
    PDUTelemetry |-> Table({"PDUTelemetry"}, pduTelemetryTableValues),
    CallStackFrequency |-> Table({"CollapsedCallStacks"}, callStackFrequencyTableValues),
    KernelLockAnalysis |-> Table({"ProfileKernelLock"}, kernelLockAnalysisTableValues)]

tableDefinitions ==
    hostTables ++ memoryTables ++ networkTables ++ deviceTables ++ summaryTables
    ++ benchmarkTables ++ telemetryTables ++ moreTelemetryTables

----------------------------------------------------------------------------
(* table.go and the uses of the tables.                                    *)

IsTableForTarget(table, cpu) == IntendedFor(tableDefinitions[table], cpu)

TablesFor(tables, cpu) == {t \in tables : IsTableForTarget(t, cpu)}

\* GetScriptNamesForTable, for each of the tables
ScriptNames(tables) == UNION {tableDefinitions[t].scripts : t \in tables}

ReadBy(tables) == UNION {tableDefinitions[t].reads : t \in tables}

\* The tables that the commands request: report --all, one category of report, report
\* --benchmark all, telemetry, flame and lock.
reportCategories ==
    DOMAIN (hostTables ++ memoryTables ++ networkTables ++ deviceTables) \cup {"SystemSummary"}

benchmarkTableNames == DOMAIN benchmarkTables

telemetryCategories == {"BriefSysSummary"} \cup
    {t \in DOMAIN (telemetryTables ++ moreTelemetryTables) :
        t \notin {"GaudiTelemetry", "PDUTelemetry", "CallStackFrequency", "KernelLockAnalysis"}}

flameTables == {"BriefSysSummary", "CallStackFrequency"}
lockTables  == {"BriefSysSummary", "KernelLockAnalysis"}

============================================================================
