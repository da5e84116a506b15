------------------------------ MODULE DeviceWin ------------------------------
(***************************************************************************)
(* What the processor is: the constructor asks WMI for four fields, with   *)
(* an exit after every call that can fail; what it did not learn, the      *)
(* getters ask the processor or the power manager for, and keep.           *)
(***************************************************************************)
EXTENDS Naturals, Sequences

CONSTANTS Cpus  \* machines, of the set Cpu below

(* leaf: the CPUID leaf the topology is read from.  regs_4: ECX of leaf    *)
(* 0x80000000 on AMD, part of the maker's name, of which the code takes    *)
(* the low byte.                                                           *)
Cpu == [vendor : {"INTEL", "AMD", "OTHER"}, leaf : {"0b", "4", "none"},
        cores : Nat \ {0}, threads : Nat \ {0}, mhz : Nat \ {0}]
regs_4 == 99

ASSUME CpusAssumption == Cpus \subseteq Cpu

sizeofInfo == 24               \* PROCESSOR_POWER_INFORMATION
maxMhzEnd == 8                 \* where its MaxMhz ends
bufLimit == 2 * 1024 * 1024

VARIABLES cpu,            \* the machine
          at,             \* where the constructor or GetCpuClock is
          held,           \* COM and the interfaces the constructor holds
          field,          \* the WMI field it asks for
          wmi_cpu_info_,  \* cores, logic_cores, clock_speed; 0 is unknown
          buf_len,        \* below twice the limit: 32 bits hold it
          overread        \* history: MaxMhz read beyond the buffer

dwvars == <<cpu, at, held, field, wmi_cpu_info_, buf_len, overread>>

noCpu == [vendor |-> "none"]
unknown == [cores |-> 0, logic_cores |-> 0, clock_speed |-> 0]

DwInit ==
  /\ cpu = noCpu
  /\ at = "none"
  /\ held = {}
  /\ field = 1
  /\ wmi_cpu_info_ = unknown
  /\ buf_len = 0
  /\ overread = FALSE

-----------------------------------------------------------------------------
Plug(c) ==
  /\ at = "none" /\ at' = "CoInitializeEx"
  /\ cpu' = c
  /\ UNCHANGED <<held, field, wmi_cpu_info_, buf_len, overread>>

(* A call of the constructor that succeeds, and what it hands out... *)
Gets(call, what, next) ==
  /\ at = call /\ at' = next
  /\ held' = held \cup what
  /\ UNCHANGED <<cpu, field, wmi_cpu_info_, buf_len, overread>>

(* ...or fails, and what is released before the constructor returns. *)
Returns(call, released) ==
  /\ at = call /\ at' = "ready"
  /\ held' = held \ released
  /\ UNCHANGED <<cpu, field, wmi_cpu_info_, buf_len, overread>>

Connect ==
  \/ Gets("CoInitializeEx", {"COM"}, "CoInitializeSecurity")
  \/ Returns("CoInitializeEx", {})
  \/ Gets("CoInitializeSecurity", {}, "CoCreateInstance")
  \/ Returns("CoInitializeSecurity", {"COM"})
  \/ Gets("CoCreateInstance", {"pLoc"}, "ConnectServer")
  \/ Returns("CoCreateInstance", {"COM"})
  \/ Gets("ConnectServer", {"pSvc"}, "CoSetProxyBlanket")
  \/ Returns("ConnectServer", {"pLoc", "COM"})
  \/ Gets("CoSetProxyBlanket", {}, "ExecQuery")

RefusedForgets == Returns("CoSetProxyBlanket", {"pLoc", "COM"})
Refused == Returns("CoSetProxyBlanket", {"pSvc", "pLoc", "COM"})

fields == <<"cores", "logic_cores", "clock_speed", "vendor">>

(* One query for each field; the name is the vendor's in any case. *)
Query ==
  \/ Gets("ExecQuery", {"pEnumerator"}, "Next")
  \/ Returns("ExecQuery", {"pSvc", "pLoc", "COM"})

WmiValue(c) == CASE fields[field] = "cores" -> c.cores
                 [] fields[field] = "logic_cores" -> c.cores * c.threads
                 [] fields[field] = "clock_speed" -> c.mhz

(* The result of Get is not looked at: it is taken to give the value. *)
Row ==
  /\ at = "Next"
  /\ wmi_cpu_info_' = IF fields[field] = "vendor" THEN wmi_cpu_info_
                      ELSE [wmi_cpu_info_ EXCEPT ![fields[field]] = WmiValue(cpu)]
  /\ UNCHANGED <<cpu, at, held, field, buf_len, overread>>

NoMoreRows ==
  /\ at = "Next"
  /\ IF field < Len(fields)
     THEN at' = "ExecQuery" /\ field' = field + 1 /\ held' = held \ {"pEnumerator"}
     ELSE at' = "ready" /\ held' = {} /\ UNCHANGED field
  /\ UNCHANGED <<cpu, wmi_cpu_info_, buf_len, overread>>

-----------------------------------------------------------------------------
(* getNumLogicalCores, which keeps its answer *)
LogicCores(c, info) ==
  IF info.logic_cores # 0 THEN info.logic_cores
  ELSE CASE c.vendor = "INTEL" /\ c.leaf = "0b" -> c.cores * c.threads
         [] c.vendor = "AMD" -> IF c.leaf = "none" THEN 1 ELSE c.cores * c.threads
         [] OTHER -> 0

(* What GetCpuCores leaves behind.  Leaf 4 tells the cores of a package,   *)
(* and the code divides by them as by the threads of a core.               *)
CoresKnown(c, info) ==
  LET divisor == IF c.leaf = "0b" THEN c.threads ELSE c.cores
      logic == LogicCores(c, info)
  IN IF info.cores # 0 THEN info
     ELSE CASE c.vendor = "INTEL" /\ c.leaf # "none" ->
                 [info EXCEPT !.logic_cores = logic, !.cores = logic \div divisor]
            [] c.vendor = "AMD" /\ c.leaf # "none" -> [info EXCEPT !.cores = 1 + regs_4]
            [] OTHER -> info

GetCpuCores ==
  /\ at = "ready"
  /\ wmi_cpu_info_' = CoresKnown(cpu, wmi_cpu_info_)
  /\ UNCHANGED <<cpu, at, held, field, buf_len, overread>>

(* GetCpuClock up to the loop, when it does not know the answer *)
AskCounts ==
  /\ at = "ready" /\ wmi_cpu_info_.clock_speed = 0
  /\ wmi_cpu_info_' = CoresKnown(cpu, wmi_cpu_info_)
  /\ buf_len' = wmi_cpu_info_'.cores
  /\ at' = "CallNtPowerInformation"
  /\ UNCHANGED <<cpu, held, field, overread>>

(* Without PowrProf.dll or its function GetCpuClock answers 0 and leaves   *)
(* everything as it was.                                                   *)
AskClock ==
  /\ at = "ready" /\ wmi_cpu_info_.clock_speed = 0
  /\ wmi_cpu_info_' = CoresKnown(cpu, wmi_cpu_info_)
  /\ buf_len' = sizeofInfo * wmi_cpu_info_'.cores
  /\ at' = "CallNtPowerInformation"
  /\ UNCHANGED <<cpu, held, field, overread>>

(* STATUS_BUFFER_TOO_SMALL, which the call may say to any length *)
TooSmall ==
  /\ at = "CallNtPowerInformation"
  /\ at' = IF buf_len >= bufLimit THEN "ready" ELSE "grow"
  /\ UNCHANGED <<cpu, held, field, wmi_cpu_info_, buf_len, overread>>

GrowForgets ==
  /\ at = "grow" /\ at' = "CallNtPowerInformation"
  /\ UNCHANGED <<cpu, held, field, wmi_cpu_info_, buf_len, overread>>

Grow ==
  /\ at = "grow" /\ at' = "CallNtPowerInformation"
  /\ buf_len' = buf_len * 2
  /\ UNCHANGED <<cpu, held, field, wmi_cpu_info_, overread>>

(* Any other answer: status is the result of the comparison, 0, whether    *)
(* the call filled the buffer or failed and left it zero.                  *)
Answered(mhz) ==
  /\ at = "CallNtPowerInformation" /\ at' = "ready"
  /\ mhz # 0 => buf_len >= sizeofInfo * cpu.cores * cpu.threads
  /\ wmi_cpu_info_' = [wmi_cpu_info_ EXCEPT !.clock_speed = mhz]
  /\ overread' = (overread \/ buf_len < maxMhzEnd)
  /\ UNCHANGED <<cpu, held, field, buf_len>>

Answer == TooSmall \/ Answered(cpu.mhz) \/ Answered(0)

DwNext ==
  \/ \E c \in Cpus : Plug(c)
  \/ Connect \/ Refused \/ Query \/ Row \/ NoMoreRows
  \/ GetCpuCores
  \/ AskClock \/ Answer \/ Grow

(* The system answers every call, and the loop goes on. *)
DwFairness == WF_dwvars(Answer) /\ WF_dwvars(Grow)

DwSpec == DwInit /\ [][DwNext]_dwvars /\ DwFairness

-----------------------------------------------------------------------------
(* Wherever the constructor returns, it has released every interface it    *)
(* was given and left COM.                                                 *)
ConstructorReleases == at \in {"ready", "CallNtPowerInformation", "grow"} => held = {}

(* On a machine whose cores are known GetCpuClock returns, whatever the    *)
(* system answers.  With none the length is 0 and doubles to 0 for ever.   *)
ClockReturns ==
  at = "CallNtPowerInformation" /\ wmi_cpu_info_.cores # 0 ~> at = "ready"

(* MaxMhz lies in the buffer when the cores are known, even when the call  *)
(* failed.                                                                 *)
ReadsItsBuffer == overread => wmi_cpu_info_.cores = 0
-----------------------------------------------------------------------------
(* The inductive invariant.  Cores that GetCpuCores did not find the first *)
(* time it does not find later, so that a buffer once too short for the    *)
(* answer was one for no cores.                                            *)
HeldAt ==
  CASE at \in {"CoInitializeSecurity", "CoCreateInstance"} -> {"COM"}
    [] at = "ConnectServer" -> {"COM", "pLoc"}
    [] at \in {"CoSetProxyBlanket", "ExecQuery"} -> {"COM", "pLoc", "pSvc"}
    [] at = "Next" -> {"COM", "pLoc", "pSvc", "pEnumerator"}
    [] OTHER -> {}

NoCores == CoresKnown(cpu, wmi_cpu_info_).cores = 0

DwInv ==
  /\ cpu \in Cpus \/ (at = "none" /\ cpu = noCpu)
  /\ held = HeldAt
  /\ field \in 1..Len(fields)
  /\ wmi_cpu_info_ \in [cores : Nat, logic_cores : Nat, clock_speed : Nat]
  /\ buf_len \in Nat
  /\ at \in {"CallNtPowerInformation", "grow"} => NoCores \/ buf_len >= sizeofInfo
  /\ overread => NoCores /\ at \in {"ready", "CallNtPowerInformation", "grow"}
=============================================================================
