---------------------------- MODULE ReleaseProofs ----------------------------
(***************************************************************************)
(* What the small programs take and give back: the window class that       *)
(* several lists share, the interfaces of the processor query, and the     *)
(* references of the camera program.                                       *)
(***************************************************************************)
EXTENDS WindowListProcess, CaptureGraph, DeviceWin, FiniteSetTheorems, TLAPS

(* The invariant behind it, for any lists and threads.                     *)
THEOREM ClassSafety == Spec => []ClassInv
<1>1. Init => ClassInv
  BY DEF Init, ClassInv, TypeOK
<1>2. ClassInv /\ [Next]_vars => ClassInv'
  <2> SUFFICES ASSUME ClassInv, [Next]_vars PROVE ClassInv'
    OBVIOUS
  <2> USE ListsAssumption DEF ClassInv, TypeOK, WorkerStep
  <2>1. ASSUME NEW l \in Lists, NEW t \in Threads, Construct(l, t) PROVE ClassInv'
    BY <2>1 DEF Construct
  <2>2. ASSUME NEW l \in Lists, RegisterWndClass(l) PROVE ClassInv'
    BY <2>2 DEF RegisterWndClass
  <2>3. ASSUME NEW l \in Lists, CreateMsgWnd(l) PROVE ClassInv'
    BY <2>3 DEF CreateMsgWnd
  <2>4. ASSUME NEW l \in Lists, Destruct(l) PROVE ClassInv'
    BY <2>4 DEF Destruct
  <2>5. ASSUME NEW l \in Lists, LeaveLoop(l) PROVE ClassInv'
    BY <2>5 DEF LeaveLoop
  <2>6. ASSUME NEW l \in Lists, UnregisterWndClass(l) PROVE ClassInv'
    BY <2>6 DEF UnregisterWndClass
  <2>7. ASSUME NEW l \in Lists, ExitWorker(l) PROVE ClassInv'
    BY <2>7 DEF ExitWorker
  <2>8. CASE UNCHANGED vars
    BY <2>8 DEF vars
  <2>9. QED
    BY <2>1, <2>2, <2>3, <2>4, <2>5, <2>6, <2>7, <2>8 DEF Next
<1>3. QED
  BY <1>1, <1>2, PTL DEF Spec

(* Any number of lists, built by any threads, can start and stop at the    *)
(* same time: each worker gets its message window.                         *)
THEOREM WindowForEveryWorker == Spec => []EveryWorkerHasWindow
<1>1. ClassInv => EveryWorkerHasWindow
  BY DEF ClassInv, EveryWorkerHasWindow
<1>2. QED
  BY <1>1, ClassSafety, PTL

-----------------------------------------------------------------------------
(* The processor query.                                                    *)

LEMMA Quotient == ASSUME NEW a \in Nat, NEW b \in Nat \ {0} PROVE a \div b \in Nat
  BY SMT

Answers == [cores : Nat, logic_cores : Nat, clock_speed : Nat]

(* What GetCpuCores leaves behind, by cases.                               *)
LEMMA CoresByCase ==
  ASSUME NEW c \in Cpu, NEW info \in Answers
  PROVE  LET divisor == IF c.leaf = "0b" THEN c.threads ELSE c.cores
             intel == info.cores = 0 /\ c.vendor = "INTEL" /\ c.leaf # "none"
             amd == info.cores = 0 /\ c.vendor = "AMD" /\ c.leaf # "none"
         IN  /\ intel => /\ CoresKnown(c, info).cores = LogicCores(c, info) \div divisor
                         /\ CoresKnown(c, info).logic_cores = LogicCores(c, info)
             /\ amd => CoresKnown(c, info).cores = 100
             /\ ~intel /\ ~amd => CoresKnown(c, info) = info
             /\ CoresKnown(c, info) \in Answers
<1> DEFINE divisor == IF c.leaf = "0b" THEN c.threads ELSE c.cores
           intel == info.cores = 0 /\ c.vendor = "INTEL" /\ c.leaf # "none"
           amd == info.cores = 0 /\ c.vendor = "AMD" /\ c.leaf # "none"
<1>1. LogicCores(c, info) \in Nat
  <2>1. c.cores * c.threads \in Nat
    BY DEF Cpu
  <2>2. QED
    BY <2>1 DEF LogicCores, Answers
<1>2. CASE intel
  <2>1. LogicCores(c, info) \div divisor \in Nat
    BY <1>1, Quotient DEF Cpu
  <2>2. CoresKnown(c, info) = [info EXCEPT !.logic_cores = LogicCores(c, info),
                                           !.cores = LogicCores(c, info) \div divisor]
    BY <1>2 DEF CoresKnown
  <2>3. QED
    BY <1>1, <1>2, <2>1, <2>2 DEF Answers
<1>3. CASE amd
  <2>1. CoresKnown(c, info) = [info EXCEPT !.cores = 1 + regs_4]
    BY <1>3 DEF CoresKnown
  <2>2. QED
    BY <1>3, <2>1 DEF regs_4, Answers
<1>4. CASE ~intel /\ ~amd
  <2>1. CoresKnown(c, info) = info
    BY <1>4 DEF CoresKnown
  <2>2. QED
    BY <1>4, <2>1
<1>5. QED
  BY <1>2, <1>3, <1>4

(* Cores that are not found the first time are not found later, whatever   *)
(* becomes of the clock speed.                                             *)
LEMMA NoCoresLater ==
  ASSUME NEW c \in Cpu, NEW info \in Answers, NEW later \in Answers,
         CoresKnown(c, info).cores = 0,
         \/ later = CoresKnown(c, info)
         \/ later.cores = info.cores /\ later.logic_cores = info.logic_cores
  PROVE  info.cores = 0 /\ CoresKnown(c, later).cores = 0
<1> DEFINE divisor == IF c.leaf = "0b" THEN c.threads ELSE c.cores
<1>1. info.cores = 0 /\ later.cores = 0
  BY CoresByCase
<1>2. CASE c.vendor = "INTEL" /\ c.leaf # "none"
  <2>1. LogicCores(c, later) = LogicCores(c, info)
    <3>1. CASE later = CoresKnown(c, info)
      <4>1. later.logic_cores = LogicCores(c, info)
        BY <1>1, <1>2, <3>1, CoresByCase
      <4>2. QED
        BY <4>1 DEF LogicCores
    <3>2. CASE later.logic_cores = info.logic_cores
      BY <3>2 DEF LogicCores
    <3>3. QED
      BY <3>1, <3>2
  <2>2. LogicCores(c, info) \div divisor = 0
    BY <1>1, <1>2, CoresByCase
  <2>3. QED
    BY <1>1, <1>2, <2>1, <2>2, CoresByCase
<1>3. CASE ~(c.vendor = "INTEL" /\ c.leaf # "none")
  BY <1>1, <1>3, CoresByCase
<1>4. QED
  BY <1>2, <1>3

LEMMA DwInvInit == DwInit => DwInv
  BY DEF DwInit, DwInv, HeldAt, fields, unknown

LEMMA DwInvNext == DwInv /\ [DwNext]_dwvars => DwInv'
<1> SUFFICES ASSUME DwInv, [DwNext]_dwvars PROVE DwInv'
  OBVIOUS
<1> USE DEF DwInv, sizeofInfo
<1> DEFINE Looping == at \in {"CallNtPowerInformation", "grow"}
<1>1. ASSUME NEW c \in Cpus, Plug(c) PROVE DwInv'
  BY <1>1 DEF Plug, HeldAt
<1>2. ASSUME NEW call, NEW what, NEW next, Gets(call, what, next),
             call \notin {"none", "ready"}, ~Looping, ~Looping',
             held' = HeldAt'
      PROVE  DwInv'
  BY <1>2 DEF Gets, NoCores
<1>3. ASSUME NEW call, NEW released, Returns(call, released),
             call \notin {"none", "ready"}, ~Looping, held' = HeldAt'
      PROVE  DwInv'
  BY <1>3 DEF Returns, NoCores
<1>4. CASE Connect \/ Refused \/ Query
  BY <1>2, <1>3, <1>4 DEF Connect, Refused, Query, Gets, Returns, HeldAt
<1>5. CASE Row
  <2>1. cpu \in Cpu
    BY <1>5, CpusAssumption DEF Row
  <2>2. fields[field] # "vendor" => WmiValue(cpu) \in Nat /\ fields[field] \in {"cores", "logic_cores", "clock_speed"}
    BY <2>1 DEF WmiValue, Cpu, fields
  <2>3. QED
    BY <1>5, <2>2 DEF Row, HeldAt
<1>6. CASE NoMoreRows
  BY <1>6 DEF NoMoreRows, HeldAt, fields
<1>7. CASE GetCpuCores
  <2>1. cpu \in Cpu
    BY <1>7, CpusAssumption DEF GetCpuCores
  <2>2. wmi_cpu_info_' \in Answers /\ (NoCores => NoCores')
    BY <1>7, <2>1, CoresByCase, NoCoresLater DEF GetCpuCores, NoCores, Answers
  <2>3. QED
    BY <1>7, <2>2 DEF GetCpuCores, HeldAt, Answers
<1>8. CASE AskClock
  <2>1. cpu \in Cpu
    BY <1>8, CpusAssumption DEF AskClock
  <2>2. /\ wmi_cpu_info_' \in Answers
        /\ NoCores => NoCores'
        /\ wmi_cpu_info_'.cores = 0 => NoCores'
    BY <1>8, <2>1, CoresByCase, NoCoresLater DEF AskClock, NoCores, Answers
  <2>3. QED
    BY <1>8, <2>2 DEF AskClock, HeldAt, Answers
<1>9. CASE Answer \/ Grow
  <2>1. cpu \in Cpu
    BY <1>9, CpusAssumption DEF Answer, TooSmall, Answered, Grow
  <2>2. CASE TooSmall \/ Grow
    BY <2>2 DEF TooSmall, Grow, HeldAt, NoCores
  <2>3. ASSUME NEW mhz \in Nat, Answered(mhz) PROVE DwInv'
    <3>1. /\ wmi_cpu_info_' \in Answers
          /\ wmi_cpu_info_'.cores = wmi_cpu_info_.cores
          /\ wmi_cpu_info_'.logic_cores = wmi_cpu_info_.logic_cores
      BY <2>3 DEF Answered, Answers
    <3>2. NoCores => NoCores'
      BY <2>1, <2>3, <3>1, NoCoresLater DEF Answered, NoCores, Answers
    <3>3. QED
      <4>1. held' = HeldAt'
        BY <2>3 DEF Answered, HeldAt
      <4>2. overread' => NoCores' /\ at' = "ready"
        <5>1. buf_len < maxMhzEnd => NoCores
          BY <2>3 DEF Answered, maxMhzEnd
        <5>2. overread => NoCores
          OBVIOUS
        <5>3. overread' = (overread \/ buf_len < maxMhzEnd) /\ at' = "ready"
          BY <2>3 DEF Answered
        <5>4. QED
          BY <3>2, <5>1, <5>2, <5>3
      <4>3. QED
        BY <2>3, <3>1, <4>1, <4>2 DEF Answered, Answers
  <2>4. QED
    BY <1>9, <2>1, <2>2, <2>3 DEF Answer, Cpu
<1>10. CASE UNCHANGED dwvars
  BY <1>10 DEF dwvars, HeldAt, NoCores
<1>11. QED
  BY <1>1, <1>4, <1>5, <1>6, <1>7, <1>8, <1>9, <1>10 DEF DwNext

(* The invariant of the query, for any machines.                           *)
THEOREM DwSafety == DwSpec => []DwInv
  BY DwInvInit, DwInvNext, PTL DEF DwSpec

(* Every exit of the constructor gives back what it holds there.           *)
THEOREM NothingHeldAtReturn == DwSpec => []ConstructorReleases
<1>1. DwInv => ConstructorReleases
  BY DEF DwInv, HeldAt, ConstructorReleases
<1>2. QED
  BY <1>1, DwSafety, PTL

(* The first entry of the buffer lies in it on a machine with cores.       *)
THEOREM ClockInBuffer == DwSpec => []ReadsItsBuffer
<1>1. DwInv => ReadsItsBuffer
  BY CpusAssumption, NoCoresLater DEF DwInv, NoCores, ReadsItsBuffer, Answers
<1>2. QED
  BY <1>1, DwSafety, PTL

(* How far GetCpuClock is from its return: what the buffer has to grow to  *)
(* the limit, counted twice so that growing makes up for the call after.   *)
LoopLeft ==
  (IF buf_len < bufLimit THEN 2 * (bufLimit - buf_len) ELSE 0)
    + (IF at = "CallNtPowerInformation" THEN 1 ELSE 0)

InLoop == at \in {"CallNtPowerInformation", "grow"}

(* With cores known, every turn of the loop makes the buffer longer, and   *)
(* at the limit the system is asked once more: each step comes nearer to   *)
(* the return, whatever the system answers.                                *)
ClockLoopAdvances ==
  [][InLoop /\ wmi_cpu_info_.cores # 0 =>
       at' = "ready" \/ (InLoop' /\ wmi_cpu_info_'.cores # 0 /\ LoopLeft' < LoopLeft)]_dwvars

(* The loop grows a buffer only below the limit.                           *)
GrowsBelowLimit == at = "grow" => buf_len < bufLimit

LEMMA GrowsBelowLimitNext == DwInv /\ GrowsBelowLimit /\ [DwNext]_dwvars => GrowsBelowLimit'
<1> SUFFICES ASSUME DwInv, GrowsBelowLimit, [DwNext]_dwvars, at' = "grow" PROVE buf_len' < bufLimit
  BY DEF GrowsBelowLimit
<1>1. CASE TooSmall
  BY <1>1 DEF TooSmall, DwInv, bufLimit
<1>2. CASE UNCHANGED dwvars
  BY <1>2 DEF dwvars, GrowsBelowLimit
<1>3. ASSUME NEW mhz, Answered(mhz) PROVE FALSE
  BY <1>3 DEF Answered
<1>4. ~(Connect \/ Refused \/ Query)
  BY DEF Connect, Refused, Query, Gets, Returns
<1>5. ~(Row \/ NoMoreRows \/ GetCpuCores)
  BY DEF Row, NoMoreRows, GetCpuCores
<1>6. ~AskClock /\ ~Grow /\ \A c \in Cpus : ~Plug(c)
  BY DEF AskClock, Grow, Plug
<1>7. QED
  BY <1>1, <1>2, <1>3, <1>4, <1>5, <1>6 DEF DwNext, Answer

(* The safety of ClockReturns: LoopLeft is a natural number that no step   *)
(* of the loop leaves as it is.                                            *)
THEOREM ClockComesNearer == DwSpec => ClockLoopAdvances /\ [](LoopLeft \in Nat)
<1>1. ASSUME DwInv, GrowsBelowLimit, [DwNext]_dwvars, InLoop, wmi_cpu_info_.cores # 0, ~UNCHANGED dwvars
      PROVE  at' = "ready" \/ (InLoop' /\ wmi_cpu_info_'.cores # 0 /\ LoopLeft' < LoopLeft)
  <2>1. buf_len \in Nat /\ buf_len > 0
    <3>1. cpu \in Cpu
      BY <1>1, CpusAssumption DEF DwInv, InLoop
    <3>2. ~NoCores
      BY <1>1, <3>1, CoresByCase DEF NoCores, DwInv, Answers
    <3>3. QED
      BY <1>1, <3>2 DEF DwInv, InLoop, sizeofInfo
  <2>2. CASE TooSmall
    BY <1>1, <2>1, <2>2 DEF TooSmall, InLoop, LoopLeft, bufLimit
  <2>3. CASE Grow
    BY <1>1, <2>1, <2>3 DEF Grow, InLoop, LoopLeft, GrowsBelowLimit, bufLimit
  <2>4. ASSUME NEW mhz, Answered(mhz) PROVE at' = "ready"
    BY <2>4 DEF Answered
  <2>5. QED
    BY <1>1, <2>2, <2>3, <2>4
    DEF InLoop, DwNext, Plug, Connect, Refused, Query, Gets, Returns, Row, NoMoreRows, GetCpuCores, AskClock, Answer
<1>2. DwInv /\ GrowsBelowLimit /\ [DwNext]_dwvars =>
        [InLoop /\ wmi_cpu_info_.cores # 0 =>
           at' = "ready" \/ (InLoop' /\ wmi_cpu_info_'.cores # 0 /\ LoopLeft' < LoopLeft)]_dwvars
  BY <1>1
<1>3. DwInit => GrowsBelowLimit
  BY DEF DwInit, GrowsBelowLimit
<1>4. DwInv => LoopLeft \in Nat
  BY DEF DwInv, LoopLeft, bufLimit
<1>5. QED
  BY <1>2, <1>3, <1>4, GrowsBelowLimitNext, DwSafety, PTL DEF DwSpec, ClockLoopAdvances

-----------------------------------------------------------------------------
(* The camera program.  do_stop releases the graph twice, the builder, the *)
(* last camera and its renderer, in this order.                            *)
LEMMA Objects ==
  /\ Builder \in ComObjects /\ Graph \in ComObjects /\ Builder # Graph
  /\ Builder \notin Cameras /\ Graph \notin Cameras
  /\ noInterface \notin ComObjects
  /\ \A n \in 1..MaxCameras : /\ Camera(n) \in ComObjects /\ Renderer(n) \in ComObjects
                              /\ Camera(n) \in Cameras
                              /\ Camera(n) \notin {Builder, Graph} \cup Renderers
                              /\ Renderer(n) \notin {Builder, Graph} \cup Cameras
                              /\ \A m \in 1..MaxCameras :
                                   /\ Camera(n) = Camera(m) => n = m
                                   /\ Renderer(n) = Renderer(m) => n = m
  BY CaptureAssumption DEF ComObjects, Cameras, Renderers, Camera, Renderer, Builder, Graph, noInterface

LEMMA ReleasedByStop ==
  /\ Len(Released) = 5 /\ DOMAIN Released = 1..5
  /\ Released[1] = pMediaControl /\ Released[2] = pGraph /\ Released[3] = pBuild
  /\ Released[4] = pVideoCap /\ Released[5] = pRendererFilter
  BY DEF Released, StopAll

LEMMA AfterType ==
  ASSUME CgTypeOK, NEW n \in Nat PROVE After(n) \in [ComObjects -> Int]
<1> DEFINE Times(o) == Cardinality({i \in 1..n : Released[i] = o})
<1>1. IsFiniteSet(1..n)
  BY FS_Interval
<1>2. ASSUME NEW o \in ComObjects PROVE refs[o] - Times(o) \in Int
  <2>1. IsFiniteSet({i \in 1..n : Released[i] = o})
    BY <1>1, FS_Subset
  <2>2. Times(o) \in Nat
    BY <2>1, FS_CardinalityType
  <2> HIDE DEF Times
  <2>3. QED
    BY <2>2 DEF CgTypeOK
<1>3. After(n) = [o \in ComObjects |-> refs[o] - Times(o)]
  BY DEF After
<1> HIDE DEF Times
<1>4. QED
  BY <1>2, <1>3

LEMMA Untouched ==
  ASSUME CgTypeOK, NEW n \in Nat, NEW o \in ComObjects, \A i \in 1..n : Released[i] # o
  PROVE  After(n)[o] = refs[o]
<1>1. {i \in 1..n : Released[i] = o} = {}
  OBVIOUS
<1>2. QED
  BY <1>1, FS_EmptySet DEF After, CgTypeOK

LEMMA TouchedOnce ==
  ASSUME CgTypeOK, NEW n \in Nat, NEW o \in ComObjects, NEW i \in 1..n,
         \A j \in 1..n : Released[j] = o <=> j = i
  PROVE  After(n)[o] = refs[o] - 1
<1>1. {j \in 1..n : Released[j] = o} = {i}
  OBVIOUS
<1>2. QED
  BY <1>1, FS_Singleton DEF After, CgTypeOK

LEMMA TouchedTwice ==
  ASSUME CgTypeOK, NEW n \in Nat, NEW o \in ComObjects, NEW i \in 1..n, NEW k \in 1..n, i # k,
         \A j \in 1..n : Released[j] = o <=> j \in {i, k}
  PROVE  After(n)[o] = refs[o] - 2
<1>1. {j \in 1..n : Released[j] = o} = {i} \cup {k}
  OBVIOUS
<1>2. Cardinality({i} \cup {k}) = 2
  <2>1. IsFiniteSet({i}) /\ Cardinality({i}) = 1 /\ k \notin {i}
    BY FS_Singleton
  <2>2. QED
    BY <2>1, FS_AddElement
<1>3. QED
  BY <1>1, <1>2 DEF After, CgTypeOK

(* The stop after a capture finds every object it releases alive...        *)
LEMMA StopFindsAll ==
  ASSUME CgInv, Sound, stops = 0, cameras > 0, NEW i \in 1..5
  PROVE  Released[i] # noInterface /\ Alive(After(i - 1), Released[i])
<1> USE DEF CgInv
<1>1. cameras \in 1..MaxCameras
  BY CaptureAssumption DEF CgTypeOK
<1>2. /\ Released[1] = Graph /\ Released[2] = Graph /\ Released[3] = Builder
      /\ Released[4] = Camera(cameras) /\ Released[5] = Renderer(cameras)
  BY ReleasedByStop DEF LastCamera
<1>3. \A o \in ComObjects : \A m \in {0, 1, 2, 3, 4} :
        (\A j \in 1..m : Released[j] # o) => After(m)[o] = refs[o]
  BY Untouched
<1>4. i \in {1, 2} => Alive(After(i - 1), Graph)
  <2>1. i \in {1, 2} => After(i - 1)[Builder] = 1
    BY <1>2, <1>3, Objects DEF Captured
  <2>2. QED
    BY <2>1 DEF Alive, GraphAlive
<1>5. i = 3 => Alive(After(i - 1), Builder)
  <2>1. After(2)[Builder] = 1
    BY <1>2, <1>3, Objects DEF Captured
  <2>2. QED
    BY <2>1 DEF Alive
<1>6. i = 4 => Alive(After(i - 1), Camera(cameras))
  <2>1. After(3)[Camera(cameras)] = 2
    BY <1>1, <1>2, <1>3, Objects DEF Captured
  <2>2. QED
    BY <2>1 DEF Alive
<1>7. i = 5 => Alive(After(i - 1), Renderer(cameras))
  <2>1. After(4)[Renderer(cameras)] = 1
    BY <1>1, <1>2, <1>3, Objects DEF Captured
  <2>2. QED
    BY <2>1 DEF Alive
<1>8. QED
  BY <1>1, <1>2, <1>4, <1>5, <1>6, <1>7, Objects

(* ...and leaves what StopFreesOneCapture says.                            *)
LEMMA StopLeaves ==
  ASSUME CgInv, Sound, stops = 0, cameras > 0
  PROVE  /\ After(5)[Builder] = 0 /\ After(5)[Graph] = cameras - 1
         /\ \A n \in 1..cameras :
              /\ After(5)[Renderer(n)] = IF n = cameras THEN 0 ELSE 1
              /\ After(5)[Camera(n)] = IF n = cameras THEN 1 ELSE 2
<1> USE DEF CgInv
<1>1. cameras \in 1..MaxCameras
  BY CaptureAssumption DEF CgTypeOK
<1>2. /\ Released[1] = Graph /\ Released[2] = Graph /\ Released[3] = Builder
      /\ Released[4] = Camera(cameras) /\ Released[5] = Renderer(cameras)
  BY ReleasedByStop DEF LastCamera
<1>3. 1..5 = {1, 2, 3, 4, 5}
  OBVIOUS
<1>4. After(5)[Graph] = cameras - 1
  <2>1. \A j \in 1..5 : Released[j] = Graph <=> j \in {1, 2}
    BY <1>1, <1>2, <1>3, Objects
  <2>2. After(5)[Graph] = refs[Graph] - 2
    BY <2>1, Objects, TouchedTwice
  <2>3. QED
    BY <1>1, <2>2 DEF Captured
<1>5. After(5)[Builder] = 0
  <2>1. \A j \in 1..5 : Released[j] = Builder <=> j = 3
    BY <1>1, <1>2, <1>3, Objects
  <2>2. After(5)[Builder] = refs[Builder] - 1
    BY <2>1, Objects, TouchedOnce
  <2>3. QED
    BY <2>2 DEF Captured
<1>6. ASSUME NEW n \in 1..cameras
      PROVE  /\ After(5)[Renderer(n)] = IF n = cameras THEN 0 ELSE 1
             /\ After(5)[Camera(n)] = IF n = cameras THEN 1 ELSE 2
  <2>1. n \in 1..MaxCameras /\ refs[Camera(n)] = 2 /\ refs[Renderer(n)] = 1
    <3>1. n \in 1..MaxCameras /\ n <= cameras
      BY <1>1, CaptureAssumption
    <3>2. QED
      BY <3>1 DEF Captured
  <2>2. CASE n = cameras
    <3>1. \A j \in 1..5 : (Released[j] = Camera(n) <=> j = 4) /\ (Released[j] = Renderer(n) <=> j = 5)
      BY <1>1, <1>2, <1>3, <2>2, Objects
    <3>2. After(5)[Camera(n)] = 1 /\ After(5)[Renderer(n)] = 0
      BY <2>1, <3>1, Objects, TouchedOnce
    <3>3. QED
      BY <2>2, <3>2
  <2>3. CASE n # cameras
    <3>1. \A j \in 1..5 : Released[j] # Camera(n) /\ Released[j] # Renderer(n)
      BY <1>1, <1>2, <1>3, <2>1, <2>3, Objects
    <3>2. After(5)[Camera(n)] = 2 /\ After(5)[Renderer(n)] = 1
      BY <2>1, <3>1, Objects, Untouched
    <3>3. QED
      BY <2>3, <3>2
  <2>4. QED
    BY <2>2, <2>3
<1>7. QED
  BY <1>4, <1>5, <1>6

(* A second stop finds no builder.                                         *)
LEMMA SecondStopDies ==
  ASSUME CgInv, Sound, stops = 1
  PROVE  ~Alive(After(2), Released[3])
<1>1. cameras > 0 /\ refs[Builder] = 0
  BY DEF CgInv, CgTypeOK, StopFreesOneCapture, Sound
<1>2. Released[1] = Graph /\ Released[2] = Graph /\ Released[3] = Builder
  BY <1>1, ReleasedByStop DEF CgInv, LastCamera
<1>3. \A j \in 1..2 : Released[j] # Builder
  BY <1>2, Objects
<1>4. After(2)[Builder] = 0
  BY <1>1, <1>3, Untouched, Objects DEF CgInv
<1>5. QED
  BY <1>2, <1>4, Objects DEF Alive, CgInv, CgTypeOK

LEMMA CgInvInit == CgInit => CgInv
<1> SUFFICES ASSUME CgInit PROVE CgInv
  OBVIOUS
<1> USE DEF CgInit
<1>1. CgTypeOK
  <2>1. cameras \in 0..MaxCameras /\ stops \in Nat /\ refs \in [ComObjects -> Int]
    BY CaptureAssumption
  <2>2. failed \in BOOLEAN /\ disorder \in BOOLEAN /\ dead \in BOOLEAN
    OBVIOUS
  <2>3. QED
    BY <2>1, <2>2 DEF CgTypeOK
<1>2. ~Sound /\ InitAllOrNothing /\ StopFreesOneCapture /\ BoundUseIsSafe
  BY DEF Sound, InitAllOrNothing, StopFreesOneCapture, BoundUseIsSafe
<1>3. QED
  BY <1>1, <1>2 DEF CgInv

LEMMA CgTypes == CgTypeOK /\ [CgNext]_cgvars => CgTypeOK'
<1> SUFFICES ASSUME CgTypeOK, [CgNext]_cgvars PROVE CgTypeOK'
  OBVIOUS
<1> USE DEF CgTypeOK
<1>1. CASE do_capture \/ EndOfDevices \/ Exit
  <2>1. disorder' \in BOOLEAN
    BY <1>1 DEF do_capture, EndOfDevices, Exit
  <2>2. QED
    BY <1>1, <2>1 DEF do_capture, EndOfDevices, Exit
<1>2. CASE InitCaptureGraphBuilder
  <2> USE DEF InitCaptureGraphBuilder, CreateBuilder, CreateBuilderFails, CreateGraph, CreateGraphFails
  <2>1. refs' \in [ComObjects -> Int]
    BY <1>2
  <2>2. /\ menu' \in {"graph", "idle"}
        /\ UNCHANGED <<filters, cameras, stops, disorder, dead>>
    BY <1>2 DEF Initialising
  <2>3. failed' \in BOOLEAN
    BY <1>2, Zenon
  <2>4. QED
    BY <2>1, <2>2, <2>3
<1>7. CASE BindFails \/ NoStreamConfig \/ AddFilterFails
  <2>1. cameras' \in 0..MaxCameras
    BY <1>7, CaptureAssumption DEF BindFails, NoStreamConfig, AddFilterFails, Bind
  <2>2. refs' \in [ComObjects -> Int]
    BY <1>7 DEF BindFails, NoStreamConfig, AddFilterFails
  <2>3. failed' \in BOOLEAN
    BY <1>7 DEF BindFails, NoStreamConfig, AddFilterFails
  <2>4. /\ dead' \in BOOLEAN /\ UNCHANGED <<filters, menu, stops, disorder>>
    BY <1>7 DEF BindFails, NoStreamConfig, AddFilterFails, Bind
  <2>5. QED
    BY <2>1, <2>2, <2>3, <2>4
<1>3. ASSUME NEW rendered \in BOOLEAN, start_capture(rendered) PROVE CgTypeOK'
  <2>1. cameras' \in 1..MaxCameras
    BY <1>3, CaptureAssumption DEF start_capture, Bind
  <2>2. pVideoCap' \in Cameras
    BY <1>3, <2>1, Objects DEF start_capture
  <2>3. refs' \in [ComObjects -> Int]
    <3> DEFINE added(o) == CASE o = pVideoCap' -> 2
                             [] o = pRendererFilter' -> 1
                             [] o = pGraph -> 1
                             [] OTHER -> 0
    <3>1. ASSUME NEW o \in ComObjects PROVE added(o) \in {0, 1, 2}
      OBVIOUS
    <3>2. refs' = [o \in ComObjects |-> refs[o] + added(o)]
      BY <1>3 DEF start_capture
    <3> HIDE DEF added
    <3>3. \A o \in ComObjects : refs[o] + added(o) \in Int
      BY <3>1
    <3>4. QED
      BY <3>2, <3>3
  <2>4. QED
    BY <1>3, <2>1, <2>2, <2>3 DEF start_capture, Bind
<1>4. CASE do_stop
  <2>1. After(5) \in [ComObjects -> Int]
    BY AfterType
  <2>2. /\ refs' \in [ComObjects -> Int]
        /\ stops' \in Nat
        /\ UNCHANGED <<filters, menu, cameras, failed>>
    BY <1>4, <2>1, ReleasedByStop DEF do_stop
  <2>3. dead' \in BOOLEAN
    BY <1>4 DEF do_stop
  <2>4. disorder' \in BOOLEAN
    BY <1>4 DEF do_stop
  <2>5. QED
    BY <2>2, <2>3, <2>4
<1>5. CASE UNCHANGED cgvars
  BY <1>5 DEF cgvars
<1>6. QED
  BY <1>1, <1>2, <1>3, <1>4, <1>5, <1>7 DEF CgNext

LEMMA StopStep == CgInv /\ ~dead /\ do_stop => CgInv'
<1> SUFFICES ASSUME CgInv, ~dead, do_stop PROVE CgInv'
  OBVIOUS
<1> USE DEF CgInv
<1>1. CgTypeOK'
  BY CgTypes DEF CgNext
<1>2. /\ menu = "idle" /\ menu' = "idle" /\ cameras' = cameras /\ failed' = failed
      /\ UNCHANGED pointers
  BY DEF do_stop
<1>3. CASE cameras = 0
  <2>1. dead' = TRUE /\ refs' = refs /\ stops' = stops
    <3>1. \E i \in DOMAIN Released : Released[i] = noInterface
      BY <1>3, ReleasedByStop
    <3>2. QED
      BY <3>1 DEF do_stop
  <2>2. InitAllOrNothing'
    BY <1>2, <2>1 DEF InitAllOrNothing, pointers
  <2>3. QED
    BY <1>1, <1>2, <1>3, <2>1, <2>2 DEF Sound, StopFreesOneCapture, BoundUseIsSafe, pointers
<1>4. CASE failed
  <2>1. cameras # 0 \/ dead'
    BY ReleasedByStop DEF do_stop
  <2>2. ~Sound' /\ BoundUseIsSafe' /\ StopFreesOneCapture'
    BY <1>2, <1>4 DEF Sound, BoundUseIsSafe, StopFreesOneCapture
  <2>3. CASE cameras # 0
    BY <1>1, <1>2, <2>2, <2>3 DEF InitAllOrNothing
  <2>4. QED
    BY <1>3, <2>3
<1>5. CASE cameras # 0 /\ ~failed /\ stops = 0
  <2>1. cameras > 0 /\ Sound
    BY <1>2, <1>5 DEF CgTypeOK, Sound
  <2>2. ~\E i \in DOMAIN Released : \/ Released[i] = noInterface
                                   \/ ~Alive(After(i - 1), Released[i])
    BY <1>5, <2>1, StopFindsAll, ReleasedByStop
  <2>3. refs' = After(5) /\ stops' = 1 /\ dead' = dead
    BY <1>5, <2>2, ReleasedByStop DEF do_stop
  <2>4. StopFreesOneCapture'
    BY <1>2, <1>5, <2>1, <2>3, StopLeaves DEF StopFreesOneCapture
  <2>5. LastCamera'
    BY <1>2, <2>1 DEF LastCamera, pointers
  <2>6. QED
    BY <1>1, <1>2, <1>5, <2>3, <2>4, <2>5 DEF InitAllOrNothing, BoundUseIsSafe
<1>6. CASE cameras # 0 /\ ~failed /\ stops > 0
  <2>1. disorder' /\ Sound
    BY <1>2, <1>6 DEF do_stop, Sound
  <2>2. LastCamera'
    BY <1>2, <2>1 DEF LastCamera, pointers
  <2>3. stops = 1 => dead'
    <3>1. stops = 1 => ~Alive(After(2), Released[3])
      BY <2>1, SecondStopDies
    <3>2. QED
      BY <3>1, ReleasedByStop DEF do_stop
  <2>4. stops' > 0 /\ (stops' = 1 => dead')
    BY <1>6, <2>3 DEF do_stop, CgTypeOK
  <2>5. QED
    BY <1>1, <1>2, <1>6, <2>1, <2>2, <2>4 DEF InitAllOrNothing, BoundUseIsSafe, StopFreesOneCapture
<1>7. QED
  BY <1>3, <1>4, <1>5, <1>6 DEF CgTypeOK

LEMMA CaptureStep ==
  ASSUME CgInv, ~dead, NEW rendered \in BOOLEAN, start_capture(rendered) PROVE CgInv'
<1> USE DEF CgInv
<1>1. CgTypeOK'
  BY CgTypes DEF CgNext
<1>2. /\ menu = "capture" /\ menu' = "capture" /\ stops' = stops /\ disorder' = disorder /\ dead' = dead
      /\ cameras' = cameras + 1 /\ cameras' \in 1..MaxCameras
      /\ pBuild' = pBuild /\ pGraph' = pGraph
      /\ failed' = (failed \/ ~rendered)
  BY CaptureAssumption DEF start_capture, Bind, CgTypeOK
<1>3. CASE failed'
  BY <1>1, <1>2, <1>3 DEF Sound, InitAllOrNothing, StopFreesOneCapture, BoundUseIsSafe, CgTypeOK
<1>4. CASE ~failed'
  <2>1. ~failed /\ rendered /\ Sound
    BY <1>2, <1>4 DEF Sound
  <2>2. stops # 1
    <3>1. Callable(Builder)
      BY <2>1 DEF start_capture, LastCamera
    <3>2. refs[Builder] > 0
      BY <3>1, Objects DEF Callable, Alive, CgTypeOK
    <3>3. QED
      BY <2>1, <3>2 DEF StopFreesOneCapture, Sound
  <2>3. LastCamera'
    BY <1>2, <2>1 DEF start_capture, LastCamera
  <2>4. ASSUME stops = 0 PROVE Captured'
    <3>1. ASSUME NEW o \in ComObjects
          PROVE  refs'[o] = refs[o] + CASE o = Camera(cameras') -> 2
                                       [] o = Renderer(cameras') -> 1
                                       [] o = Graph -> 1
                                       [] OTHER -> 0
      BY <2>1 DEF start_capture, LastCamera
    <3>2. refs'[Builder] = 1 /\ refs'[Graph] = 1 + cameras'
      BY <1>2, <2>1, <2>4, <3>1, Objects DEF Captured, CgTypeOK
    <3>3. ASSUME NEW n \in 1..MaxCameras
          PROVE  /\ refs'[Camera(n)] = IF n <= cameras' THEN 2 ELSE 0
                 /\ refs'[Renderer(n)] = IF n <= cameras' THEN 1 ELSE 0
      BY <1>2, <2>1, <2>4, <3>1, Objects DEF Captured, CgTypeOK
    <3>4. QED
      BY <3>2, <3>3 DEF Captured
  <2>5. QED
    BY <1>1, <1>2, <1>4, <2>1, <2>2, <2>3, <2>4
    DEF Sound, InitAllOrNothing, StopFreesOneCapture, BoundUseIsSafe, CgTypeOK
<1>5. QED
  BY <1>3, <1>4

LEMMA CgInvNext == CgInv /\ [CgNext]_cgvars => CgInv'
<1> SUFFICES ASSUME CgInv, [CgNext]_cgvars PROVE CgInv'
  OBVIOUS
<1> USE DEF CgInv
<1>1. CgTypeOK'
  BY CgTypes
<1>2. CASE (CreateBuilder \/ CreateBuilderFails) /\ ~dead
  <2>1. menu = "start"
    BY <1>2 DEF CreateBuilder, CreateBuilderFails, Initialising
  <2>2. QED
    BY <1>1, <1>2, <2>1, Objects
    DEF CreateBuilder, CreateBuilderFails, Initialising, pointers, Sound, InitAllOrNothing,
        StopFreesOneCapture, BoundUseIsSafe, CgTypeOK
<1>3. CASE (CreateGraph \/ CreateGraphFails) /\ ~dead
  <2>1. menu = "graph" /\ menu' = "idle" /\ cameras' = 0 /\ stops' = 0 /\ ~dead'
        /\ pMediaControl' = noInterface
    BY <1>3 DEF CreateGraph, CreateGraphFails, Initialising
  <2>2. \A o \in ComObjects : refs[o] = IF o = Builder THEN 1 ELSE 0
    BY <2>1
  <2>3. CASE CreateGraph
    <3>1. pBuild' = Builder /\ pGraph' = Graph
          /\ \A o \in ComObjects : refs'[o] = IF o \in {Builder, Graph} THEN 1 ELSE 0
      BY <2>2, <2>3, Objects DEF CreateGraph, CgTypeOK
    <3>2. Captured' /\ LastCamera' /\ InitAllOrNothing'
      BY <2>1, <3>1, Objects, CaptureAssumption DEF Captured, LastCamera, InitAllOrNothing
    <3>3. QED
      BY <1>1, <2>1, <3>2 DEF Sound, StopFreesOneCapture, BoundUseIsSafe
  <2>4. CASE CreateGraphFails
    <3>1. /\ failed' /\ pBuild' = noInterface /\ pGraph' = noInterface
          /\ \A o \in ComObjects : refs'[o] = 0
      BY <2>1, <2>2, <2>4, Objects DEF CreateGraphFails, CgTypeOK
    <3>2. QED
      BY <1>1, <2>1, <3>1 DEF Sound, InitAllOrNothing, StopFreesOneCapture, BoundUseIsSafe
  <2>5. QED
    BY <1>3, <2>3, <2>4
<1>4. CASE (do_capture \/ EndOfDevices \/ Exit) /\ ~dead
  <2>1. /\ menu \notin {"start", "graph"} /\ menu' \notin {"start", "graph"}
        /\ UNCHANGED <<pointers, refs, filters, cameras, stops, failed, dead>>
    BY <1>4 DEF do_capture, EndOfDevices, Exit
  <2>5. (menu' = "capture" /\ stops > 0 => disorder') /\ (disorder => disorder')
    <3>1. CASE do_capture
      BY <3>1, Zenon DEF do_capture
    <3>2. CASE EndOfDevices \/ Exit
      BY <3>2 DEF EndOfDevices, Exit
    <3>3. QED
      BY <1>4, <3>1, <3>2
  <2>2. (Sound' <=> Sound) /\ (LastCamera' <=> LastCamera) /\ (Captured' <=> Captured)
    BY <2>1 DEF Sound, LastCamera, Captured, pointers
  <2>3. InitAllOrNothing' /\ StopFreesOneCapture' /\ BoundUseIsSafe'
    BY <2>1, <2>5 DEF InitAllOrNothing, StopFreesOneCapture, BoundUseIsSafe, pointers
  <2>4. QED
    BY <1>1, <2>1, <2>2, <2>3, <2>5 DEF pointers
<1>5. CASE (BindFails \/ NoStreamConfig \/ AddFilterFails) /\ ~dead
  <2>1. /\ menu = "capture" /\ menu' = "capture" /\ UNCHANGED <<stops, disorder>>
        /\ cameras' > 0
        /\ failed' \/ dead'
    BY <1>5 DEF BindFails, NoStreamConfig, AddFilterFails, Bind, CgTypeOK
  <2>2. BoundUseIsSafe'
    <3>1. CASE failed'
      BY <3>1 DEF BoundUseIsSafe
    <3>2. CASE disorder
      BY <2>1, <3>2 DEF BoundUseIsSafe
    <3>3. CASE ~failed' /\ ~disorder
      <4>1. NoStreamConfig /\ ~failed /\ stops = 0
        BY <1>5, <2>1, <3>3 DEF BindFails, NoStreamConfig, AddFilterFails, CgTypeOK
      <4>2. Captured /\ LastCamera
        BY <1>5, <2>1, <4>1 DEF Sound
      <4>3. Callable(pGraph) /\ Callable(pBuild)
        BY <4>2, Objects DEF Callable, Alive, GraphAlive, Captured, LastCamera, CgTypeOK
      <4>4. QED
        BY <3>3, <4>1, <4>3 DEF NoStreamConfig
    <3>4. QED
      BY <3>1, <3>2, <3>3
  <2>3. QED
    BY <1>1, <2>1, <2>2 DEF Sound, InitAllOrNothing, StopFreesOneCapture
<1>6. ASSUME NEW rendered \in BOOLEAN, start_capture(rendered), ~dead PROVE CgInv'
  BY <1>6, CaptureStep
<1>7. CASE do_stop /\ ~dead
  BY <1>7, StopStep
<1>8. CASE UNCHANGED cgvars
  BY <1>1, <1>8
  DEF cgvars, pointers, Sound, LastCamera, Captured, InitAllOrNothing, StopFreesOneCapture, BoundUseIsSafe
<1>9. QED
  BY <1>2, <1>3, <1>4, <1>5, <1>6, <1>7, <1>8 DEF CgNext, InitCaptureGraphBuilder

(* The invariant of the camera program, for any number of cameras.         *)
THEOREM CgSafety == CgSpec => []CgInv
  BY CgInvInit, CgInvNext, PTL DEF CgSpec

(* Once a camera is bound, captures and then one stop go through no        *)
(* pointer that is null or dangling, unless a call failed.                 *)
THEOREM BoundUse == CgSpec => []BoundUseIsSafe
<1>1. CgInv => BoundUseIsSafe
  BY DEF CgInv
<1>2. QED
  BY <1>1, CgSafety, PTL

(* The stop leaves exactly what was never given back.                      *)
THEOREM StopFrees == CgSpec => []StopFreesOneCapture
<1>1. CgInv => StopFreesOneCapture
  BY DEF CgInv
<1>2. QED
  BY <1>1, CgSafety, PTL

(* Wherever the initialisation ends, its caller has both objects or there  *)
(* is none: no step of it can leave a builder behind that nobody holds.    *)
THEOREM InitReleases == CgSpec => []InitAllOrNothing
<1>1. CgInv => InitAllOrNothing
  BY DEF CgInv
<1>2. QED
  BY <1>1, CgSafety, PTL

=============================================================================
