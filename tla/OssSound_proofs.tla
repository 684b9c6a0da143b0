-------------------------- MODULE OssSound_proofs --------------------------
(***************************************************************************)
(* Proofs about OssSound, for any number of instances, descriptors and     *)
(* threads and any buffer size.                                            *)
(***************************************************************************)
EXTENDS OssSound, TLAPS

\* The initial states satisfy the invariant.
LEMMA InitIndInv == Init => IndInv
BY BufAssumption
DEF Init, IndInv, TypeOK, OwnerOK, InstancesOwned, DeviceOK, ThreadOK, SignalOK, LateOK,
    HasDevice, HasThread, TPcValues, InOpen, InClose, LateCap

\* IndInv is preserved by every step.
LEMMA NextIndInv == IndInv /\ [Next]_vars => IndInv'
<1> SUFFICES ASSUME IndInv, [Next]_vars PROVE IndInv'
  OBVIOUS
<1> USE NullAssumption, BufAssumption DEF IndInv, instVars, ownerVars, threadVars
<1>1. ASSUME NEW i \in Instances, Open(i) PROVE IndInv'
  <2>1. TypeOK'
    BY <1>1 DEF Open, OwnerOK, InstancesOwned, TypeOK, TPcValues, InOpen, InClose, LateCap
  <2>2. OwnerOK'
    BY <1>1 DEF Open, OwnerOK, InstancesOwned, TypeOK
  <2>3. DeviceOK'
    BY <1>1 DEF Open, DeviceOK, HasDevice, OwnerOK, InstancesOwned, TypeOK
  <2>4. ThreadOK'
    BY <1>1 DEF Open, ThreadOK, HasThread, OwnerOK, InstancesOwned, TypeOK
  <2>5. LateOK'
    BY <1>1 DEF Open, LateOK, ThreadOK, HasThread, OwnerOK, TypeOK, LateCap, InOpen
  <2>6. SignalOK'
    BY <1>1 DEF Open, ThreadOK, HasThread, SignalOK, ThreadOK, HasThread, OwnerOK, InstancesOwned, TypeOK, InOpen, InClose
  <2> QED BY <2>1, <2>2, <2>3, <2>4, <2>5, <2>6
<1>2. ASSUME NEW f \in Fds, OpenDevice(f) PROVE IndInv'
  <2>1. TypeOK'
    BY <1>2 DEF OpenDevice, OwnerOK, InstancesOwned, TypeOK, TPcValues, InOpen, InClose, LateCap
  <2>2. OwnerOK'
    BY <1>2 DEF OpenDevice, OwnerOK, InstancesOwned, TypeOK
  <2>3. DeviceOK'
    BY <1>2 DEF OpenDevice, DeviceOK, HasDevice, OwnerOK, InstancesOwned, TypeOK
  <2>4. ThreadOK'
    BY <1>2 DEF OpenDevice, ThreadOK, HasThread, OwnerOK, InstancesOwned, TypeOK
  <2>5. LateOK'
    BY <1>2 DEF OpenDevice, LateOK, ThreadOK, HasThread, OwnerOK, TypeOK, LateCap, InOpen
  <2>6. SignalOK'
    BY <1>2 DEF OpenDevice, ThreadOK, HasThread, SignalOK, ThreadOK, HasThread, OwnerOK, InstancesOwned, TypeOK, InOpen, InClose
  <2> QED BY <2>1, <2>2, <2>3, <2>4, <2>5, <2>6
<1>3. CASE OpenDeviceFails
  <2>1. TypeOK'
    BY <1>3 DEF OpenDeviceFails, Fail, AfterFail, OwnerOK, InstancesOwned, TypeOK, TPcValues, InOpen, InClose, LateCap
  <2>2. OwnerOK'
    BY <1>3 DEF OpenDeviceFails, Fail, AfterFail, OwnerOK, InstancesOwned, TypeOK
  <2>3. DeviceOK'
    BY <1>3 DEF OpenDeviceFails, Fail, AfterFail, DeviceOK, HasDevice, OwnerOK, InstancesOwned, TypeOK
  <2>4. ThreadOK'
    BY <1>3 DEF OpenDeviceFails, Fail, AfterFail, ThreadOK, HasThread, OwnerOK, InstancesOwned, TypeOK
  <2>5. LateOK'
    BY <1>3 DEF OpenDeviceFails, Fail, AfterFail, LateOK, ThreadOK, HasThread, OwnerOK, TypeOK, LateCap, InOpen
  <2>6. SignalOK'
    BY <1>3 DEF OpenDeviceFails, Fail, AfterFail, ThreadOK, HasThread, SignalOK, ThreadOK, HasThread, OwnerOK, InstancesOwned, TypeOK, InOpen, InClose
  <2> QED BY <2>1, <2>2, <2>3, <2>4, <2>5, <2>6
<1>4. ASSUME NEW ok \in BOOLEAN, Configure(ok) PROVE IndInv'
  <2>1. TypeOK'
    BY <1>4 DEF Configure, Fail, AfterFail, OwnerOK, InstancesOwned, TypeOK, TPcValues, InOpen, InClose, LateCap
  <2>2. OwnerOK'
    BY <1>4 DEF Configure, Fail, AfterFail, OwnerOK, InstancesOwned, TypeOK
  <2>3. DeviceOK'
    BY <1>4 DEF Configure, Fail, AfterFail, DeviceOK, HasDevice, OwnerOK, InstancesOwned, TypeOK
  <2>4. ThreadOK'
    BY <1>4 DEF Configure, Fail, AfterFail, ThreadOK, HasThread, OwnerOK, InstancesOwned, TypeOK
  <2>5. LateOK'
    BY <1>4 DEF Configure, Fail, AfterFail, LateOK, ThreadOK, HasThread, OwnerOK, TypeOK, LateCap, InOpen
  <2>6. SignalOK'
    BY <1>4 DEF Configure, Fail, AfterFail, ThreadOK, HasThread, SignalOK, ThreadOK, HasThread, OwnerOK, InstancesOwned, TypeOK, InOpen, InClose
  <2> QED BY <2>1, <2>2, <2>3, <2>4, <2>5, <2>6
<1>5. ASSUME NEW t \in Threads \cup {Null}, CreateThread(t) PROVE IndInv'
  <2>1. TypeOK'
    BY <1>5 DEF CreateThread, OwnerOK, InstancesOwned, TypeOK, TPcValues, InOpen, InClose, LateCap
  <2>2. OwnerOK'
    BY <1>5 DEF CreateThread, OwnerOK, InstancesOwned, TypeOK
  <2>3. DeviceOK'
    BY <1>5 DEF CreateThread, DeviceOK, HasDevice, OwnerOK, InstancesOwned, TypeOK
  <2>4. ThreadOK'
    BY <1>5 DEF CreateThread, ThreadOK, HasThread, OwnerOK, InstancesOwned, TypeOK
  <2>5. LateOK'
    BY <1>5 DEF CreateThread, LateOK, ThreadOK, HasThread, OwnerOK, TypeOK, LateCap, InOpen
  <2>6. SignalOK'
    BY <1>5 DEF CreateThread, ThreadOK, HasThread, SignalOK, ThreadOK, HasThread, OwnerOK, InstancesOwned, TypeOK, InOpen, InClose
  <2> QED BY <2>1, <2>2, <2>3, <2>4, <2>5, <2>6
<1>6. ASSUME NEW i \in Instances, SetSignal(i) PROVE IndInv'
  <2>1. TypeOK'
    BY <1>6 DEF SetSignal, OwnerOK, InstancesOwned, TypeOK, TPcValues, InOpen, InClose, LateCap
  <2>2. OwnerOK'
    BY <1>6 DEF SetSignal, OwnerOK, InstancesOwned, TypeOK
  <2>3. DeviceOK'
    BY <1>6 DEF SetSignal, DeviceOK, HasDevice, OwnerOK, InstancesOwned, TypeOK
  <2>4. ThreadOK'
    BY <1>6 DEF SetSignal, ThreadOK, HasThread, OwnerOK, InstancesOwned, TypeOK
  <2>5. LateOK'
    BY <1>6 DEF SetSignal, LateOK, ThreadOK, HasThread, OwnerOK, TypeOK, LateCap, InOpen
  <2>6. SignalOK'
    BY <1>6 DEF SetSignal, ThreadOK, HasThread, SignalOK, ThreadOK, HasThread, OwnerOK, InstancesOwned, TypeOK, InOpen, InClose
  <2> QED BY <2>1, <2>2, <2>3, <2>4, <2>5, <2>6
<1>7. CASE Reset
  <2>1. TypeOK'
    BY <1>7 DEF Reset, OwnerOK, InstancesOwned, TypeOK, TPcValues, InOpen, InClose, LateCap
  <2>2. OwnerOK'
    BY <1>7 DEF Reset, OwnerOK, InstancesOwned, TypeOK
  <2>3. DeviceOK'
    BY <1>7 DEF Reset, DeviceOK, HasDevice, OwnerOK, InstancesOwned, TypeOK
  <2>4. ThreadOK'
    BY <1>7 DEF Reset, ThreadOK, HasThread, OwnerOK, InstancesOwned, TypeOK
  <2>5. LateOK'
    BY <1>7 DEF Reset, LateOK, ThreadOK, HasThread, OwnerOK, TypeOK, LateCap, InOpen
  <2>6. SignalOK'
    BY <1>7 DEF Reset, ThreadOK, HasThread, SignalOK, ThreadOK, HasThread, OwnerOK, InstancesOwned, TypeOK, InOpen, InClose
  <2> QED BY <2>1, <2>2, <2>3, <2>4, <2>5, <2>6
<1>8. CASE Join
  <2>1. TypeOK'
    BY <1>8 DEF Join, Joinable, OwnerOK, InstancesOwned, TypeOK, TPcValues, InOpen, InClose, LateCap
  <2>2. OwnerOK'
    BY <1>8 DEF Join, Joinable, OwnerOK, InstancesOwned, TypeOK
  <2>3. DeviceOK'
    BY <1>8 DEF Join, Joinable, DeviceOK, HasDevice, OwnerOK, InstancesOwned, TypeOK
  <2>4. ThreadOK'
    BY <1>8 DEF Join, Joinable, ThreadOK, HasThread, OwnerOK, InstancesOwned, TypeOK
  <2>5. LateOK'
    BY <1>8 DEF Join, Joinable, LateOK, ThreadOK, HasThread, OwnerOK, TypeOK, LateCap, InOpen
  <2>6. SignalOK'
    BY <1>8 DEF Join, Joinable, ThreadOK, HasThread, SignalOK, ThreadOK, HasThread, OwnerOK, InstancesOwned, TypeOK, InOpen, InClose
  <2> QED BY <2>1, <2>2, <2>3, <2>4, <2>5, <2>6
<1>9. CASE CloseDevice
  <2>1. TypeOK'
    BY <1>9 DEF CloseDevice, OwnerOK, InstancesOwned, TypeOK, TPcValues, InOpen, InClose, LateCap
  <2>2. OwnerOK'
    BY <1>9 DEF CloseDevice, OwnerOK, InstancesOwned, TypeOK
  <2>3. DeviceOK'
    BY <1>9 DEF CloseDevice, DeviceOK, HasDevice, OwnerOK, InstancesOwned, TypeOK
  <2>4. ThreadOK'
    BY <1>9 DEF CloseDevice, ThreadOK, HasThread, OwnerOK, InstancesOwned, TypeOK
  <2>5. LateOK'
    BY <1>9 DEF CloseDevice, LateOK, ThreadOK, HasThread, OwnerOK, TypeOK, LateCap, InOpen
  <2>6. SignalOK'
    BY <1>9 DEF CloseDevice, ThreadOK, HasThread, SignalOK, ThreadOK, HasThread, OwnerOK, InstancesOwned, TypeOK, InOpen, InClose
  <2> QED BY <2>1, <2>2, <2>3, <2>4, <2>5, <2>6
<1>10. CASE Free
  <2>1. TypeOK'
    BY <1>10 DEF Free, OwnerOK, InstancesOwned, TypeOK, TPcValues, InOpen, InClose, LateCap
  <2>2. OwnerOK'
    BY <1>10 DEF Free, OwnerOK, InstancesOwned, TypeOK
  <2>3. DeviceOK'
    BY <1>10 DEF Free, DeviceOK, HasDevice, OwnerOK, InstancesOwned, TypeOK
  <2>4. ThreadOK'
    BY <1>10 DEF Free, ThreadOK, HasThread, OwnerOK, InstancesOwned, TypeOK
  <2>5. LateOK'
    BY <1>10 DEF Free, LateOK, ThreadOK, HasThread, OwnerOK, TypeOK, LateCap, InOpen
  <2>6. SignalOK'
    BY <1>10 DEF Free, ThreadOK, HasThread, SignalOK, ThreadOK, HasThread, OwnerOK, InstancesOwned, TypeOK, InOpen, InClose
  <2> QED BY <2>1, <2>2, <2>3, <2>4, <2>5, <2>6
<1>11. ASSUME NEW t \in Threads, Fill(t) PROVE IndInv'
  <2>1. TypeOK'
    BY <1>11 DEF Fill, OwnerOK, InstancesOwned, TypeOK, TPcValues, InOpen, InClose, LateCap
  <2>2. OwnerOK'
    BY <1>11 DEF Fill, OwnerOK, InstancesOwned, TypeOK
  <2>3. DeviceOK'
    BY <1>11 DEF Fill, DeviceOK, HasDevice, OwnerOK, InstancesOwned, TypeOK
  <2>4. ThreadOK'
    BY <1>11 DEF Fill, ThreadOK, HasThread, OwnerOK, InstancesOwned, TypeOK
  <2>5. LateOK'
    BY <1>11 DEF Fill, LateOK, ThreadOK, HasThread, OwnerOK, TypeOK, LateCap, InOpen
  <2>6. SignalOK'
    BY <1>11 DEF Fill, ThreadOK, HasThread, SignalOK, ThreadOK, HasThread, OwnerOK, InstancesOwned, TypeOK, InOpen, InClose
  <2> QED BY <2>1, <2>2, <2>3, <2>4, <2>5, <2>6
<1>12. ASSUME NEW t \in Threads, EnterWrite(t) PROVE IndInv'
  <2>1. TypeOK'
    <3>1. ptr[t] \in Instances /\ late[ptr[t]] \in {0, 1}
      BY <1>12 DEF EnterWrite, ThreadOK, LateOK, TypeOK
    <3> QED BY <1>12, <3>1 DEF EnterWrite, LateCap, TypeOK, TPcValues, InOpen, InClose
  <2>2. OwnerOK'
    BY <1>12 DEF EnterWrite, LateCap, OwnerOK, InstancesOwned, TypeOK
  <2>3. DeviceOK'
    BY <1>12 DEF EnterWrite, LateCap, DeviceOK, HasDevice, OwnerOK, InstancesOwned, TypeOK
  <2>4. ThreadOK'
    BY <1>12 DEF EnterWrite, LateCap, ThreadOK, HasThread, OwnerOK, InstancesOwned, TypeOK
  <2>5. LateOK'
    BY <1>12 DEF EnterWrite, LateCap, LateOK, ThreadOK, HasThread, OwnerOK, TypeOK, LateCap, InOpen
  <2>6. SignalOK'
    BY <1>12 DEF EnterWrite, LateCap, ThreadOK, HasThread, SignalOK, ThreadOK, HasThread, OwnerOK, InstancesOwned, TypeOK, InOpen, InClose
  <2> QED BY <2>1, <2>2, <2>3, <2>4, <2>5, <2>6
<1>13. ASSUME NEW t \in Threads, NEW n \in -1..BufLen, WriteReturns(t, n) PROVE IndInv'
  <2>1. TypeOK'
    BY <1>13 DEF WriteReturns, WriteCounts, OwnerOK, InstancesOwned, TypeOK, TPcValues, InOpen, InClose, LateCap
  <2>2. OwnerOK'
    BY <1>13 DEF WriteReturns, WriteCounts, OwnerOK, InstancesOwned, TypeOK
  <2>3. DeviceOK'
    BY <1>13 DEF WriteReturns, WriteCounts, DeviceOK, HasDevice, OwnerOK, InstancesOwned, TypeOK
  <2>4. ThreadOK'
    BY <1>13 DEF WriteReturns, WriteCounts, ThreadOK, HasThread, OwnerOK, InstancesOwned, TypeOK
  <2>5. LateOK'
    BY <1>13 DEF WriteReturns, WriteCounts, LateOK, ThreadOK, HasThread, OwnerOK, TypeOK, LateCap, InOpen
  <2>6. SignalOK'
    BY <1>13 DEF WriteReturns, WriteCounts, ThreadOK, HasThread, SignalOK, ThreadOK, HasThread, OwnerOK, InstancesOwned, TypeOK, InOpen, InClose
  <2> QED BY <2>1, <2>2, <2>3, <2>4, <2>5, <2>6
<1>14. ASSUME NEW t \in Threads, CheckSignal(t) PROVE IndInv'
  <2>1. TypeOK'
    BY <1>14 DEF CheckSignal, Stops, OwnerOK, InstancesOwned, TypeOK, TPcValues, InOpen, InClose, LateCap
  <2>2. OwnerOK'
    BY <1>14 DEF CheckSignal, Stops, OwnerOK, InstancesOwned, TypeOK
  <2>3. DeviceOK'
    BY <1>14 DEF CheckSignal, Stops, DeviceOK, HasDevice, OwnerOK, InstancesOwned, TypeOK
  <2>4. ThreadOK'
    BY <1>14 DEF CheckSignal, Stops, ThreadOK, HasThread, OwnerOK, InstancesOwned, TypeOK
  <2>5. LateOK'
    BY <1>14 DEF CheckSignal, Stops, LateOK, ThreadOK, HasThread, OwnerOK, TypeOK, LateCap, InOpen
  <2>6. SignalOK'
    BY <1>14 DEF CheckSignal, Stops, ThreadOK, HasThread, SignalOK, ThreadOK, HasThread, OwnerOK, InstancesOwned, TypeOK, InOpen, InClose
  <2> QED BY <2>1, <2>2, <2>3, <2>4, <2>5, <2>6
<1>15. CASE UNCHANGED vars
  <2>1. TypeOK'
    BY <1>15 DEF vars, OwnerOK, InstancesOwned, TypeOK, TPcValues, InOpen, InClose, LateCap
  <2>2. OwnerOK'
    BY <1>15 DEF vars, OwnerOK, InstancesOwned, TypeOK
  <2>3. DeviceOK'
    BY <1>15 DEF vars, DeviceOK, HasDevice, OwnerOK, InstancesOwned, TypeOK
  <2>4. ThreadOK'
    BY <1>15 DEF vars, ThreadOK, HasThread, OwnerOK, InstancesOwned, TypeOK
  <2>5. LateOK'
    BY <1>15 DEF vars, LateOK, ThreadOK, HasThread, OwnerOK, TypeOK, LateCap, InOpen
  <2>6. SignalOK'
    BY <1>15 DEF vars, ThreadOK, HasThread, SignalOK, ThreadOK, HasThread, OwnerOK, InstancesOwned, TypeOK, InOpen, InClose
  <2> QED BY <2>1, <2>2, <2>3, <2>4, <2>5, <2>6
<1> QED BY <1>1, <1>2, <1>3, <1>4, <1>5, <1>6, <1>7, <1>8, <1>9, <1>10, <1>11, <1>12, <1>13, <1>14, <1>15
    DEF Next, OpenSteps, CloseSteps, SoundThread

\* The invariant holds in every reachable state.
THEOREM SpecIndInv == Spec => []IndInv
BY InitIndInv, NextIndInv, PTL DEF Spec

\* The state has its types.
THEOREM SpecTypeOK == Spec => []TypeOK
<1>1. IndInv => TypeOK
  BY DEF IndInv
<1> QED BY <1>1, SpecIndInv, PTL

\* Close never frees an instance, nor closes a descriptor, that a sound thread still uses.
THEOREM SpecThreadOwnsInstance == Spec => []ThreadOwnsInstance
<1>1. IndInv => ThreadOwnsInstance
  <2> SUFFICES ASSUME IndInv, NEW t \in Threads, Running(t)
               PROVE  /\ ptr[t] \in alloc /\ thread[ptr[t]] = t
                      /\ oss_fd[ptr[t]] \in fds
                      /\ \A j \in alloc \ {ptr[t]} : oss_fd[j] # oss_fd[ptr[t]]
    BY DEF ThreadOwnsInstance
  <2>1. ptr[t] \in alloc /\ HasThread(ptr[t]) /\ thread[ptr[t]] = t
    BY DEF IndInv, ThreadOK, Running
  <2> QED BY <2>1 DEF IndInv, DeviceOK, HasThread, HasDevice
<1> QED BY <1>1, SpecIndInv, PTL

\* No instance is lost and none is freed twice.
THEOREM SpecInstancesOwned == Spec => []InstancesOwned
<1>1. IndInv => InstancesOwned
  BY DEF IndInv, OwnerOK
<1> QED BY <1>1, SpecIndInv, PTL

\* The thread of an instance plays until Close tells it to stop, and Close waits for a thread
\* that was told and is there to be joined.
THEOREM SpecStopsForClose == Spec => []StopsForClose
<1>1. IndInv => StopsForClose
  BY DEF IndInv, TypeOK, OwnerOK, InstancesOwned, SignalOK, HasThread, InClose, StopsForClose,
         Running
<1> QED BY <1>1, SpecIndInv, PTL

\* No instance is freed while a thread uses it, none is lost, and none falls silent.
THEOREM SpecInstancesSound == Spec => []InstancesSound
BY SpecTypeOK, SpecThreadOwnsInstance, SpecInstancesOwned, SpecStopsForClose, PTL
DEF InstancesSound

\* After Close has set signal the thread starts one write at most.
THEOREM SpecAtMostOneLateWrite == Spec => []AtMostOneLateWrite
<1>1. IndInv => AtMostOneLateWrite
  BY DEF IndInv, LateOK, AtMostOneLateWrite
<1> QED BY <1>1, SpecIndInv, PTL
=============================================================================
