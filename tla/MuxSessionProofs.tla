-------------------------- MODULE MuxSessionProofs --------------------------
(***************************************************************************)
(* Proofs about MuxSession, for any number of processes.                   *)
(***************************************************************************)
EXTENDS MuxSession, TLAPS

\* The fields of the struct at each step: what close relies on.
StructInv(p) ==
  /\ handle[p] <= plugs
  /\ pc[p] = "idle" => ~ ctx[p] /\ handle[p] = 0
  /\ pc[p] \in {"idle", "find", "query", "detach"} => ~ claimed[p] /\ ~ detached[p]
  /\ pc[p] = "claim" => ~ claimed[p]
  /\ detached[p] => HasDriver

\* The kernel agrees with the struct about who has the interface.  A process
\* whose release failed has it until its handle is closed, and has lost the
\* driver it took away.
OwnerInv(p) ==
  /\ owner = p => claimed[p] /\ Live(p)
  /\ owner = p => pc[p] \in {"open", "release"} \/ (Faults /\ pc[p] \in {"attach", "drop"})
  /\ owner = p /\ pc[p] = "attach" /\ detached[p] => mishaps # {}
  /\ pc[p] \in {"open", "release"} /\ claimed[p] /\ Live(p) => owner = p
  /\ pc[p] = "open" => claimed[p]

\* Nothing is bound to an interface that is claimed, or where no driver is.
KernelInv ==
  /\ bus \in {0, plugs}
  /\ owner # Nobody => ~ driver
  /\ driver => HasDriver

\* A process that opens the device without a rival is alone, and finds the
\* driver as it was when it asked.
AloneInv(p) ==
  /\ pc[p] \in {"find", "query", "detach", "claim"} /\ ~ rival[p] =>
       \A q \in Procs : q # p => pc[q] = "idle"
  /\ pc[p] = "detach" /\ ~ rival[p] /\ Live(p) => driver
  /\ pc[p] = "claim" /\ ~ rival[p] /\ Live(p) /\ option[p] /\ ~ Faults => ~ driver

IInv ==
  /\ TypeOK
  /\ KernelInv
  /\ \A p \in Procs : StructInv(p) /\ OwnerInv(p)
  /\ OneDebtor
  /\ DriverOwed
  /\ \A p \in Procs : AloneInv(p)
  /\ ErrorHasReason

-----------------------------------------------------------------------------
\* A step keeps the types.
LEMMA NextType ==
  ASSUME IInv, [Next]_vars
  PROVE  TypeOK'
<1> USE SessionAssumption DEF IInv, TypeOK, Steps, OpenResults, FaultErrors, map_libusb_error
<1>1. ASSUME NEW p \in Procs, OpenStart(p) PROVE TypeOK'
  <2>1. result' \in [Procs -> OpenResults]
    BY <1>1 DEF OpenStart
  <2>2. rival' \in [Procs -> BOOLEAN]
    BY <1>1 DEF OpenStart
  <2>3. option' \in [Procs -> BOOLEAN]
    BY <1>1 DEF OpenStart
  <2>4. pc' \in [Procs -> Steps] /\ ctx' \in [Procs -> BOOLEAN]
    BY <1>1 DEF OpenStart, GoTo
  <2> QED
    BY <1>1, <2>1, <2>2, <2>3, <2>4 DEF OpenStart, kernelVars
<1>2. ASSUME NEW p \in Procs, FindDevice(p) PROVE TypeOK'
  BY <1>2 DEF FindDevice, At, GoTo, Fail, kernelVars
<1>3. ASSUME NEW p \in Procs, QueryDriver(p) PROVE TypeOK'
  BY <1>3 DEF QueryDriver, At, GoTo, kernelVars
<1>4. ASSUME NEW p \in Procs, DetachDriver(p) PROVE TypeOK'
  BY <1>4 DEF DetachDriver, At, GoTo, Fail, DetachErrors, map_libusb_error, FaultErrors
<1>5. ASSUME NEW p \in Procs, ClaimInterface(p) PROVE TypeOK'
  BY <1>5 DEF ClaimInterface, At, GoTo, Fail, ClaimErrors, map_libusb_error, FaultErrors
<1>6. ASSUME NEW p \in Procs, CloseStart(p) PROVE TypeOK'
  BY <1>6 DEF CloseStart, At, GoTo, kernelVars
<1>7. ASSUME NEW p \in Procs, ReleaseInterface(p) PROVE TypeOK'
  BY <1>7 DEF ReleaseInterface, At, GoTo
<1>8. ASSUME NEW p \in Procs, AttachDriver(p) PROVE TypeOK'
  BY <1>8 DEF AttachDriver, At, GoTo
<1>9. ASSUME NEW p \in Procs, DropHandle(p) PROVE TypeOK'
  BY <1>9 DEF DropHandle, At, GoTo, Gone
<1>10. ASSUME NEW p \in Procs, Crash(p) PROVE TypeOK'
  BY <1>10 DEF Crash, At, GoTo, Gone
<1>11. CASE Unplug
  BY <1>11 DEF Unplug, structVars
<1>12. CASE Plug
  BY <1>12 DEF Plug, structVars
<1>13. CASE UNCHANGED vars
  BY <1>13 DEF vars, structVars, kernelVars
<1> QED
  BY <1>1, <1>2, <1>3, <1>4, <1>5, <1>6, <1>7, <1>8, <1>9, <1>10, <1>11, <1>12, <1>13 DEF Next, Opening, Closing

\* A step keeps the kernel's side.
LEMMA NextKernel ==
  ASSUME IInv, [Next]_vars
  PROVE  KernelInv'
<1> USE SessionAssumption DEF IInv, TypeOK, KernelInv, StructInv, OwnerInv, Live, OneDebtor, Owes
<1>1. ASSUME NEW p \in Procs, OpenStart(p) PROVE KernelInv'
  BY <1>1 DEF OpenStart, At, GoTo, kernelVars
<1>2. ASSUME NEW p \in Procs, FindDevice(p) PROVE KernelInv'
  BY <1>2 DEF FindDevice, At, GoTo, Fail, kernelVars
<1>3. ASSUME NEW p \in Procs, QueryDriver(p) PROVE KernelInv'
  BY <1>3 DEF QueryDriver, At, GoTo, kernelVars
<1>4. ASSUME NEW p \in Procs, DetachDriver(p) PROVE KernelInv'
  BY <1>4 DEF DetachDriver, At, GoTo, Fail, DetachErrors, map_libusb_error, FaultErrors
<1>5. ASSUME NEW p \in Procs, ClaimInterface(p) PROVE KernelInv'
  BY <1>5 DEF ClaimInterface, At, GoTo, Fail, ClaimErrors, map_libusb_error, FaultErrors
<1>6. ASSUME NEW p \in Procs, CloseStart(p) PROVE KernelInv'
  BY <1>6 DEF CloseStart, At, GoTo, kernelVars
<1>7. ASSUME NEW p \in Procs, ReleaseInterface(p) PROVE KernelInv'
  BY <1>7 DEF ReleaseInterface, At, GoTo
<1>8. ASSUME NEW p \in Procs, AttachDriver(p) PROVE KernelInv'
  BY <1>8 DEF AttachDriver, At, GoTo
<1>9. ASSUME NEW p \in Procs, DropHandle(p) PROVE KernelInv'
  BY <1>9 DEF DropHandle, At, GoTo, Gone
<1>10. ASSUME NEW p \in Procs, Crash(p) PROVE KernelInv'
  BY <1>10 DEF Crash, At, GoTo, Gone
<1>11. CASE Unplug
  BY <1>11 DEF Unplug, structVars
<1>12. CASE Plug
  BY <1>12 DEF Plug, structVars
<1>13. CASE UNCHANGED vars
  BY <1>13 DEF vars, structVars, kernelVars
<1> QED
  BY <1>1, <1>2, <1>3, <1>4, <1>5, <1>6, <1>7, <1>8, <1>9, <1>10, <1>11, <1>12, <1>13 DEF Next, Opening, Closing

\* A step keeps the fields in order.
LEMMA NextStruct ==
  ASSUME IInv, [Next]_vars
  PROVE  (\A q \in Procs : StructInv(q))'
<1> USE SessionAssumption DEF IInv, TypeOK, KernelInv, StructInv, Live
<1>1. ASSUME NEW p \in Procs, OpenStart(p) PROVE (\A q \in Procs : StructInv(q))'
  BY <1>1 DEF OpenStart, At, GoTo, kernelVars
<1>2. ASSUME NEW p \in Procs, FindDevice(p) PROVE (\A q \in Procs : StructInv(q))'
  BY <1>2 DEF FindDevice, At, GoTo, Fail, kernelVars
<1>3. ASSUME NEW p \in Procs, QueryDriver(p) PROVE (\A q \in Procs : StructInv(q))'
  BY <1>3 DEF QueryDriver, At, GoTo, kernelVars
<1>4. ASSUME NEW p \in Procs, DetachDriver(p) PROVE (\A q \in Procs : StructInv(q))'
  BY <1>4 DEF DetachDriver, At, GoTo, Fail, DetachErrors, map_libusb_error, FaultErrors
<1>5. ASSUME NEW p \in Procs, ClaimInterface(p) PROVE (\A q \in Procs : StructInv(q))'
  BY <1>5 DEF ClaimInterface, At, GoTo, Fail, ClaimErrors, map_libusb_error, FaultErrors
<1>6. ASSUME NEW p \in Procs, CloseStart(p) PROVE (\A q \in Procs : StructInv(q))'
  BY <1>6 DEF CloseStart, At, GoTo, kernelVars
<1>7. ASSUME NEW p \in Procs, ReleaseInterface(p) PROVE (\A q \in Procs : StructInv(q))'
  BY <1>7 DEF ReleaseInterface, At, GoTo
<1>8. ASSUME NEW p \in Procs, AttachDriver(p) PROVE (\A q \in Procs : StructInv(q))'
  BY <1>8 DEF AttachDriver, At, GoTo
<1>9. ASSUME NEW p \in Procs, DropHandle(p) PROVE (\A q \in Procs : StructInv(q))'
  BY <1>9 DEF DropHandle, At, GoTo, Gone
<1>10. ASSUME NEW p \in Procs, Crash(p) PROVE (\A q \in Procs : StructInv(q))'
  BY <1>10 DEF Crash, At, GoTo, Gone
<1>11. CASE Unplug
  BY <1>11 DEF Unplug, structVars
<1>12. CASE Plug
  BY <1>12 DEF Plug, structVars
<1>13. CASE UNCHANGED vars
  BY <1>13 DEF vars, structVars, kernelVars
<1> QED
  BY <1>1, <1>2, <1>3, <1>4, <1>5, <1>6, <1>7, <1>8, <1>9, <1>10, <1>11, <1>12, <1>13 DEF Next, Opening, Closing

\* A step keeps struct and kernel in agreement.
LEMMA NextOwner ==
  ASSUME IInv, [Next]_vars
  PROVE  (\A q \in Procs : OwnerInv(q))'
<1> USE SessionAssumption DEF IInv, TypeOK, KernelInv, StructInv, OwnerInv, Live
<1>1. ASSUME NEW p \in Procs, OpenStart(p) PROVE (\A q \in Procs : OwnerInv(q))'
  BY <1>1 DEF OpenStart, At, GoTo, kernelVars
<1>2. ASSUME NEW p \in Procs, FindDevice(p) PROVE (\A q \in Procs : OwnerInv(q))'
  BY <1>2 DEF FindDevice, At, GoTo, Fail, kernelVars
<1>3. ASSUME NEW p \in Procs, QueryDriver(p) PROVE (\A q \in Procs : OwnerInv(q))'
  BY <1>3 DEF QueryDriver, At, GoTo, kernelVars
<1>4. ASSUME NEW p \in Procs, DetachDriver(p) PROVE (\A q \in Procs : OwnerInv(q))'
  BY <1>4 DEF DetachDriver, At, GoTo, Fail, DetachErrors, map_libusb_error, FaultErrors
<1>5. ASSUME NEW p \in Procs, ClaimInterface(p) PROVE (\A q \in Procs : OwnerInv(q))'
  BY <1>5 DEF ClaimInterface, At, GoTo, Fail, ClaimErrors, map_libusb_error, FaultErrors
<1>6. ASSUME NEW p \in Procs, CloseStart(p) PROVE (\A q \in Procs : OwnerInv(q))'
  BY <1>6 DEF CloseStart, At, GoTo, kernelVars
<1>7. ASSUME NEW p \in Procs, ReleaseInterface(p) PROVE (\A q \in Procs : OwnerInv(q))'
  BY <1>7 DEF ReleaseInterface, At, GoTo, Owes
<1>8. ASSUME NEW p \in Procs, AttachDriver(p) PROVE (\A q \in Procs : OwnerInv(q))'
  BY <1>8 DEF AttachDriver, At, GoTo
<1>9. ASSUME NEW p \in Procs, DropHandle(p) PROVE (\A q \in Procs : OwnerInv(q))'
  BY <1>9 DEF DropHandle, At, GoTo, Gone
<1>10. ASSUME NEW p \in Procs, Crash(p) PROVE (\A q \in Procs : OwnerInv(q))'
  BY <1>10 DEF Crash, At, GoTo, Gone
<1>11. CASE Unplug
  BY <1>11 DEF Unplug, structVars
<1>12. CASE Plug
  BY <1>12 DEF Plug, structVars
<1>13. CASE UNCHANGED vars
  BY <1>13 DEF vars, structVars, kernelVars
<1> QED
  BY <1>1, <1>2, <1>3, <1>4, <1>5, <1>6, <1>7, <1>8, <1>9, <1>10, <1>11, <1>12, <1>13 DEF Next, Opening, Closing

\* A step leaves at most one process that owes the driver.
LEMMA NextDebtor ==
  ASSUME IInv, [Next]_vars
  PROVE  OneDebtor'
<1> USE SessionAssumption DEF IInv, TypeOK, KernelInv, StructInv, OneDebtor, Owes, Live
<1>1. ASSUME NEW p \in Procs, OpenStart(p) PROVE OneDebtor'
  BY <1>1 DEF OpenStart, At, GoTo, kernelVars
<1>2. ASSUME NEW p \in Procs, FindDevice(p) PROVE OneDebtor'
  BY <1>2 DEF FindDevice, At, GoTo, Fail, kernelVars
<1>3. ASSUME NEW p \in Procs, QueryDriver(p) PROVE OneDebtor'
  BY <1>3 DEF QueryDriver, At, GoTo, kernelVars
<1>4. ASSUME NEW p \in Procs, DetachDriver(p) PROVE OneDebtor'
  BY <1>4 DEF DetachDriver, At, GoTo, Fail, DetachErrors, map_libusb_error, FaultErrors
<1>5. ASSUME NEW p \in Procs, ClaimInterface(p) PROVE OneDebtor'
  BY <1>5 DEF ClaimInterface, At, GoTo, Fail, ClaimErrors, map_libusb_error, FaultErrors
<1>6. ASSUME NEW p \in Procs, CloseStart(p) PROVE OneDebtor'
  BY <1>6 DEF CloseStart, At, GoTo, kernelVars
<1>7. ASSUME NEW p \in Procs, ReleaseInterface(p) PROVE OneDebtor'
  BY <1>7 DEF ReleaseInterface, At, GoTo
<1>8. ASSUME NEW p \in Procs, AttachDriver(p) PROVE OneDebtor'
  BY <1>8 DEF AttachDriver, At, GoTo
<1>9. ASSUME NEW p \in Procs, DropHandle(p) PROVE OneDebtor'
  BY <1>9 DEF DropHandle, At, GoTo, Gone
<1>10. ASSUME NEW p \in Procs, Crash(p) PROVE OneDebtor'
  BY <1>10 DEF Crash, At, GoTo, Gone
<1>11. CASE Unplug
  BY <1>11 DEF Unplug, structVars
<1>12. CASE Plug
  BY <1>12 DEF Plug, structVars
<1>13. CASE UNCHANGED vars
  BY <1>13 DEF vars, structVars, kernelVars
<1> QED
  BY <1>1, <1>2, <1>3, <1>4, <1>5, <1>6, <1>7, <1>8, <1>9, <1>10, <1>11, <1>12, <1>13 DEF Next, Opening, Closing

\* A missing driver is still accounted for.
LEMMA NextOwed ==
  ASSUME IInv, [Next]_vars
  PROVE  DriverOwed'
<1> USE SessionAssumption DEF IInv, TypeOK, KernelInv, StructInv, OwnerInv, DriverOwed, Owes, Live
<1>1. ASSUME NEW p \in Procs, OpenStart(p) PROVE DriverOwed'
  BY <1>1 DEF OpenStart, At, GoTo, kernelVars
<1>2. ASSUME NEW p \in Procs, FindDevice(p) PROVE DriverOwed'
  BY <1>2 DEF FindDevice, At, GoTo, Fail, kernelVars
<1>3. ASSUME NEW p \in Procs, QueryDriver(p) PROVE DriverOwed'
  BY <1>3 DEF QueryDriver, At, GoTo, kernelVars
<1>4. ASSUME NEW p \in Procs, DetachDriver(p) PROVE DriverOwed'
  BY <1>4 DEF DetachDriver, At, GoTo, Fail, DetachErrors, map_libusb_error, FaultErrors
<1>5. ASSUME NEW p \in Procs, ClaimInterface(p) PROVE DriverOwed'
  BY <1>5 DEF ClaimInterface, At, GoTo, Fail, ClaimErrors, map_libusb_error, FaultErrors
<1>6. ASSUME NEW p \in Procs, CloseStart(p) PROVE DriverOwed'
  BY <1>6 DEF CloseStart, At, GoTo, kernelVars
<1>7. ASSUME NEW p \in Procs, ReleaseInterface(p) PROVE DriverOwed'
  BY <1>7 DEF ReleaseInterface, At, GoTo
<1>8. ASSUME NEW p \in Procs, AttachDriver(p) PROVE DriverOwed'
  BY <1>8 DEF AttachDriver, At, GoTo
<1>9. ASSUME NEW p \in Procs, DropHandle(p) PROVE DriverOwed'
  BY <1>9 DEF DropHandle, At, GoTo, Gone
<1>10. ASSUME NEW p \in Procs, Crash(p) PROVE DriverOwed'
  BY <1>10 DEF Crash, At, GoTo, Gone
<1>11. CASE Unplug
  BY <1>11 DEF Unplug, structVars
<1>12. CASE Plug
  BY <1>12 DEF Plug, structVars
<1>13. CASE UNCHANGED vars
  BY <1>13 DEF vars, structVars, kernelVars
<1> QED
  BY <1>1, <1>2, <1>3, <1>4, <1>5, <1>6, <1>7, <1>8, <1>9, <1>10, <1>11, <1>12, <1>13 DEF Next, Opening, Closing

\* A process without a rival stays alone.
LEMMA NextAlone ==
  ASSUME IInv, [Next]_vars
  PROVE  (\A q \in Procs : AloneInv(q))'
<1> USE SessionAssumption DEF IInv, TypeOK, KernelInv, StructInv, OwnerInv, AloneInv, Live
<1>1. ASSUME NEW p \in Procs, OpenStart(p) PROVE (\A q \in Procs : AloneInv(q))'
  <2> SUFFICES ASSUME NEW q \in Procs PROVE AloneInv(q)'
    OBVIOUS
  <2>1. CASE q = p
    <3>1. rival'[p] <=> \E r \in Procs \ {p} : pc[r] # "idle"
      BY <1>1 DEF OpenStart
    <3>2. \A r \in Procs : r # p => pc'[r] = pc[r]
      BY <1>1 DEF OpenStart, GoTo
    <3>3. pc'[p] \notin {"detach", "claim"}
      BY <1>1 DEF OpenStart, At, GoTo
    <3> QED
      BY <2>1, <3>1, <3>2, <3>3
  <2>2. CASE q # p
    <3>1. pc'[q] = pc[q] /\ (pc[q] # "idle" => rival'[q])
      BY <1>1, <2>2 DEF OpenStart, GoTo
    <3> QED
      BY <3>1
  <2> QED
    BY <2>1, <2>2
<1>2. ASSUME NEW p \in Procs, FindDevice(p) PROVE (\A q \in Procs : AloneInv(q))'
  BY <1>2 DEF FindDevice, At, GoTo, Fail, kernelVars
<1>3. ASSUME NEW p \in Procs, QueryDriver(p) PROVE (\A q \in Procs : AloneInv(q))'
  BY <1>3 DEF QueryDriver, At, GoTo, kernelVars
<1>4. ASSUME NEW p \in Procs, DetachDriver(p) PROVE (\A q \in Procs : AloneInv(q))'
  BY <1>4 DEF DetachDriver, At, GoTo, Fail, DetachErrors, map_libusb_error, FaultErrors
<1>5. ASSUME NEW p \in Procs, ClaimInterface(p) PROVE (\A q \in Procs : AloneInv(q))'
  BY <1>5 DEF ClaimInterface, At, GoTo, Fail, ClaimErrors, map_libusb_error, FaultErrors
<1>6. ASSUME NEW p \in Procs, CloseStart(p) PROVE (\A q \in Procs : AloneInv(q))'
  BY <1>6 DEF CloseStart, At, GoTo, kernelVars
<1>7. ASSUME NEW p \in Procs, ReleaseInterface(p) PROVE (\A q \in Procs : AloneInv(q))'
  BY <1>7 DEF ReleaseInterface, At, GoTo
<1>8. ASSUME NEW p \in Procs, AttachDriver(p) PROVE (\A q \in Procs : AloneInv(q))'
  BY <1>8 DEF AttachDriver, At, GoTo
<1>9. ASSUME NEW p \in Procs, DropHandle(p) PROVE (\A q \in Procs : AloneInv(q))'
  BY <1>9 DEF DropHandle, At, GoTo, Gone
<1>10. ASSUME NEW p \in Procs, Crash(p) PROVE (\A q \in Procs : AloneInv(q))'
  BY <1>10 DEF Crash, At, GoTo, Gone
<1>11. CASE Unplug
  BY <1>11 DEF Unplug, structVars
<1>12. CASE Plug
  BY <1>12 DEF Plug, structVars
<1>13. CASE UNCHANGED vars
  BY <1>13 DEF vars, structVars, kernelVars
<1> QED
  BY <1>1, <1>2, <1>3, <1>4, <1>5, <1>6, <1>7, <1>8, <1>9, <1>10, <1>11, <1>12, <1>13 DEF Next, Opening, Closing

\* An open that fails still has a reason.
LEMMA NextReason ==
  ASSUME IInv, [Next]_vars
  PROVE  ErrorHasReason'
<1> USE SessionAssumption DEF IInv, TypeOK, KernelInv, StructInv, OwnerInv, AloneInv, ErrorHasReason, Live
<1>1. ASSUME NEW p \in Procs, OpenStart(p) PROVE ErrorHasReason'
  BY <1>1 DEF OpenStart, At, GoTo, kernelVars
<1>2. ASSUME NEW p \in Procs, FindDevice(p) PROVE ErrorHasReason'
  BY <1>2 DEF FindDevice, At, GoTo, Fail, kernelVars
<1>3. ASSUME NEW p \in Procs, QueryDriver(p) PROVE ErrorHasReason'
  BY <1>3 DEF QueryDriver, At, GoTo, kernelVars
<1>4. ASSUME NEW p \in Procs, DetachDriver(p) PROVE ErrorHasReason'
  BY <1>4 DEF DetachDriver, At, GoTo, Fail, DetachErrors, map_libusb_error, FaultErrors
<1>5. ASSUME NEW p \in Procs, ClaimInterface(p) PROVE ErrorHasReason'
  BY <1>5 DEF ClaimInterface, At, GoTo, Fail, ClaimErrors, map_libusb_error, FaultErrors
<1>6. ASSUME NEW p \in Procs, CloseStart(p) PROVE ErrorHasReason'
  BY <1>6 DEF CloseStart, At, GoTo, kernelVars
<1>7. ASSUME NEW p \in Procs, ReleaseInterface(p) PROVE ErrorHasReason'
  BY <1>7 DEF ReleaseInterface, At, GoTo
<1>8. ASSUME NEW p \in Procs, AttachDriver(p) PROVE ErrorHasReason'
  BY <1>8 DEF AttachDriver, At, GoTo
<1>9. ASSUME NEW p \in Procs, DropHandle(p) PROVE ErrorHasReason'
  BY <1>9 DEF DropHandle, At, GoTo, Gone
<1>10. ASSUME NEW p \in Procs, Crash(p) PROVE ErrorHasReason'
  BY <1>10 DEF Crash, At, GoTo, Gone
<1>11. CASE Unplug
  BY <1>11 DEF Unplug, structVars
<1>12. CASE Plug
  BY <1>12 DEF Plug, structVars
<1>13. CASE UNCHANGED vars
  BY <1>13 DEF vars, structVars, kernelVars
<1> QED
  BY <1>1, <1>2, <1>3, <1>4, <1>5, <1>6, <1>7, <1>8, <1>9, <1>10, <1>11, <1>12, <1>13 DEF Next, Opening, Closing

-----------------------------------------------------------------------------
\* The initial states satisfy the invariant.
LEMMA InitInv == Init => IInv
<1> SUFFICES ASSUME Init PROVE IInv
  OBVIOUS
<1> USE SessionAssumption DEF Init
<1>1. TypeOK
  <2>1. pc \in [Procs -> Steps] /\ result \in [Procs -> OpenResults]
    BY DEF Steps, OpenResults
  <2>2. handle \in [Procs -> 0 .. MaxPlug] /\ plugs \in 0 .. MaxPlug
    OBVIOUS
  <2>3. /\ ctx \in [Procs -> BOOLEAN] /\ claimed \in [Procs -> BOOLEAN]
        /\ detached \in [Procs -> BOOLEAN] /\ option \in [Procs -> BOOLEAN]
        /\ rival \in [Procs -> BOOLEAN]
    OBVIOUS
  <2> QED
    BY <2>1, <2>2, <2>3 DEF TypeOK
<1>2. KernelInv
  BY DEF KernelInv
<1>3. \A p \in Procs : StructInv(p) /\ OwnerInv(p)
  <2> SUFFICES ASSUME NEW p \in Procs PROVE StructInv(p) /\ OwnerInv(p)
    OBVIOUS
  <2>1. /\ pc[p] = "idle" /\ handle[p] = 0
        /\ ~ ctx[p] /\ ~ claimed[p] /\ ~ detached[p]
    OBVIOUS
  <2> QED
    BY <2>1 DEF StructInv, OwnerInv
<1>4. OneDebtor /\ DriverOwed
  BY DEF OneDebtor, DriverOwed, Owes
<1>5. (\A p \in Procs : AloneInv(p)) /\ ErrorHasReason
  BY DEF AloneInv, ErrorHasReason
<1> QED
  BY <1>1, <1>2, <1>3, <1>4, <1>5 DEF IInv

\* Every reachable state satisfies it.
THEOREM InductiveInvariant == Spec => []IInv
<1>1. IInv /\ [Next]_vars => IInv'
  BY NextType, NextKernel, NextStruct, NextOwner, NextDebtor, NextOwed, NextAlone,
     NextReason DEF IInv
<1> QED
  BY InitInv, <1>1, PTL DEF Spec

\* The variables of MuxSession keep their types.
THEOREM TypeCorrect == Spec => []TypeOK
<1>1. IInv => TypeOK
  BY DEF IInv
<1> QED
  BY InductiveInvariant, <1>1, PTL

\* ch32mux_open() gives back everything when it fails, ch32mux_close() always:
\* a process outside has no context, no handle and no claim.
THEOREM NothingIsLeaked == Spec => []NothingLeaks
<1>1. IInv => NothingLeaks
  BY DEF IInv, StructInv, OwnerInv, NothingLeaks
<1> QED
  BY InductiveInvariant, <1>1, PTL

\* A process that ch32mux_open() gave the device has it to itself.
THEOREM SessionsAreExclusive == Spec => []Exclusive
<1>1. IInv => Exclusive
  BY SessionAssumption DEF IInv, KernelInv, OwnerInv, Exclusive
<1> QED
  BY InductiveInvariant, <1>1, PTL

\* At most one process means to give the kernel driver back.
THEOREM AtMostOneDebtor == Spec => []OneDebtor
<1>1. IInv => OneDebtor
  BY DEF IInv
<1> QED
  BY InductiveInvariant, <1>1, PTL

\* A kernel driver that is missing is owed by a process, or was lost to a crash,
\* a rival claim, or a release or attach that failed: also when every libusb call
\* may fail.
THEOREM DriverIsAccountedFor == Spec => []DriverOwed
<1>1. IInv => DriverOwed
  BY DEF IInv
<1> QED
  BY InductiveInvariant, <1>1, PTL

\* An open that returns CH32MUX_ERR_IO had a rival, was told to leave the driver
\* alone, or met a fault; a crash of an earlier process is no reason.
THEOREM ErrorsHaveReasons == Spec => []ErrorHasReason
<1>1. IInv => ErrorHasReason
  BY DEF IInv
<1> QED
  BY InductiveInvariant, <1>1, PTL
=============================================================================
