----------------------------- MODULE MuxSession -----------------------------
(***************************************************************************)
(* ch32mux_open() and ch32mux_close(), step by step, by several processes  *)
(* at once.  They share one interface of one device: at most one process   *)
(* may claim it, and a kernel driver may be bound to it instead.           *)
(*                                                                         *)
(* libusb and the kernel are not part of the repository: a libusb call is  *)
(* one atomic step, and fails for the reasons given here or, with Faults,  *)
(* for none that shows.                                                    *)
(***************************************************************************)
EXTENDS Naturals

CONSTANTS
  Procs,         \* processes that use the library
  Nobody,        \* not a process
  DetachOptions, \* what callers put in options.detach_kernel_driver
  HasDriver,     \* the kernel binds a driver to the interface when it appears
  Faults,        \* libusb calls may fail for other reasons
  MaxPlug        \* bound: times the device is plugged in

ASSUME SessionAssumption ==
  /\ Nobody \notin Procs
  /\ DetachOptions \subseteq BOOLEAN
  /\ HasDriver \in BOOLEAN /\ Faults \in BOOLEAN
  /\ MaxPlug \in Nat

VARIABLES
  \* per process: struct ch32mux_device and where the call is
  pc,       \* "idle", the step of open or close to come, or "open"
  ctx,      \* device->ctx is initialised
  handle,   \* the plugging-in of the device that device->handle refers to; 0: NULL
  claimed,  \* device->claimed
  detached, \* device->detached_kernel_driver
  option,   \* options->detach_kernel_driver
  result,   \* what the last open returned
  \* the kernel
  bus,      \* the plugging-in now on the bus; 0: none
  plugs,    \* times it was plugged in
  driver,   \* the kernel driver is bound to the interface
  owner,    \* the process that has claimed it
  \* history, read by the properties only
  rival,    \* another process was in or between its calls during the last open
  mishaps   \* why the driver may be missing for good from the device on the bus

structVars == <<pc, ctx, handle, claimed, detached, option, result>>
kernelVars == <<bus, plugs, driver, owner>>
vars       == <<structVars, kernelVars, rival, mishaps>>

OpenResults == {"NONE", "OK", "ERR_NO_MEM", "ERR_NOT_FOUND", "ERR_TIMEOUT", "ERR_IO"}

\* What a libusb call may return for no visible reason.
FaultErrors == IF Faults THEN {"OTHER", "TIMEOUT"} ELSE {}

NotMapped(err) == err                                              \* mutant
\* map_libusb_error().
map_libusb_error(err) ==
  CASE err = "TIMEOUT"   -> "ERR_TIMEOUT"
    [] err = "NO_DEVICE" -> "ERR_NOT_FOUND"
    [] OTHER             -> "ERR_IO"

\* The handle refers to the device that is on the bus.
Live(p) == bus # 0 /\ handle[p] = bus

\* The process has unbound the driver and not yet tried to bind it again.
Owes(p) ==
  detached[p] /\ Live(p) /\ pc[p] \in {"claim", "open", "release", "attach"}

-----------------------------------------------------------------------------
(* ch32mux_open().                                                         *)

At(p, step) == pc[p] = step
GoTo(p, step) == pc' = [pc EXCEPT ![p] = step]

FailLeaking(p, res) ==                                             \* mutant
  GoTo(p, "idle") /\ result' = [result EXCEPT ![p] = res]
\* ch32mux_close() and return the error.
Fail(p, res) == GoTo(p, "release") /\ result' = [result EXCEPT ![p] = res]

\* Memory and a libusb context; without them there is nothing to give back.
OpenStart(p) ==
  /\ At(p, "idle")
  /\ \/ /\ GoTo(p, "find")
        /\ ctx' = [ctx EXCEPT ![p] = TRUE]
        /\ result' = [result EXCEPT ![p] = "NONE"]
     \/ /\ Faults
        /\ \E res \in {"ERR_NO_MEM"} \cup {map_libusb_error(e) : e \in FaultErrors} :
             result' = [result EXCEPT ![p] = res]
        /\ UNCHANGED <<pc, ctx>>
  /\ \E o \in DetachOptions : option' = [option EXCEPT ![p] = o]
  /\ rival' = [q \in Procs |->
                 IF q = p THEN \E r \in Procs \ {p} : pc[r] # "idle"
                 ELSE rival[q] \/ pc[q] # "idle"]
  /\ UNCHANGED <<handle, claimed, detached, kernelVars, mishaps>>

\* libusb_open_device_with_vid_pid(): a handle, or NULL whatever the reason.
FindDevice(p) ==
  /\ At(p, "find")
  /\ \/ /\ bus # 0
        /\ handle' = [handle EXCEPT ![p] = bus]
        /\ GoTo(p, IF option[p] THEN "query" ELSE "claim")
        /\ UNCHANGED result
     \/ /\ bus = 0 \/ Faults
        /\ Fail(p, "ERR_NOT_FOUND")
        /\ UNCHANGED handle
  /\ UNCHANGED <<ctx, claimed, detached, option, kernelVars, rival, mishaps>>

QueryIgnored(p) ==                                                 \* mutant
  /\ At(p, "query")
  /\ GoTo(p, "detach")
  /\ UNCHANGED <<ctx, handle, claimed, detached, option, result, kernelVars, rival, mishaps>>
\* libusb_kernel_driver_active() says yes; no, or an error, means claim.
QueryDriver(p) ==
  /\ At(p, "query")
  /\ \/ GoTo(p, IF Live(p) /\ driver THEN "detach" ELSE "claim")
     \/ Faults /\ GoTo(p, "claim")
  /\ UNCHANGED <<ctx, handle, claimed, detached, option, result, kernelVars, rival, mishaps>>

\* libusb_detach_kernel_driver(): no driver any more is an error too.
DetachErrors(p) ==
  FaultErrors \cup (IF ~ Live(p) THEN {"NO_DEVICE"}
                    ELSE IF ~ driver THEN {"NOT_FOUND"} ELSE {})

DetachUnnoted(p) ==                                                \* mutant
  /\ At(p, "detach")
  /\ \/ /\ Live(p) /\ driver
        /\ driver' = FALSE
        /\ GoTo(p, "claim")
        /\ UNCHANGED <<detached, result>>
     \/ /\ \E e \in DetachErrors(p) : Fail(p, map_libusb_error(e))
        /\ UNCHANGED <<driver, detached>>
  /\ UNCHANGED <<ctx, handle, claimed, option, bus, plugs, owner, rival, mishaps>>
DetachUnchecked(p) ==                                              \* mutant
  /\ At(p, "detach")
  /\ driver' = IF Live(p) THEN FALSE ELSE driver
  /\ detached' = [detached EXCEPT ![p] = TRUE]
  /\ GoTo(p, "claim")
  /\ UNCHANGED <<ctx, handle, claimed, option, result, bus, plugs, owner, rival, mishaps>>
DetachDriver(p) ==
  /\ At(p, "detach")
  /\ \/ /\ Live(p) /\ driver
        /\ driver' = FALSE
        /\ detached' = [detached EXCEPT ![p] = TRUE]
        /\ GoTo(p, "claim")
        /\ UNCHANGED result
     \/ /\ \E e \in DetachErrors(p) : Fail(p, map_libusb_error(e))
        /\ UNCHANGED <<driver, detached>>
  /\ UNCHANGED <<ctx, handle, claimed, option, bus, plugs, owner, rival, mishaps>>

\* libusb_claim_interface(): refused while a driver or a process has it.
ClaimErrors(p) ==
  FaultErrors \cup (IF ~ Live(p) THEN {"NO_DEVICE"}
                    ELSE IF driver \/ owner # Nobody THEN {"BUSY"} ELSE {})

ClaimUnchecked(p) ==                                               \* mutant
  /\ At(p, "claim")
  /\ GoTo(p, "open")
  /\ claimed' = [claimed EXCEPT ![p] = TRUE]
  /\ result' = [result EXCEPT ![p] = "OK"]
  /\ owner' = IF ClaimErrors(p) = {} THEN p ELSE owner
  /\ UNCHANGED <<ctx, handle, detached, option, bus, plugs, driver, rival, mishaps>>
ClaimInterface(p) ==
  /\ At(p, "claim")
  /\ \/ /\ Live(p) /\ ~ driver /\ owner = Nobody
        /\ owner' = p
        /\ claimed' = [claimed EXCEPT ![p] = TRUE]
        /\ GoTo(p, "open")
        /\ result' = [result EXCEPT ![p] = "OK"]
     \/ /\ \E e \in ClaimErrors(p) : Fail(p, map_libusb_error(e))
        /\ UNCHANGED <<owner, claimed>>
  /\ UNCHANGED <<ctx, handle, detached, option, bus, plugs, driver, rival, mishaps>>

-----------------------------------------------------------------------------
(* ch32mux_close().                                                        *)

CloseStart(p) ==
  /\ At(p, "open")
  /\ GoTo(p, "release")
  /\ UNCHANGED <<ctx, handle, claimed, detached, option, result, kernelVars, rival, mishaps>>

ReleaseNothing(p) ==                                               \* mutant
  /\ At(p, "release")
  /\ GoTo(p, "attach")
  /\ UNCHANGED <<ctx, handle, claimed, detached, option, result, kernelVars, rival, mishaps>>
\* libusb_release_interface(), if it was claimed.  It returns an error when the
\* device is gone, and may fail by a fault, and then the process keeps its claim:
\* what it returns is not looked at.
ReleaseInterface(p) ==
  /\ At(p, "release")
  /\ GoTo(p, "attach")
  /\ \/ /\ owner' = IF handle[p] # 0 /\ claimed[p] /\ Live(p) THEN Nobody ELSE owner
        /\ UNCHANGED mishaps
     \/ /\ Faults /\ handle[p] # 0 /\ claimed[p] /\ Live(p)
        /\ mishaps' = IF Owes(p) THEN mishaps \cup {"fault"} ELSE mishaps
        /\ UNCHANGED owner
  /\ UNCHANGED <<ctx, handle, claimed, detached, option, result, bus, plugs, driver, rival>>

\* libusb_attach_kernel_driver(), if it was detached.  Refused while a process
\* has the interface, be it this one because its release failed; what it returns
\* is not looked at.
AttachDriver(p) ==
  /\ At(p, "attach")
  /\ GoTo(p, "drop")
  /\ IF handle[p] # 0 /\ detached[p] /\ Live(p)
       THEN \/ /\ owner = Nobody
               /\ driver' = TRUE
               /\ UNCHANGED mishaps
            \/ /\ owner # Nobody
               /\ mishaps' = IF owner = p THEN mishaps ELSE mishaps \cup {"refused"}
               /\ UNCHANGED driver
            \/ /\ Faults
               /\ mishaps' = mishaps \cup {"fault"}
               /\ UNCHANGED driver
       ELSE UNCHANGED <<driver, mishaps>>
  /\ UNCHANGED <<ctx, handle, claimed, detached, option, result, bus, plugs, owner, rival>>

\* What a process has is gone, and with its handle its claim.
Gone(p) ==
  /\ GoTo(p, "idle")
  /\ ctx' = [ctx EXCEPT ![p] = FALSE]
  /\ handle' = [handle EXCEPT ![p] = 0]
  /\ claimed' = [claimed EXCEPT ![p] = FALSE]
  /\ detached' = [detached EXCEPT ![p] = FALSE]
  /\ owner' = IF owner = p THEN Nobody ELSE owner
  /\ UNCHANGED <<option, bus, plugs, driver, rival>>

\* libusb_close(), libusb_exit() and free().
DropHandle(p) == At(p, "drop") /\ Gone(p) /\ UNCHANGED <<result, mishaps>>

-----------------------------------------------------------------------------
(* The rest of the world (external).                                       *)

\* The process dies, also by the Ctrl-C that no command of the tool catches.
Crash(p) ==
  /\ ~ At(p, "idle")
  /\ Gone(p)
  /\ result' = [result EXCEPT ![p] = "NONE"]
  /\ mishaps' = IF Owes(p) THEN mishaps \cup {"crash"} ELSE mishaps

Unplug ==
  /\ bus # 0
  /\ bus' = 0
  /\ driver' = FALSE
  /\ owner' = Nobody
  /\ mishaps' = {}
  /\ UNCHANGED <<structVars, plugs, rival>>

Plug ==
  /\ bus = 0 /\ plugs < MaxPlug
  /\ plugs' = plugs + 1
  /\ bus' = plugs + 1
  /\ driver' = HasDriver
  /\ UNCHANGED <<structVars, owner, rival, mishaps>>

-----------------------------------------------------------------------------

Init ==
  /\ pc       = [p \in Procs |-> "idle"]
  /\ ctx      = [p \in Procs |-> FALSE]
  /\ handle   = [p \in Procs |-> 0]
  /\ claimed  = [p \in Procs |-> FALSE]
  /\ detached = [p \in Procs |-> FALSE]
  /\ option   = [p \in Procs |-> FALSE]
  /\ result   = [p \in Procs |-> "NONE"]
  /\ bus = 0 /\ plugs = 0
  /\ driver = FALSE
  /\ owner = Nobody
  /\ rival = [p \in Procs |-> FALSE]
  /\ mishaps = {}

Opening(p) == FindDevice(p) \/ QueryDriver(p) \/ DetachDriver(p) \/ ClaimInterface(p)
Closing(p) == ReleaseInterface(p) \/ AttachDriver(p) \/ DropHandle(p)

Next ==
  \/ \E p \in Procs : OpenStart(p) \/ Opening(p) \/ CloseStart(p) \/ Closing(p) \/ Crash(p)
  \/ Unplug \/ Plug

Spec == Init /\ [][Next]_vars

\* Every libusb call made here returns, and whoever has opened closes, as each
\* command of the tool does; nobody has to open.
FairSpec ==
  Spec /\ \A p \in Procs : WF_vars(Opening(p) \/ CloseStart(p) \/ Closing(p))

-----------------------------------------------------------------------------
(* Properties.                                                             *)

Steps == {"idle", "find", "query", "detach", "claim", "open", "release", "attach", "drop"}

TypeOK ==
  /\ pc \in [Procs -> Steps]
  /\ ctx \in [Procs -> BOOLEAN]
  /\ handle \in [Procs -> 0 .. MaxPlug]
  /\ claimed \in [Procs -> BOOLEAN]
  /\ detached \in [Procs -> BOOLEAN]
  /\ option \in [Procs -> BOOLEAN]
  /\ result \in [Procs -> OpenResults]
  /\ plugs \in 0 .. MaxPlug
  /\ bus \in {0, plugs}
  /\ driver \in BOOLEAN
  /\ owner \in Procs \cup {Nobody}
  /\ rival \in [Procs -> BOOLEAN]
  /\ mishaps \subseteq {"refused", "fault", "crash"}

\* However an open fails and wherever a close is overtaken by an unplugging, a
\* process that is in neither call nor between them has nothing of libusb's:
\* no context, no handle, no claim (device.c:71, 78, 91 and 101).
NothingLeaks ==
  \A p \in Procs : pc[p] = "idle" =>
    ~ ctx[p] /\ handle[p] = 0 /\ owner # p

\* Two processes never talk to the device at once: one that ch32mux_open() gave
\* the device has the interface, and the kernel driver has not, until it is
\* unplugged.  MuxTransact has a single host because of this.
Exclusive ==
  \A p \in Procs : pc[p] = "open" /\ Live(p) => owner = p /\ ~ driver

\* Two processes never both mean to give the driver back, and nobody does while
\* it is bound: detached_kernel_driver is set by the one whose detach succeeded.
OneDebtor ==
  \A p \in Procs : Owes(p) =>
    ~ driver /\ \A q \in Procs : Owes(q) => q = p

\* If the driver is missing, the process that took it away has still to give it
\* back, or died first, or was refused because another had claimed the interface
\* in between, or its release or its attach failed (device.c:116-124 tries each
\* once and does not look).
DriverOwed ==
  bus # 0 /\ HasDriver /\ ~ driver =>
    (\E p \in Procs : Owes(p)) \/ mishaps # {}

\* An open fails with CH32MUX_ERR_IO only because of another process, a driver it
\* was told to leave, or a fault: a process that died, and left the driver
\* detached, is in nobody's way.
ErrorHasReason ==
  \A p \in Procs : result[p] = "ERR_IO" =>
    rival[p] \/ Faults \/ (HasDriver /\ ~ option[p])

\* The driver comes back, unless there was a mishap: a crash, a claim in between,
\* or a release or an attach that failed.
DriverReturns ==
  bus # 0 /\ HasDriver /\ ~ driver ~> driver \/ bus = 0 \/ mishaps # {}
=============================================================================
