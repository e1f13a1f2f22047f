------------------------------ MODULE Machine ------------------------------
(***************************************************************************)
(* One VM of either backend and the callers of its methods: the handler of  *)
(* boot-member, which creates, starts and waits, and stops what failed, and *)
(* the handlers that stop a VM once it was adopted (vm.go and              *)
(* cloudhypervisor.go on Linux, vz.go on macOS, holder.go bootMember).     *)
(*                                                                         *)
(* A timer may fire at any time while what it waits for has not come.      *)
(***************************************************************************)

CONSTANTS
    Stopper,  \* the handlers that stop an adopted VM
    Booter,   \* the handler that boots it
    Kinds,    \* the backends: "ch" (cloud-hypervisor) and "vz"
    Faults    \* what may go wrong, see below

\* Faults a run may allow:
\*   create   Create fails
\*   start    the VM does not launch, or is not ready in time
\*   address  the wait for the address ends without one
\*   refused  a request to the VM is refused: REST, RequestStop, or vz's Stop
\*   dies     the VM ends by itself, or enters the error state
\*   stuck    the VM outlives the wait after SIGKILL or the forced stop
\*   retired  the member is stopped while it boots: markRunning refuses it
\*   serial   setupSerial fails after it has opened the log and its pipe
\*   tapKept  the kernel keeps a tap that cleanup deletes
Fault ==
    {"create", "start", "address", "refused", "dies", "stuck", "retired", "serial", "tapKept"}

ASSUME MachineAssumption ==
    /\ Booter \notin Stopper
    /\ Kinds \subseteq {"ch", "vz"}
    /\ Faults \subseteq Fault

Caller == Stopper \cup {Booter}

VARIABLES
    kind,  \* the backend
    vm,    \* the machine: the process of cloud-hypervisor, or VZ's state
    asked, \* what the machine was asked: "shutdown", "term", "kill"
    obs,   \* cloud-hypervisor: what the wait goroutine has published
    res,   \* what the VM holds on the host
    pc,    \* the callers
    hit    \* history: the faults that happened

vars == <<kind, vm, asked, obs, res, pc, hit>>

BootPc == {"create", "start", "ready", "address", "adopt", "up", "unmade"}
\* "taken" by a cleanup that is to delete it; "kept" by the host nevertheless.
TapState == {"none", "held", "taken", "kept"}
StopPc == {"stop", "soft", "hard", "last", "takeTap", "deleteTap", "socket"}

TypeOK ==
    /\ kind \in Kinds
    /\ vm \in {"none", "starting", "on", "off", "error"}
    /\ asked \subseteq {"shutdown", "term", "kill"}
    /\ obs \in [state : {"stopped", "running"}, exited : BOOLEAN]
    /\ res \in [tap : TapState, socket : BOOLEAN, serial : BOOLEAN]
    /\ pc \in [Caller -> BootPc \cup StopPc \cup {"idle", "ok", "err"}]
    /\ hit \subseteq Fault

-----------------------------------------------------------------------------

Runs == vm \in {"starting", "on"}
Goto(c, to) == pc' = [pc EXCEPT ![c] = to]
Happens(f) == f \in Faults /\ hit' = hit \cup {f}

Init ==
    /\ kind \in Kinds
    /\ vm = "none" /\ asked = {}
    /\ obs = [state |-> "stopped", exited |-> FALSE]
    /\ res = [tap |-> "none", socket |-> FALSE, serial |-> FALSE]
    /\ pc = [c \in Caller |-> IF c = Booter THEN "create" ELSE "idle"]
    /\ hit = {}

-----------------------------------------------------------------------------
(* bootMember: Create, Start, WaitForIP                                    *)

\* The tap comes last, so that a Create that fails leaves none.
CreateCH ==
    /\ kind = "ch" /\ pc[Booter] = "create"
    /\ \/ res' = [res EXCEPT !.tap = "held"] /\ Goto(Booter, "start") /\ UNCHANGED hit
       \/ Happens("create") /\ Goto(Booter, "unmade") /\ UNCHANGED res
    /\ UNCHANGED <<kind, vm, asked, obs>>

\* Mutant: no deferred closeSerial: whatever fails after setupSerial leaves it open.
CreateVZOpen ==
    /\ kind = "vz" /\ pc[Booter] = "create"
    /\ \/ res' = [res EXCEPT !.serial = TRUE] /\ Goto(Booter, "start") /\ UNCHANGED hit
       \/ /\ Happens("create") /\ Goto(Booter, "unmade")
          /\ \E open \in BOOLEAN : res' = [res EXCEPT !.serial = open]
    /\ UNCHANGED <<kind, vm, asked, obs>>

\* The serial log is open once setupSerial has returned; what fails after that
\* closes it.  setupSerial itself may fail with the log, its pipe and the copying
\* goroutine left behind: the closing is deferred only when it has succeeded.
CreateVZ ==
    /\ kind = "vz" /\ pc[Booter] = "create"
    /\ \/ res' = [res EXCEPT !.serial = TRUE] /\ Goto(Booter, "start") /\ UNCHANGED hit
       \/ Happens("create") /\ Goto(Booter, "unmade") /\ UNCHANGED res
       \/ /\ Happens("serial") /\ Goto(Booter, "unmade")
          /\ res' = [res EXCEPT !.serial = TRUE]
    /\ UNCHANGED <<kind, vm, asked, obs>>

Start ==
    /\ pc[Booter] = "start"
    /\ \/ /\ vm' = IF kind = "ch" THEN "on" ELSE "starting"
          /\ obs' = IF kind = "ch" THEN [state |-> "running", exited |-> FALSE] ELSE obs
          /\ Goto(Booter, "ready") /\ UNCHANGED hit
       \/ Happens("start") /\ Goto(Booter, "stop") /\ UNCHANGED <<vm, obs>>
    /\ UNCHANGED <<kind, asked, res>>

\* What the waits of the boot see of a VM that has ended: the closed channel on
\* Linux; on macOS the error state, and while it waits for the address nothing.
SeesEnd(at) == IF kind = "ch" THEN obs.exited ELSE at = "ready" /\ vm = "error"

\* The API server of cloud-hypervisor binds its socket; VZ reports running.
Ready ==
    /\ pc[Booter] = "ready"
    /\ \/ /\ vm = "on" /\ Goto(Booter, "address") /\ UNCHANGED hit
          /\ res' = [res EXCEPT !.socket = (kind = "ch")]
       \/ SeesEnd("ready") /\ Goto(Booter, "stop") /\ UNCHANGED <<res, hit>>
       \/ Happens("start") /\ Goto(Booter, "stop") /\ UNCHANGED res
    /\ UNCHANGED <<kind, vm, asked, obs>>

WaitForIP ==
    /\ pc[Booter] = "address"
    /\ \/ vm = "on" /\ Goto(Booter, "adopt") /\ UNCHANGED hit
       \/ SeesEnd("address") /\ Goto(Booter, "stop") /\ UNCHANGED hit
       \/ (vm # "on" \/ "address" \in Faults) /\ hit' = hit \cup {"address"} /\ Goto(Booter, "stop")
    /\ UNCHANGED <<kind, vm, asked, obs, res>>

Adopt ==
    /\ pc[Booter] = "adopt"
    /\ \/ Goto(Booter, "up") /\ UNCHANGED hit
       \/ Happens("retired") /\ Goto(Booter, "stop")
    /\ UNCHANGED <<kind, vm, asked, obs, res>>

-----------------------------------------------------------------------------
(* Stop                                                                    *)

Returned(c) == pc[c] \in {"ok", "err"}

CallStop(c) ==
    /\ pc[c] = "idle" /\ pc[Booter] = "up"
    /\ Goto(c, "stop")
    /\ UNCHANGED <<kind, vm, asked, obs, res, hit>>

Ask(what) == asked' = asked \cup {what}

\* Linux.  The request may be refused, or the context be over: the waits go on.
RequestCH(c) ==
    /\ kind = "ch" /\ pc[c] = "stop"
    /\ \/ vm = "none" /\ Goto(c, "takeTap") /\ UNCHANGED <<asked, hit>>
       \/ vm # "none" /\ Ask("shutdown") /\ Goto(c, "soft") /\ UNCHANGED hit
       \/ vm # "none" /\ Happens("refused") /\ Goto(c, "soft") /\ UNCHANGED asked
    /\ UNCHANGED <<kind, vm, obs, res>>

\* Mutant: a guest that ignores SIGTERM is given up.
EscalateNot(c) ==
    /\ kind = "ch" /\ pc[c] \in {"soft", "hard", "last"} /\ ~obs.exited
    /\ \/ pc[c] = "soft" /\ Ask("term") /\ Goto(c, "hard") /\ UNCHANGED hit
       \/ pc[c] \in {"hard", "last"} /\ Goto(c, "takeTap") /\ UNCHANGED <<asked, hit>>
    /\ UNCHANGED <<kind, vm, obs, res>>

\* Mutant: after SIGTERM the exit is waited for without a limit.
EscalateOnce(c) ==
    /\ kind = "ch" /\ ~obs.exited /\ pc[c] = "soft"
    /\ Ask("term") /\ Goto(c, "hard")
    /\ UNCHANGED <<kind, vm, obs, res, hit>>

\* The waits of 5 s, 5 s and 2 s run out.
Escalate(c) ==
    /\ kind = "ch" /\ ~obs.exited
    /\ \/ pc[c] = "soft" /\ Ask("term") /\ Goto(c, "hard") /\ UNCHANGED hit
       \/ pc[c] = "hard" /\ Ask("kill") /\ Goto(c, "last") /\ UNCHANGED hit
       \/ pc[c] = "last" /\ Happens("stuck") /\ Goto(c, "takeTap") /\ UNCHANGED asked
    /\ UNCHANGED <<kind, vm, obs, res>>

Exited(c) ==
    /\ kind = "ch" /\ pc[c] \in {"soft", "hard", "last"} /\ obs.exited
    /\ Goto(c, "takeTap")
    /\ UNCHANGED <<kind, vm, asked, obs, res, hit>>

\* cleanup: the name of the tap is taken under the mutex.
TakeTap(c) ==
    /\ pc[c] = "takeTap"
    /\ IF res.tap = "held"
       THEN Goto(c, "deleteTap") /\ res' = [res EXCEPT !.tap = "taken"]
       ELSE Goto(c, "socket") /\ UNCHANGED res
    /\ UNCHANGED <<kind, vm, asked, obs, hit>>

\* deleteTap of the network may fail, which cleanup does not mind: the VM has
\* forgotten the tap by then, and only the network's Close comes back to it.
DeleteTap(c) ==
    /\ pc[c] = "deleteTap"
    /\ \/ res' = [res EXCEPT !.tap = "none"] /\ UNCHANGED hit
       \/ Happens("tapKept") /\ res' = [res EXCEPT !.tap = "kept"]
    /\ Goto(c, "socket")
    /\ UNCHANGED <<kind, vm, asked, obs>>

RemoveSocket(c) ==
    /\ pc[c] = "socket"
    /\ res' = [res EXCEPT !.socket = FALSE]
    /\ Goto(c, "ok")
    /\ UNCHANGED <<kind, vm, asked, obs, hit>>

\* Mutant: a stop that failed keeps the serial log open.
ReturnVZOpen(c, r) == Goto(c, r) /\ res' = [res EXCEPT !.serial = @ /\ r = "err"]

\* macOS.  Every way out closes the serial log, once.
ReturnVZ(c, r) == Goto(c, r) /\ res' = [res EXCEPT !.serial = FALSE]

RequestVZ(c) ==
    /\ kind = "vz" /\ pc[c] = "stop"
    /\ \/ vm \in {"none", "off"} /\ ReturnVZ(c, "ok") /\ UNCHANGED <<asked, hit>>
       \/ vm = "on" /\ Ask("shutdown") /\ Goto(c, "soft") /\ UNCHANGED <<res, hit>>
       \/ vm = "on" /\ Happens("refused") /\ Goto(c, "hard") /\ UNCHANGED <<asked, res>>
       \/ vm \in {"starting", "error"} /\ Goto(c, "hard") /\ UNCHANGED <<asked, res, hit>>
    /\ UNCHANGED <<kind, vm, obs>>

\* Mutant: a context that is over ends the stop.
SoftVZGivesUp(c) ==
    /\ kind = "vz" /\ pc[c] = "soft"
    /\ ReturnVZ(c, "ok")
    /\ UNCHANGED <<kind, vm, asked, obs, hit>>

\* The grace runs out or the caller's context is over.
SoftVZ(c) ==
    /\ kind = "vz" /\ pc[c] = "soft"
    /\ \/ vm = "off" /\ ReturnVZ(c, "ok")
       \/ vm # "off" /\ Goto(c, "hard") /\ UNCHANGED res
    /\ UNCHANGED <<kind, vm, asked, obs, hit>>

\* The forced stop is refused of a machine that is not running, and may be of one
\* that is.
ForceVZ(c) ==
    /\ kind = "vz" /\ pc[c] = "hard"
    /\ \/ Runs /\ Ask("kill") /\ Goto(c, "last") /\ UNCHANGED <<res, hit>>
       \/ Runs /\ Happens("refused") /\ ReturnVZ(c, "err") /\ UNCHANGED asked
       \/ ~Runs /\ ReturnVZ(c, "err") /\ UNCHANGED <<asked, hit>>
    /\ UNCHANGED <<kind, vm, obs>>

LastVZ(c) ==
    /\ kind = "vz" /\ pc[c] = "last"
    /\ \/ vm = "off" /\ ReturnVZ(c, "ok") /\ UNCHANGED hit
       \/ vm # "off" /\ Happens("stuck") /\ ReturnVZ(c, "err")
    /\ UNCHANGED <<kind, vm, asked, obs>>

-----------------------------------------------------------------------------
(* The machine                                                             *)

Started == vm = "starting" /\ vm' = "on" /\ UNCHANGED <<kind, asked, obs, res, pc, hit>>

Dies ==
    /\ Runs /\ Happens("dies")
    /\ vm' \in IF kind = "vz" THEN {"off", "error"} ELSE {"off"}
    /\ UNCHANGED <<kind, asked, obs, res, pc>>

\* A guest may ignore a shutdown, and cloud-hypervisor a SIGTERM.
Obeys ==
    /\ Runs /\ asked # {}
    /\ vm' = "off"
    /\ UNCHANGED <<kind, asked, obs, res, pc, hit>>

\* The wait goroutine: the state, then the channel.
Publish ==
    /\ kind = "ch" /\ vm = "off" /\ ~obs.exited
    /\ obs' = IF obs.state = "running" THEN [obs EXCEPT !.state = "stopped"]
                                       ELSE [obs EXCEPT !.exited = TRUE]
    /\ UNCHANGED <<kind, vm, asked, res, pc, hit>>

Idle == pc[Booter] \in {"up", "unmade", "ok", "err"} /\ UNCHANGED vars

BootWork == CreateCH \/ CreateVZ \/ Start \/ Ready \/ WaitForIP \/ Adopt
StopWork(c) ==
    \/ RequestCH(c) \/ Escalate(c) \/ Exited(c) \/ TakeTap(c) \/ DeleteTap(c) \/ RemoveSocket(c)
    \/ RequestVZ(c) \/ SoftVZ(c) \/ ForceVZ(c) \/ LastVZ(c)

Next ==
    \/ BootWork \/ Started \/ Dies \/ Obeys \/ Publish \/ Idle
    \/ \E c \in Caller : StopWork(c)
    \/ \E c \in Stopper : CallStop(c)

Spec == Init /\ [][Next]_vars

\* Handlers and the wait goroutine are scheduled; their waits end by a timer.  A
\* machine that was killed or forced to stop goes, sooner or later.
FairSpec ==
    /\ Spec /\ WF_vars(BootWork) /\ WF_vars(Publish) /\ WF_vars(Started)
    /\ \A c \in Caller : WF_vars(StopWork(c))
    /\ WF_vars(Obeys /\ "kill" \in asked)

-----------------------------------------------------------------------------
(* Properties                                                              *)

Stopping(c) == pc[c] \in StopPc

\* The tap is not taken from a VM that runs, nor its API socket; unless it
\* outlived SIGKILL by the last wait.
HeldWhileRunning ==
    (kind = "ch" /\ Runs /\ "stuck" \notin hit) => res.tap = "held"

\* When the last call of Stop has returned, or Create has failed, tap, API socket,
\* serial log and its goroutine are gone, whichever backend and whatever else failed.
\* Two failures leave something, and no more than that: a tap that the kernel would
\* not delete (vm.go:302 ignores it), and the log of a setupSerial that failed
\* (vz.go:484-491).  (The boot handler ignores what its Stop returns.)
NothingLeft ==
    (/\ pc[Booter] = "unmade" \/ \E c \in Caller : Returned(c)
     /\ \A c \in Caller : ~Stopping(c))
    => res = [tap    |-> IF "tapKept" \in hit THEN "kept" ELSE "none",
              socket |-> FALSE,
              serial |-> "serial" \in hit]

\* Every call of Stop returns and every boot comes to a result: no cancelled
\* context, ignored shutdown or early end of the VM is waited for in vain.
CallsEnd ==
    /\ \A c \in Caller : Stopping(c) ~> ~Stopping(c)
    /\ <>(pc[Booter] \in {"up", "unmade", "ok", "err"})

\* What the holder takes for granted of backend.VM.
Contract == INSTANCE VMContract WITH
    vm   <- IF vm = "none" THEN "none" ELSE IF Runs THEN "up" ELSE "down",
    call <- [c \in Caller |-> IF Stopping(c) THEN "asked"
                              ELSE IF Returned(c) THEN pc[c] ELSE "none"],
    late <- kind = "ch" /\ "stuck" \in hit
KeepsContract == Contract!CSpec

=============================================================================
