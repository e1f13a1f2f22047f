------------------------------- MODULE Holder -------------------------------
(***************************************************************************)
(* One holder process (internal/holder/holder.go): the shared network, the *)
(* member registry, the running counter and the `done' channel, driven by  *)
(* concurrent RPC handlers (createnetwork, reserve, boot-member, stop) and *)
(* by the main goroutine, which tears everything down.                     *)
(*                                                                         *)
(* Every critical section of h.mu or m.mu is one step, and so is every     *)
(* slow call made outside the locks, so that handlers interleave exactly   *)
(* where the code lets them.  A request is used once.  A VM is named by    *)
(* the boot-member request that creates it, a backend network by its       *)
(* createnetwork request, and a member object by its spawn name or by the  *)
(* request that registered it at run time.                                 *)
(***************************************************************************)
EXTENDS Integers, FiniteSets

CONSTANTS
    Name,       \* member names
    SpawnName,  \* names on the command line, registered before any RPC
    NetReq,     \* createnetwork requests
    BootReq,    \* boot-member requests
    StopReq,    \* stop requests
    Lapses,     \* what may happen beyond the orderly sequence, see below
    None

\* Lapses a run may allow:
\*   dupBoot       a boot-member while another of the same name runs
\*   retryError    a boot-member for a member in state "error"
\*   stopBooting   a stop and a boot of one name overlap
\*   earlyRejoin   a boot-member sent as soon as a stop removed the pidfile
\*   dupStop       two stops of one name overlap
\*   vmOutlives    a VM survives a vm.Stop, whose error nobody reads
\* A shutdown needs no leave: it comes at any time, whatever is in flight.
Lapse == {"dupBoot", "retryError", "stopBooting", "earlyRejoin", "dupStop",
          "vmOutlives"}

ASSUME HolderAssumption ==
    /\ SpawnName \subseteq Name
    /\ SpawnName # {}
    /\ IsFiniteSet(Name) /\ IsFiniteSet(BootReq) /\ IsFiniteSet(StopReq)
    /\ Name \cap BootReq = {} /\ BootReq \cap NetReq = {}
    /\ None \notin Name \cup BootReq \cup NetReq \cup StopReq
    /\ Lapses \subseteq Lapse

VARIABLES
    members,   \* h.members: name -> registered member object or None
    mem,       \* the member objects: state, vm and how far retire has got
    running,   \* h.running
    done,      \* h.done is closed
    network,   \* h.network
    reserved,  \* DOMAIN of h.reservations
    nets,      \* networks that exist on the host
    live,      \* VMs that run
    sock,      \* name -> member object whose listener is bound to the path
    pidfile,   \* names whose pidfile exists
    netPc,     \* createnetwork handlers
    boot,      \* boot-member handlers
    stop,      \* stop handlers
    main       \* the main goroutine: stopAll and its snapshot

registry == <<members, mem, running, done>>
host     == <<nets, live, sock, pidfile>>
vars     == <<members, mem, running, done, network, reserved, nets, live,
              sock, pidfile, netPc, boot, stop, main>>

Obj == Name \cup BootReq

MemberState == {"none", "starting", "running", "stopped", "error"}
\* retireOnce: not run; files removed but still in the registry; complete.
RetireState == {"no", "unlinked", "yes"}

NetPc  == {"idle", "create", "install", "replied"}
BootPc == {"idle", "lookup", "register", "insert", "find", "check", "create",
           "started", "reap", "markError", "dec", "replied"}
StopPc == {"idle", "lookup", "read", "halt", "mark", "dec", "retire",
           "unregister", "replied"}
MainPc == {"serving", "stopAll", "halt", "retire", "unregister", "closed",
           "exited"}

MemRec  == [state : MemberState, vm : BootReq \cup {None}, retired : RetireState]
BootRec == [pc : BootPc, name : Name \cup {None}, obj : Obj \cup {None}]
StopRec == [pc : StopPc, name : Name \cup {None}, conn : Obj \cup {None},
            obj : Obj \cup {None}, vm : BootReq \cup {None}]
\* before: the requests that had been answered when the shutdown began, which no
\* code keeps and the properties speak of.
MainRec == [pc : MainPc, todo : [Name -> Obj \cup {None}], name : Name \cup {None},
            obj : Obj \cup {None}, vm : BootReq \cup {None},
            before : SUBSET (BootReq \cup NetReq)]

TypeOK ==
    /\ members \in [Name -> Obj \cup {None}]
    /\ mem \in [Obj -> MemRec]
    /\ running \in Int
    /\ done \in BOOLEAN
    /\ network \in NetReq \cup {None}
    /\ reserved \subseteq Name
    /\ nets \subseteq NetReq
    /\ live \subseteq BootReq
    /\ sock \in [Name -> Obj \cup {None}]
    /\ pidfile \subseteq Name
    /\ netPc \in [NetReq -> NetPc]
    /\ boot \in [BootReq -> BootRec]
    /\ stop \in [StopReq -> StopRec]
    /\ main \in MainRec

-----------------------------------------------------------------------------
(* Helpers                                                                 *)

Alive == main.pc # "exited"

Active(o) == mem[o].state \in {"starting", "running"}

BootsOf(n) == {b \in BootReq : /\ boot[b].pc \notin {"idle", "replied"}
                               /\ boot[b].name = n}
StopsOf(n) == {s \in StopReq : /\ stop[s].pc \notin {"idle", "replied"}
                               /\ stop[s].name = n}

\* Some member's socket accepts connections.
Reachable == \E n \in Name : sock[n] # None

Allowed(lapse) == lapse \in Lapses

MayBoot(n) ==
    /\ BootsOf(n) # {} => Allowed("dupBoot")
    /\ (members[n] # None /\ mem[members[n]].state = "error") => Allowed("retryError")
    /\ (StopsOf(n) # {} /\ n \in pidfile) => Allowed("stopBooting")
    /\ (StopsOf(n) # {} /\ n \notin pidfile) => Allowed("earlyRejoin")

MayStop(n) ==
    /\ BootsOf(n) # {} => Allowed("stopBooting")
    /\ StopsOf(n) # {} => Allowed("dupStop")

\* What vm.Stop leaves running.
AfterStop(v) == {live \ {v}} \cup (IF Allowed("vmOutlives") THEN {live} ELSE {})

\* What was answered before the shutdown, or is answered by a process that serves.
Answered == {b \in BootReq : boot[b].pc = "replied"}
              \cup {c \in NetReq : netPc[c] = "replied"}
Kept(r) == main.pc = "serving" \/ r \in main.before

\* The locals of a handler that has not started, or has ended.
NoBoot == [pc |-> "idle", name |-> None, obj |-> None]
NoStop == [pc |-> "idle", name |-> None, conn |-> None, obj |-> None, vm |-> None]

-----------------------------------------------------------------------------
(* Run up to its select: the spawn names are registered and served.        *)

Init ==
    /\ members = [n \in Name |-> IF n \in SpawnName THEN n ELSE None]
    /\ mem = [o \in Obj |-> [state |-> IF o \in SpawnName THEN "starting" ELSE "none",
                             vm |-> None, retired |-> "no"]]
    /\ running = Cardinality(SpawnName)
    /\ done = FALSE
    /\ network = None
    /\ reserved = {}
    /\ nets = {}
    /\ live = {}
    /\ sock = [n \in Name |-> IF n \in SpawnName THEN n ELSE None]
    /\ pidfile = SpawnName
    /\ netPc = [c \in NetReq |-> "idle"]
    /\ boot = [b \in BootReq |-> NoBoot]
    /\ stop = [s \in StopReq |-> NoStop]
    /\ main = [pc |-> "serving", todo |-> [n \in Name |-> None],
               name |-> None, obj |-> None, vm |-> None,
               before |-> {}]

\* decRunning: the zero test is under h.mu, close(done) happens at most once.
DecRunning ==
    /\ running' = running - 1
    /\ done' = (done \/ running = 1)

\* Mutant: retire without its sync.Once.
RetireFilesTwice(n, o) ==
    /\ mem' = [mem EXCEPT ![o].retired = "unlinked"]
    /\ sock' = [sock EXCEPT ![n] = None]
    /\ pidfile' = pidfile \ {n}
    /\ UNCHANGED <<members, running, done, nets, live>>

\* retire, inside retireOnce: the listener, the socket and the pidfile go first
RetireFiles(n, o) ==
    /\ mem[o].retired = "no"
    /\ mem' = [mem EXCEPT ![o].retired = "unlinked"]
    /\ sock' = [sock EXCEPT ![n] = None]
    /\ pidfile' = pidfile \ {n}
    /\ UNCHANGED <<members, running, done, nets, live>>

\* Mutant: a retired member stays in the registry.
RetireEntryKept(n, o) ==
    /\ mem' = [mem EXCEPT ![o].retired = "yes"]
    /\ UNCHANGED <<members, running, done>>

\* ... and the registry entry of that name last.
RetireEntry(n, o) ==
    /\ mem' = [mem EXCEPT ![o].retired = "yes"]
    /\ members' = [members EXCEPT ![n] = None]
    /\ UNCHANGED <<running, done>>

-----------------------------------------------------------------------------
(* createNetwork and reserve                                               *)

\* The first look, under h.mu: an existing network is returned.
NetCheck(c) ==
    /\ Alive /\ Reachable
    /\ netPc[c] = "idle"
    /\ netPc' = [netPc EXCEPT ![c] = IF network = None THEN "create" ELSE "replied"]
    /\ UNCHANGED <<registry, host, network, reserved, boot, stop, main>>

\* backend.CreateNetwork, outside the lock.
NetCreate(c) ==
    /\ Alive
    /\ netPc[c] = "create"
    /\ \/ /\ netPc' = [netPc EXCEPT ![c] = "replied"]
          /\ UNCHANGED nets
       \/ /\ netPc' = [netPc EXCEPT ![c] = "install"]
          /\ nets' = nets \cup {c}
    /\ UNCHANGED <<registry, live, sock, pidfile, network, reserved, boot, stop, main>>

\* Mutant: the loser of a createnetwork race keeps its network.
NetInstallLeaks(c) ==
    /\ Alive
    /\ netPc[c] = "install"
    /\ netPc' = [netPc EXCEPT ![c] = "replied"]
    /\ network' = IF network = None THEN c ELSE network
    /\ UNCHANGED <<registry, host, reserved, boot, stop, main>>

\* The second look: the loser of a race closes its own network.
NetInstall(c) ==
    /\ Alive
    /\ netPc[c] = "install"
    /\ netPc' = [netPc EXCEPT ![c] = "replied"]
    /\ IF network = None
       THEN network' = c /\ UNCHANGED nets
       ELSE nets' = nets \ {c} /\ UNCHANGED network
    /\ UNCHANGED <<registry, live, sock, pidfile, reserved, boot, stop, main>>

\* reserve runs under h.mu throughout; addresses are chosen in Addressing.
Reserve(n) ==
    /\ Alive /\ Reachable
    /\ network # None
    /\ n \notin reserved
    /\ reserved' = reserved \cup {n}
    /\ UNCHANGED <<registry, host, network, netPc, boot, stop, main>>

-----------------------------------------------------------------------------
(* bootMember, one step per lock section or backend call                   *)

BootStep(b, from) == Alive /\ boot[b].pc = from
BootSet(b, to, o) ==
    boot' = [boot EXCEPT ![b] = [pc |-> to, name |-> boot[b].name, obj |-> o]]
BootGoto(b, to) == BootSet(b, to, IF to = "replied" THEN None ELSE boot[b].obj)

\* The network and the reservation are read first and refused when missing.
BootBegin(b, n) ==
    /\ BootStep(b, "idle") /\ Reachable /\ MayBoot(n)
    /\ boot' = [boot EXCEPT ![b] =
                  [pc |-> IF network # None /\ n \in reserved THEN "lookup" ELSE "replied",
                   name |-> n, obj |-> None]]
    /\ UNCHANGED <<registry, host, network, reserved, netPc, stop, main>>

BootLookup(b) ==
    /\ BootStep(b, "lookup")
    /\ BootGoto(b, IF members[boot[b].name] = None THEN "register" ELSE "find")
    /\ UNCHANGED <<registry, host, network, reserved, netPc, stop, main>>

\* register, up to the pidfile: a stale socket is replaced; listen or the
\* pidfile write may fail.
BootRegisterFiles(b) ==
    /\ BootStep(b, "register")
    /\ \/ /\ sock' = [sock EXCEPT ![boot[b].name] = b]
          /\ pidfile' = pidfile \cup {boot[b].name}
          /\ BootGoto(b, "insert")
       \/ /\ sock' = [sock EXCEPT ![boot[b].name] = None]
          /\ UNCHANGED pidfile
          /\ BootGoto(b, "replied")
    /\ UNCHANGED <<registry, nets, live, network, reserved, netPc, stop, main>>

\* Mutant: a runtime-added member is not counted.
BootRegisterUncounted(b) ==
    /\ BootStep(b, "insert")
    /\ members' = [members EXCEPT ![boot[b].name] = b]
    /\ mem' = [mem EXCEPT ![b].state = "starting"]
    /\ BootGoto(b, "find")
    /\ UNCHANGED <<running, done, host, network, reserved, netPc, stop, main>>

\* register, under h.mu: a new member object, counted as running.
BootRegisterEntry(b) ==
    /\ BootStep(b, "insert")
    /\ members' = [members EXCEPT ![boot[b].name] = b]
    /\ mem' = [mem EXCEPT ![b].state = "starting"]
    /\ running' = running + 1
    /\ BootGoto(b, "find")
    /\ UNCHANGED <<done, host, network, reserved, netPc, stop, main>>

BootFind(b) ==
    /\ BootStep(b, "find")
    /\ LET o == members[boot[b].name] IN
       BootSet(b, IF o = None THEN "replied" ELSE "check", o)
    /\ UNCHANGED <<registry, host, network, reserved, netPc, stop, main>>

\* Mutant: a duplicate boot is not refused.
BootCheckDropped(b) ==
    /\ BootStep(b, "check")
    /\ BootGoto(b, "create")
    /\ UNCHANGED <<registry, host, network, reserved, netPc, stop, main>>

\* The refusal of a duplicate boot.
BootCheck(b) ==
    /\ BootStep(b, "check")
    /\ BootGoto(b, IF mem[boot[b].obj].vm # None THEN "replied" ELSE "create")
    /\ UNCHANGED <<registry, host, network, reserved, netPc, stop, main>>

\* b.Create and the launch in vm.Start; a NIC needs its network on the host.
BootCreate(b) ==
    /\ BootStep(b, "create")
    /\ \/ BootGoto(b, "markError") /\ UNCHANGED live
       \/ network \in nets /\ BootGoto(b, "started") /\ live' = live \cup {b}
    /\ UNCHANGED <<registry, nets, sock, pidfile, network, reserved, netPc, stop, main>>

\* Mutant: a failed boot does not stop its partial VM.
BootFailLeaks(b) ==
    /\ BootStep(b, "started")
    /\ BootGoto(b, "markError")
    /\ UNCHANGED <<registry, host, network, reserved, netPc, stop, main>>

\* vm.Start or WaitForIP fails: the partial VM is stopped.
BootFail(b) ==
    /\ BootStep(b, "started")
    /\ live' \in AfterStop(b)
    /\ BootGoto(b, "markError")
    /\ UNCHANGED <<registry, nets, sock, pidfile, network, reserved, netPc, stop, main>>

\* The IP is known: markRunning adopts the VM unless the member was stopped.
MarkRunning(b) ==
    /\ BootStep(b, "started")
    /\ LET o == boot[b].obj IN
       IF mem[o].state = "stopped"
       THEN BootGoto(b, "reap") /\ UNCHANGED mem
       ELSE /\ mem' = [mem EXCEPT ![o] = [state |-> "running", vm |-> b,
                                             retired |-> mem[o].retired]]
            /\ BootGoto(b, "replied")
    /\ UNCHANGED <<members, running, done, host, network, reserved, netPc, stop, main>>

BootReap(b) ==
    /\ BootStep(b, "reap")
    /\ live' \in AfterStop(b)
    /\ BootGoto(b, "replied")
    /\ UNCHANGED <<registry, nets, sock, pidfile, network, reserved, netPc, stop, main>>

\* Mutant: a failed boot is not uncounted.
MarkErrorCounted(b) ==
    /\ BootStep(b, "markError")
    /\ mem' = [mem EXCEPT ![boot[b].obj].state = "error"]
    /\ BootGoto(b, "replied")
    /\ UNCHANGED <<members, running, done, host, network, reserved, netPc, stop, main>>

MarkError(b) ==
    /\ BootStep(b, "markError")
    /\ mem' = [mem EXCEPT ![boot[b].obj].state = "error"]
    /\ BootGoto(b, IF Active(boot[b].obj) THEN "dec" ELSE "replied")
    /\ UNCHANGED <<members, running, done, host, network, reserved, netPc, stop, main>>

BootDecRunning(b) ==
    /\ BootStep(b, "dec")
    /\ DecRunning
    /\ BootGoto(b, "replied")
    /\ UNCHANGED <<members, mem, host, network, reserved, netPc, stop, main>>

BootWork(b) ==
    \/ BootLookup(b) \/ BootRegisterFiles(b) \/ BootRegisterEntry(b) \/ BootFind(b)
    \/ BootCheck(b) \/ BootCreate(b) \/ BootFail(b) \/ MarkRunning(b) \/ BootReap(b)
    \/ MarkError(b) \/ BootDecRunning(b)

-----------------------------------------------------------------------------
(* stopMember: the reply is sent first, then the member is found by name   *)

StopStep(s, from) == Alive /\ stop[s].pc = from
StopSet(s, to, o, v) ==
    stop' = [stop EXCEPT ![s] = [pc |-> to, name |-> stop[s].name, conn |-> stop[s].conn,
                                 obj |-> o, vm |-> v]]
StopGoto(s, to) == StopSet(s, to, stop[s].obj, stop[s].vm)
StopEnd(s) == stop' = [stop EXCEPT ![s] = [pc |-> "replied", name |-> None, conn |-> None,
                                           obj |-> None, vm |-> None]]

\* A connection accepted by the listener bound to the member's socket path.
StopBegin(s, n) ==
    /\ StopStep(s, "idle") /\ MayStop(n)
    /\ sock[n] # None
    /\ stop' = [stop EXCEPT ![s] = [pc |-> "lookup", name |-> n, conn |-> sock[n],
                                    obj |-> None, vm |-> None]]
    /\ UNCHANGED <<registry, host, network, reserved, netPc, boot, main>>

StopLookup(s) ==
    /\ StopStep(s, "lookup")
    /\ LET o == members[stop[s].name] IN
       IF o = None
       THEN StopEnd(s)
       ELSE StopSet(s, "read", o, None)
    /\ UNCHANGED <<registry, host, network, reserved, netPc, boot, main>>

StopReadVM(s) ==
    /\ StopStep(s, "read")
    /\ StopSet(s, "halt", stop[s].obj, mem[stop[s].obj].vm)
    /\ UNCHANGED <<registry, host, network, reserved, netPc, boot, main>>

StopVM(s) ==
    /\ StopStep(s, "halt")
    /\ live' \in AfterStop(stop[s].vm)
    /\ StopGoto(s, "mark")
    /\ UNCHANGED <<registry, nets, sock, pidfile, network, reserved, netPc, boot, main>>

\* Mutant: every stop decrements the counter, whatever the state was.
MarkStoppedAlways(s) ==
    /\ StopStep(s, "mark")
    /\ mem' = [mem EXCEPT ![stop[s].obj].state = "stopped"]
    /\ StopGoto(s, "dec")
    /\ UNCHANGED <<members, running, done, host, network, reserved, netPc, boot, main>>

MarkStopped(s) ==
    /\ StopStep(s, "mark")
    /\ mem' = [mem EXCEPT ![stop[s].obj].state = "stopped"]
    /\ StopGoto(s, IF Active(stop[s].obj) THEN "dec" ELSE "retire")
    /\ UNCHANGED <<members, running, done, host, network, reserved, netPc, boot, main>>

StopDecRunning(s) ==
    /\ StopStep(s, "dec")
    /\ DecRunning
    /\ StopGoto(s, "retire")
    /\ UNCHANGED <<members, mem, host, network, reserved, netPc, boot, main>>

\* retire: the first caller does the work, a later one waits for its end.
StopRetire(s) ==
    /\ StopStep(s, "retire")
    /\ \/ RetireFiles(stop[s].name, stop[s].obj) /\ StopGoto(s, "unregister")
       \/ /\ mem[stop[s].obj].retired = "yes"
          /\ StopEnd(s)
          /\ UNCHANGED <<registry, host>>
    /\ UNCHANGED <<network, reserved, netPc, boot, main>>

StopUnregister(s) ==
    /\ StopStep(s, "unregister")
    /\ RetireEntry(stop[s].name, stop[s].obj)
    /\ StopEnd(s)
    /\ UNCHANGED <<host, network, reserved, netPc, boot, main>>

StopWork(s) ==
    \/ StopLookup(s) \/ StopReadVM(s) \/ StopVM(s) \/ MarkStopped(s)
    \/ StopDecRunning(s) \/ StopRetire(s) \/ StopUnregister(s)

-----------------------------------------------------------------------------
(* The main goroutine: select, stopAll, the deferred network.Close, exit   *)

MainStep(from) == main.pc = from
MainGoto(to) == main' = [main EXCEPT !.pc = to]
\* The loop of stopAll goes on to the next member.
MainLoop == main' = [main EXCEPT !.pc = "stopAll", !.name = None, !.obj = None, !.vm = None]

\* Mutant: stopAll skips the members without a VM.
ShutDownRunningOnly ==
    /\ MainStep("serving")
    /\ main' = [main EXCEPT !.pc = "stopAll", !.before = Answered,
                  !.todo = [n \in Name |->
                     IF members[n] # None /\ mem[members[n]].vm # None
                     THEN members[n] ELSE None]]
    /\ UNCHANGED <<registry, host, network, reserved, netPc, boot, stop>>

\* The select of Run ends: a signal, a bound parent that is gone, or done.
\* stopAll then takes a snapshot of the registry.
ShutDown ==
    /\ MainStep("serving")
    /\ main' = [main EXCEPT !.pc = "stopAll", !.todo = members, !.before = Answered]
    /\ UNCHANGED <<registry, host, network, reserved, netPc, boot, stop>>

MainReadVM(n) ==
    /\ MainStep("stopAll")
    /\ main.todo[n] # None
    /\ main' = [pc |-> "halt", todo |-> [main.todo EXCEPT ![n] = None], name |-> n,
                obj |-> main.todo[n], vm |-> mem[main.todo[n]].vm, before |-> main.before]
    /\ UNCHANGED <<registry, host, network, reserved, netPc, boot, stop>>

MainStopVM ==
    /\ MainStep("halt")
    /\ live' \in AfterStop(main.vm)
    /\ MainGoto("retire")
    /\ UNCHANGED <<registry, nets, sock, pidfile, network, reserved, netPc, boot, stop>>

MainRetire ==
    /\ MainStep("retire")
    /\ \/ RetireFiles(main.name, main.obj) /\ MainGoto("unregister")
       \/ /\ mem[main.obj].retired = "yes"
          /\ MainLoop
          /\ UNCHANGED <<registry, host>>
    /\ UNCHANGED <<network, reserved, netPc, boot, stop>>

MainUnregister ==
    /\ MainStep("unregister")
    /\ RetireEntry(main.name, main.obj)
    /\ MainLoop
    /\ UNCHANGED <<host, network, reserved, netPc, boot, stop>>

\* Mutant: the network is closed without waiting for stopAll.
CloseNetworkEarly ==
    /\ MainStep("stopAll")
    /\ nets' = nets \ {network}
    /\ MainGoto("closed")
    /\ UNCHANGED <<registry, live, sock, pidfile, network, reserved, netPc, boot, stop>>

\* The deferred network.Close, after stopAll.
CloseNetwork ==
    /\ MainStep("stopAll")
    /\ \A n \in Name : main.todo[n] = None
    /\ nets' = nets \ {network}
    /\ MainGoto("closed")
    /\ UNCHANGED <<registry, live, sock, pidfile, network, reserved, netPc, boot, stop>>

\* The process ends, its handlers with it, and the VMs die with their parent.
Exit ==
    /\ MainStep("closed")
    /\ live' = {}
    /\ boot' = [b \in BootReq |-> NoBoot]
    /\ stop' = [s \in StopReq |-> NoStop]
    /\ MainGoto("exited")
    /\ UNCHANGED <<registry, nets, sock, pidfile, network, reserved, netPc>>

MainWork ==
    \/ \E n \in Name : MainReadVM(n)
    \/ MainStopVM \/ MainRetire \/ MainUnregister \/ CloseNetwork \/ Exit

Gone == ~Alive /\ UNCHANGED vars

Next ==
    \/ \E c \in NetReq : NetCheck(c) \/ NetCreate(c) \/ NetInstall(c)
    \/ \E n \in Name : Reserve(n)
    \/ \E b \in BootReq : BootWork(b) \/ \E n \in Name : BootBegin(b, n)
    \/ \E s \in StopReq : StopWork(s) \/ \E n \in Name : StopBegin(s, n)
    \/ ShutDown \/ MainWork
    \/ Gone

Spec == Init /\ [][Next]_vars

\* The Go scheduler runs every goroutine, backend calls return (each is bounded
\* by a timeout), and the select of Run sees done.  Nothing makes a client send
\* a request or the host send a signal.
Fairness ==
    /\ \A c \in NetReq : WF_vars(NetCreate(c) \/ NetInstall(c))
    /\ \A b \in BootReq : WF_vars(BootWork(b))
    /\ \A s \in StopReq : WF_vars(StopWork(s))
    /\ WF_vars(done /\ ShutDown)
    /\ WF_vars(MainWork)

FairSpec == Spec /\ Fairness

-----------------------------------------------------------------------------
(* Properties                                                              *)

\* h.running counts the members starting or running, up to the decrements that
\* markError and markStopped have decided on but not yet made.
CounterExact ==
    Alive => running = Cardinality({o \in Obj : Active(o)})
                       + Cardinality({b \in BootReq : boot[b].pc = "dec"})
                       + Cardinality({s \in StopReq : stop[s].pc = "dec"})

\* The process survives until the last member leaves: h.done is closed only
\* when no member is starting or running.
DoneOnlyWhenEmpty == [][(~done /\ done') => \A o \in Obj : ~Active(o)]_vars

\* createNetwork's double check: a network on the host is h.network or still in
\* the hands of the handler that made it, so a lost race leaks no bridge.
NetworkOwned == \A c \in nets : c = network \/ netPc[c] = "install"

\* While a member is registered and not being retired, its socket path leads to
\* it and its pidfile is there: no retire or register removed a successor's.
SocketServesMember ==
    \A n \in Name : (members[n] # None /\ mem[members[n]].retired = "no")
                    => (sock[n] = members[n] /\ n \in pidfile)

\* handleConn: a stop acts on the member whose socket carried it.
StopScoped == \A s \in StopReq : stop[s].obj # None => stop[s].obj = stop[s].conn

\* No two VMs of one name, that is, on one disk, run at a time, but for a boot
\* that the shutdown overtook (its VM dies with the process).
OneVMPerName == \A b, c \in live : Kept(b) /\ boot[b].name = boot[c].name => b = c

\* control.Stop reports success when the pidfile is gone; its caller may then
\* delete the disk, so by then no VM of that name may run: neither one a serving
\* process has, nor one that was up when the shutdown began.
StopMeansDown == \A b \in live : Kept(b) => boot[b].name \in pidfile

\* Members are down before the network is closed: a VM that was up when the
\* shutdown began has its network as long as it runs.
NetworkClosedLast == (\E b \in live : Kept(b)) => network \in nets

\* A clean exit leaves neither a network nor a socket nor a pidfile behind, but
\* what requests still in flight when the shutdown began made after it.
CleanExit ==
    main.pc = "exited" =>
        /\ nets \cap main.before = {}
        /\ \A n \in Name : (sock[n] # None \/ n \in pidfile)
                             => sock[n] \in BootReq \ main.before

\* bootMember's "already running" is true when a process that is not shutting down
\* says it: the VM runs.
RefusalMeansRunning ==
    [][\A b \in BootReq :
         (main.pc = "serving" /\ boot[b].pc = "check" /\ boot'[b].pc = "replied")
           => mem[boot[b].obj].vm \in live]_vars

\* Once the last member has left and nothing is on its way up, the holder exits.
HolderExits ==
    []<>(\/ ~Alive
         \/ \E n \in Name : members[n] # None
         \/ \E b \in BootReq : boot[b].pc \in {"register", "insert"})

=============================================================================
