------------------------------ MODULE ClientUp ------------------------------
(***************************************************************************)
(* The client side: `up', `down', `rm' and the library's StartCluster, each *)
(* a process of its own, over one store directory and the helpers they     *)
(* spawn (orchestrator.go, control.go, store.go, remote.go, cmd/fleetbox). *)
(*                                                                         *)
(* A client is used once.  The helper it may spawn has its name, and so    *)
(* has a disk it copies.  Every RPC goes to whichever process listens on   *)
(* the socket path of the primary member, every liveness test reads the    *)
(* pidfile, as in the code.  What a helper does with a request is the      *)
(* subject of Holder and is kept here to what a client can tell apart.     *)
(***************************************************************************)
EXTENDS FiniteSets, Naturals

CONSTANTS
    Name,       \* member names
    Created,    \* members that exist, stopped, from earlier on
    Client,     \* client processes
    ClusterOf,  \* store.ClusterName: a name without its trailing -<digits>
    Faults,     \* what may go wrong, see below
    Old,        \* the disk of a member created earlier
    None

\* Faults a run may allow:
\*   stepFails    fixtures, config.json, disk copy, seed or fixture image fail
\*   netFails     the spawn or createnetwork fails
\*   bootFails    boot-member, the wait for the address or for ssh fails
\*   slowHelper   a helper registers after its client has given up on it: the bind
\*                (5 s), then the dialling of every request (10 s)
\*   stopSlow     a stop outlives the 30 s poll of control.Stop
\*   clientCrash, helperCrash
\*   overlap      two clients work on one name at a time
Fault == {"stepFails", "netFails", "bootFails", "slowHelper", "stopSlow", "clientCrash",
          "helperCrash", "overlap"}

ASSUME ClientUpAssumption ==
    /\ Faults \subseteq Fault
    /\ Created \subseteq Name
    /\ DOMAIN ClusterOf = Name
    /\ {None, Old} \cap (Name \cup Client) = {}
    /\ None # Old

VARIABLES
    entry,   \* the store: name -> member directory, and the paths to its helper
    helper,  \* the helper each client may spawn
    cl,      \* the clients
    lapse    \* history: names whose clients did not take turns, died or deleted what may
             \* run, or that a late helper took from another or from a client at work, and
             \* helpers one of whose members was deleted from under them

vars == <<entry, helper, cl, lapse>>

Disk == Client \cup {Old}

\* starting: registered without a VM; reaping: stopped while it booted.
MemberState == {"none", "starting", "booting", "running", "stopping", "error", "reaping"}

\* cut: the config.json is there but does not parse.
Entry  == [dir : BOOLEAN, cfg : BOOLEAN, cut : BOOLEAN, seed : BOOLEAN,
           disk : Disk \cup {None}, pid : Client \cup {None}, sock : Client \cup {None}]
Helper == [up : {"none", "spawned", "up", "gone"}, mem : [Name -> MemberState],
           run : [Name -> Disk \cup {None}]]
Pc == {"idle", "look", "next", "bind", "network", "load", "create", "disk", "seed",
       "boot", "wait", "delete", "rollback", "destroy", "using", "close", "down",
       "rm", "remove", "stopCheck", "stopSend", "stopPoll", "ok", "err"}
Op == {"up", "lib", "down", "rm", "none"}
\* What upMembers found of a member, then what became of it.
Mark == {"no", "running", "missing", "old", "new"}
ClientRec ==
    [pc : Pc, op : Op, names : SUBSET Name, todo : SUBSET Name, mark : [Name -> Mark],
     name : Name \cup {None}, existing : BOOLEAN, primary : Name \cup {None},
     via : Client \cup {None}, ret : Pc, bind : BOOLEAN, had : [Name -> Disk \cup {None}]]

TypeOK ==
    /\ entry \in [Name -> Entry]
    /\ helper \in [Client -> Helper]
    /\ cl \in [Client -> ClientRec]
    /\ lapse \subseteq Name \cup Client

-----------------------------------------------------------------------------
(* Store and control helpers                                               *)

Absent == [dir |-> FALSE, cfg |-> FALSE, cut |-> FALSE, seed |-> FALSE, disk |-> None,
           pid |-> None, sock |-> None]
Stopped == [Absent EXCEPT !.dir = TRUE, !.cfg = TRUE, !.seed = TRUE, !.disk = Old]

Allowed(f) == f \in Faults
Ended(c) == cl[c].pc \in {"ok", "err"}
Active(c) == cl[c].pc # "idle" /\ ~Ended(c)
Busy(n) == \E c \in Client : Active(c) /\ n \in cl[c].names

Up(h) == h # None /\ helper[h].up = "up"
IsRunning(n) == Up(entry[n].pid)
Listening(n) == Up(entry[n].sock)
Listed == {n \in Name : entry[n].dir}

\* resolveTargets, for one pattern: an exact name wins over a cluster prefix.
Targets(pattern) ==
    IF pattern \in Listed THEN {pattern} ELSE {n \in Listed : ClusterOf[n] = pattern}

\* The locals of a client that has not begun, or has ended.
Idle == [pc |-> "idle", op |-> "none", names |-> {}, todo |-> {},
         mark |-> [n \in Name |-> "no"], name |-> None, existing |-> FALSE,
         primary |-> None, via |-> None, ret |-> "idle", bind |-> FALSE,
         had |-> [n \in Name |-> None]]

At(c, pc) == cl[c].pc = pc
\* The name a helper was spawned with outlives its client.
SpawnName(c) == IF helper[c].up = "spawned" THEN cl[c].primary ELSE None
Goto(c, pc) == cl' = [cl EXCEPT ![c] = IF pc \in {"ok", "err"}
                                       THEN [Idle EXCEPT !.pc = pc, !.op = cl[c].op,
                                                          !.primary = SpawnName(c)]
                                       ELSE [@ EXCEPT !.pc = pc]]

\* The bound helper of a library client, the detached one of the CLI.
Bound(h) == cl[h].op = "lib"
OwnsHelper(c) == helper[c].up # "none"

\* store.Delete: the member directory with the pidfile in it, and the socket.
Delete(n) == entry' = [entry EXCEPT ![n] = Absent]

\* register of a helper: the socket is rebound and the pidfile overwritten.
Registered(e, h) == [e EXCEPT !.dir = TRUE, !.pid = h, !.sock = h]
\* retire removes both by their paths, whoever they lead to.
Retired(e) == [e EXCEPT !.pid = None, !.sock = None]

Init ==
    /\ entry = [n \in Name |-> IF n \in Created THEN Stopped ELSE Absent]
    /\ helper = [h \in Client |-> [up |-> "none", mem |-> [n \in Name |-> "none"],
                                   run |-> [n \in Name |-> None]]]
    /\ cl = [c \in Client |-> Idle]
    /\ lapse = {}

-----------------------------------------------------------------------------
(* Commands                                                                *)

\* A library's names are its own: fleetboxtest derives them from the test's.
OfLibrary(n) == \E c \in Client : Active(c) /\ Bound(c) /\ n \in cl[c].names

Begin(c, op, ns, marks, pc) ==
    /\ (\E n \in ns : Busy(n)) => Allowed("overlap")
    /\ \A n \in ns : ~OfLibrary(n) /\ (op = "lib" => ~Busy(n) /\ ~IsRunning(n))
    /\ cl' = [cl EXCEPT ![c] = [@ EXCEPT !.pc = pc, !.op = op, !.names = ns, !.todo = ns,
                                         !.mark = [n \in Name |-> IF n \in ns THEN marks ELSE "no"],
                                         !.had = [n \in Name |->
                                                   IF op = "up" /\ entry[n].cfg
                                                   THEN entry[n].disk ELSE None]]]
    /\ lapse' = lapse \cup {n \in ns : Busy(n)}
    /\ UNCHANGED <<entry, helper>>

RunUp(c, ns) == Begin(c, "up", ns, "no", "look")
\* The library boots its names without asking which of them run.
StartCluster(c, ns) == Begin(c, "lib", ns, "missing", "next")
RunDown(c, pattern) == Targets(pattern) # {} /\ Begin(c, "down", Targets(pattern), "no", "down")
RunRm(c, pattern) == Targets(pattern) # {} /\ Begin(c, "rm", Targets(pattern), "no", "rm")

\* upMembers: which members run already, by their pidfiles, one at a time.
UpLook(c, n) ==
    /\ At(c, "look") /\ n \in cl[c].todo
    /\ cl' = [cl EXCEPT ![c].todo = @ \ {n},
                        ![c].mark[n] = IF IsRunning(n) THEN "running" ELSE "missing"]
    /\ UNCHANGED <<entry, helper, lapse>>

Marked(c, k) == {n \in Name : cl[c].mark[n] = k}

\* Nothing to do, a fresh helper for all, or the sole helper of those that run:
\* soleHolder asks each of them and fails when they are split.
UpDecide(c) ==
    /\ At(c, "look") /\ cl[c].todo = {}
    /\ LET running == Marked(c, "running")  missing == Marked(c, "missing")
           sole == /\ \A n \in running : IsRunning(n) /\ Listening(n)
                   /\ Cardinality({entry[n].sock : n \in running}) = 1 IN
       \/ missing = {} /\ Goto(c, "ok")
       \/ /\ missing # {} /\ running = {}
          /\ cl' = [cl EXCEPT ![c].pc = "next", ![c].todo = missing]
       \/ /\ missing # {} /\ running # {} /\ ~sole
          /\ Goto(c, "err")
       \/ /\ missing # {} /\ running # {} /\ sole
          /\ \E s \in running :
               cl' = [cl EXCEPT ![c].pc = "next", ![c].todo = missing, ![c].primary = s]
    /\ UNCHANGED <<entry, helper, lapse>>

-----------------------------------------------------------------------------
(* Cluster.Add, AddMember and startOnNetwork                               *)

\* The next member; the first one of a new cluster spawns the helper, and
\* AddMember asks for the network anew for each.
AddMember(c, n) ==
    /\ At(c, "next") /\ n \in cl[c].todo
    /\ \/ /\ cl[c].primary = None /\ Allowed("netFails")
          /\ Goto(c, "rollback") /\ UNCHANGED helper
       \/ /\ cl[c].primary = None
          /\ helper' = [helper EXCEPT ![c].up = "spawned"]
          /\ cl' = [cl EXCEPT ![c].pc = IF Bound(c) THEN "bind" ELSE "network",
                              ![c].name = n, ![c].primary = n]
       \/ /\ cl[c].primary # None
          /\ cl' = [cl EXCEPT ![c].pc = IF OwnsHelper(c) THEN "load" ELSE "network",
                              ![c].name = n]
          /\ UNCHANGED helper
    /\ UNCHANGED <<entry, lapse>>

\* A detached command ends; a library's cluster is used until its owner ends it.
AllAdded(c) ==
    /\ At(c, "next") /\ cl[c].todo = {}
    /\ Goto(c, IF cl[c].op = "lib" THEN "using" ELSE "ok")
    /\ UNCHANGED <<entry, helper, lapse>>

\* dialBind: Spawn waits for a bound helper to register, and without it goes on with
\* no connection whose end the helper would see.
Bind(c) ==
    /\ At(c, "bind")
    /\ \E held \in BOOLEAN :
         /\ IF held THEN helper[c].up = "up"
                    ELSE helper[c].up = "gone" \/ Allowed("slowHelper")
         /\ cl' = [cl EXCEPT ![c].pc = "network", ![c].bind = held]
    /\ UNCHANGED <<entry, helper, lapse>>

Answers(c) == Listening(cl[c].primary)
\* SendCommand keeps dialling while its own helper comes up, for 10 s.
NoAnswer(c) == ~Answers(c) /\ (helper[c].up = "spawned" => Allowed("slowHelper"))

\* Where a failed member leaves the command: AddMember returns, a cluster rolls back.
Unwind(c) == IF OwnsHelper(c) THEN "rollback" ELSE "err"

CreateNetwork(c) ==
    /\ At(c, "network")
    /\ \/ Answers(c) /\ Goto(c, "load")
       \/ Answers(c) /\ Allowed("netFails") /\ Goto(c, Unwind(c))
       \/ NoAnswer(c) /\ Goto(c, Unwind(c))
    /\ UNCHANGED <<entry, helper, lapse>>

\* Exists and Load, the reservation, and for a new member the check of its fixtures.
ReserveMember(c) ==
    /\ At(c, "load")
    /\ LET existing == entry[cl[c].name].cfg IN
       \/ entry[cl[c].name].cut /\ Goto(c, Unwind(c))
       \/ /\ Answers(c) /\ ~entry[cl[c].name].cut
          /\ cl' = [cl EXCEPT ![c].pc = IF existing THEN "seed" ELSE "create",
                              ![c].existing = existing]
       \/ NoAnswer(c) /\ Goto(c, Unwind(c))
       \/ ~existing /\ Allowed("stepFails") /\ Goto(c, Unwind(c))
    /\ UNCHANGED <<entry, helper, lapse>>

Saved(e) == [e EXCEPT !.dir = TRUE, !.cfg = TRUE, !.cut = FALSE]
\* What a Create that failed leaves: what was there, the directory, or a config.json
\* that was opened for writing and not written to its end.
Unsaved(e) == {e, [e EXCEPT !.dir = TRUE], [e EXCEPT !.dir = TRUE, !.cfg = TRUE, !.cut = TRUE]}

\* The delete is not deferred yet when Create fails.
CreateEntry(c) ==
    LET n == cl[c].name IN
    /\ At(c, "create")
    /\ \/ entry' = [entry EXCEPT ![n] = Saved(@)] /\ Goto(c, "disk")
       \/ /\ Allowed("stepFails") /\ Goto(c, Unwind(c))
          /\ \E e \in Unsaved(entry[n]) : entry' = [entry EXCEPT ![n] = e]
    /\ UNCHANGED <<helper, lapse>>

\* A step that writes into the member directory, which another client may have
\* deleted.  The deferred delete follows its failure for a new member.
Fails(c) == Allowed("stepFails") \/ ~entry[cl[c].name].dir
Failed(c) == IF cl[c].existing THEN Unwind(c) ELSE "delete"

\* Mutant: a failed disk copy leaves the entry behind.
CopyDiskKept(c) ==
    /\ At(c, "disk")
    /\ \/ /\ entry[cl[c].name].dir
          /\ entry' = [entry EXCEPT ![cl[c].name].disk = c]
          /\ Goto(c, "seed")
       \/ Fails(c) /\ Goto(c, Unwind(c)) /\ UNCHANGED entry
    /\ UNCHANGED <<helper, lapse>>

CopyDisk(c) ==
    /\ At(c, "disk")
    /\ \/ /\ entry[cl[c].name].dir
          /\ entry' = [entry EXCEPT ![cl[c].name].disk = c]
          /\ Goto(c, "seed")
       \/ Fails(c) /\ Goto(c, Failed(c)) /\ UNCHANGED entry
    /\ UNCHANGED <<helper, lapse>>

\* The seed of a new member, then the images of its fixtures, built at every boot.
CreateSeed(c) ==
    /\ At(c, "seed")
    /\ \/ /\ entry[cl[c].name].dir
          /\ entry' = [entry EXCEPT ![cl[c].name].seed = @ \/ ~cl[c].existing]
          /\ Goto(c, "boot")
       \/ Fails(c) /\ Goto(c, Failed(c)) /\ UNCHANGED entry
    /\ UNCHANGED <<helper, lapse>>

CallStop(c, n, ret) ==
    cl' = [cl EXCEPT ![c].pc = "stopCheck", ![c].name = n, ![c].ret = ret,
                        ![c].via = None, ![c].existing = FALSE]

\* Mutant: a member that fails to come up is not stopped.
StopFailedNot(c) == Goto(c, Failed(c))

\* backendVM.Stop after a boot or a wait that failed.
StopFailed(c) == CallStop(c, cl[c].name, Failed(c))

\* The boot-member RPC, and bootMember up to the launch.  A member that is not
\* registered is; one with a VM is refused; without a disk the boot fails.
\* (The reaping of an earlier boot is taken to end before a new one starts.)
BootMember(c) ==
    /\ At(c, "boot")
    /\ \/ NoAnswer(c) /\ StopFailed(c) /\ UNCHANGED <<entry, helper>>
       \/ /\ Answers(c)
          /\ LET n == cl[c].name  h == entry[cl[c].primary].sock  s == helper[h].mem[n] IN
             \/ /\ s \in {"booting", "running", "stopping"}
                /\ StopFailed(c) /\ UNCHANGED <<entry, helper>>
             \/ /\ s \in {"none", "starting", "error"}
                /\ entry' = [entry EXCEPT ![n] = IF s = "none" THEN Registered(@, h) ELSE @]
                /\ helper' = [helper EXCEPT
                                ![h].mem[n] = IF entry[n].disk = None THEN "error" ELSE "booting",
                                ![h].run[n] = entry[n].disk]
                /\ cl' = [cl EXCEPT ![c].pc = "wait", ![c].via = h]
    /\ UNCHANGED lapse

\* The reply, WaitForIP and waitForSSH.
WaitMember(c) ==
    /\ At(c, "wait")
    /\ LET n == cl[c].name  s == helper[cl[c].via].mem[n] IN
       \/ /\ s = "running"
          /\ cl' = [cl EXCEPT ![c].pc = "next", ![c].todo = @ \ {n}, ![c].name = None,
                              ![c].via = None, ![c].existing = FALSE,
                              ![c].mark[n] = IF cl[c].existing THEN "old" ELSE "new"]
       \/ s # "booting" /\ (s # "running" \/ Allowed("bootFails")) /\ StopFailed(c)
    /\ UNCHANGED <<entry, helper, lapse>>

\* The deferred st.Delete of a member this call created.  It takes the pidfile
\* and the socket of a helper that has the member registered, VM or not.
DeleteFailed(c) ==
    LET n == cl[c].name IN
    /\ At(c, "delete")
    /\ Delete(n)
    /\ Goto(c, Unwind(c))
    /\ lapse' = lapse \cup {h \in Client : helper[h].mem[n] # "none"}
    /\ UNCHANGED helper

-----------------------------------------------------------------------------
(* rollback, and the end of a library's cluster                            *)

\* Mutant: the members that existed before are left running.
AddedNew(c) == Marked(c, "new")

Added(c) == Marked(c, "old") \cup Marked(c, "new")

\* Mutant: the rollback destroys every member it added.
RollbackDestroysAll(c) ==
    /\ At(c, "rollback")
    /\ \E n \in Added(c) : CallStop(c, n, "destroy")
    /\ UNCHANGED <<entry, helper, lapse>>

\* The CLI stops what existed before and destroys what it made; the library,
\* and a test's cleanup, destroy every member.
Rollback(c) ==
    /\ At(c, "rollback")
    /\ \E n \in Added(c) :
         CallStop(c, n, IF cl[c].op = "up" /\ cl[c].mark[n] = "old" THEN "rollback"
                                                                    ELSE "destroy")
    /\ UNCHANGED <<entry, helper, lapse>>

\* The second half of VM.Destroy: delete, when the entry still exists.
Destroy(c) ==
    /\ At(c, "destroy")
    /\ IF entry[cl[c].name].cfg THEN Delete(cl[c].name) ELSE UNCHANGED entry
    /\ cl' = [cl EXCEPT ![c].pc = "rollback", ![c].mark[cl[c].name] = "no", ![c].name = None]
    /\ UNCHANGED <<helper, lapse>>

\* Cluster.Close: a detached helper is released, a bound one sees the session
\* close (HelperEnd), if it was ever bound, and is waited for.
RolledBack(c) ==
    /\ At(c, "rollback") /\ Added(c) = {}
    /\ Goto(c, IF Bound(c) THEN "close" ELSE "err")
    /\ UNCHANGED <<entry, helper, lapse>>

Closed(c) ==
    /\ At(c, "close") /\ helper[c].up \in {"none", "gone"}
    /\ Goto(c, "err")
    /\ UNCHANGED <<entry, helper, lapse>>

EndCluster(c) == At(c, "using") /\ Goto(c, "rollback") /\ UNCHANGED <<entry, helper, lapse>>

-----------------------------------------------------------------------------
(* control.Stop, down and rm                                               *)

\* Mutant: rm deletes after a failed stop as well.
StopReturnCareless(c, ok) ==
    LET n == cl[c].name  ret == cl[c].ret IN
    IF ret = "err" THEN Goto(c, "err") ELSE
    cl' = [cl EXCEPT ![c].pc = ret,
                     ![c].todo = IF ret = "down" THEN @ \ {n} ELSE @,
                     ![c].ret = "idle",
                     ![c].name = IF ret \in {"rollback", "down"} THEN None ELSE @,
                     ![c].mark[n] = IF ret = "rollback" THEN "no" ELSE @]

\* Where the caller goes on: rm alone minds an error.
StopReturn(c, ok) ==
    LET n == cl[c].name  ret == cl[c].ret IN
    IF ret = "err" THEN Goto(c, "err") ELSE
    cl' = [cl EXCEPT ![c].pc = IF ret = "remove" /\ ~ok THEN "rm" ELSE ret,
                     ![c].todo = IF ret = "down" \/ (ret = "remove" /\ ~ok) THEN @ \ {n} ELSE @,
                     ![c].ret = "idle",
                     ![c].name = IF ret \in {"rollback", "down"} THEN None ELSE @,
                     ![c].mark[n] = IF ret = "rollback" THEN "no" ELSE @]

\* Destroy ignores the error of Stop and deletes what may still run.
StopError(c) ==
    /\ StopReturn(c, FALSE)
    /\ lapse' = IF cl[c].ret \in {"destroy", "delete"} THEN lapse \cup {cl[c].name} ELSE lapse

StopCheck(c) ==
    /\ At(c, "stopCheck")
    /\ IF IsRunning(cl[c].name) THEN Goto(c, "stopSend") ELSE StopReturn(c, TRUE)
    /\ UNCHANGED <<entry, helper, lapse>>

\* The request reaches whoever listens.  A member with a VM goes down first; one
\* still booting is retired at once and its VM reaped when the boot gives up.
StopSend(c) ==
    LET n == cl[c].name  h == entry[cl[c].name].sock IN
    /\ At(c, "stopSend")
    /\ \/ ~Listening(n) /\ StopError(c) /\ UNCHANGED <<entry, helper>>
       \/ /\ Listening(n)
          /\ helper' = [helper EXCEPT ![h].mem[n] =
                          IF @ \in {"starting", "running", "error"} THEN "stopping"
                          ELSE IF @ = "booting" THEN "reaping" ELSE @]
          /\ entry' = [entry EXCEPT ![n] =
                         IF helper[h].mem[n] = "booting" THEN Retired(@) ELSE @]
          /\ Goto(c, "stopPoll")
          /\ UNCHANGED lapse

\* The helper that the pidfile names is stopping the member.
Stopping(n) == helper[entry[n].pid].mem[n] \in {"stopping", "reaping"}

StopPoll(c) ==
    /\ At(c, "stopPoll")
    /\ \/ ~IsRunning(cl[c].name) /\ StopReturn(c, TRUE) /\ UNCHANGED lapse
       \/ IsRunning(cl[c].name) /\ (Allowed("stopSlow") \/ ~Stopping(cl[c].name)) /\ StopError(c)
    /\ UNCHANGED <<entry, helper>>

\* The loops of down and rm over their targets, best effort.
DownNext(c, n) ==
    /\ At(c, "down") /\ n \in cl[c].todo
    /\ IF IsRunning(n) THEN CallStop(c, n, "down") ELSE cl' = [cl EXCEPT ![c].todo = @ \ {n}]
    /\ UNCHANGED <<entry, helper, lapse>>

RmNext(c, n) ==
    /\ At(c, "rm") /\ n \in cl[c].todo
    /\ IF IsRunning(n) THEN CallStop(c, n, "remove")
                       ELSE cl' = [cl EXCEPT ![c].pc = "remove", ![c].name = n]
    /\ UNCHANGED <<entry, helper, lapse>>

RmDelete(c) ==
    /\ At(c, "remove")
    /\ Delete(cl[c].name)
    /\ cl' = [cl EXCEPT ![c].pc = "rm", ![c].todo = @ \ {cl[c].name}, ![c].name = None]
    /\ UNCHANGED <<helper, lapse>>

LoopDone(c) ==
    /\ cl[c].pc \in {"down", "rm"} /\ cl[c].todo = {}
    /\ Goto(c, "ok")
    /\ UNCHANGED <<entry, helper, lapse>>

\* A name the client was at work on is left as it is.
ClientCrash(c) ==
    /\ Active(c) /\ Allowed("clientCrash")
    /\ Goto(c, "err")
    /\ lapse' = lapse \cup cl[c].names
    /\ UNCHANGED <<entry, helper>>

-----------------------------------------------------------------------------
(* Helpers, as far as a client can tell                                    *)

\* Whom a helper that registers n may meet there: one that has it already, or a
\* client other than its own at work on it.
Met(h, n) == \E d \in Client \ {h} : helper[d].mem[n] # "none"
                                    \/ (Active(d) /\ n \in cl[d].names)

\* Run registers the spawn name before it answers anything.
HelperServe(h) ==
    LET n == cl[h].primary IN
    /\ helper[h].up = "spawned"
    /\ helper' = [helper EXCEPT ![h].up = "up", ![h].mem[n] = "starting"]
    /\ entry' = [entry EXCEPT ![n] = Registered(@, h)]
    /\ lapse' = lapse \cup {m \in {n} : Met(h, m)}
    /\ UNCHANGED cl

SetMember(h, n, s, d) == helper' = [helper EXCEPT ![h].mem[n] = s, ![h].run[n] = d]

HelperBooted(h, n) ==
    /\ Up(h) /\ helper[h].mem[n] = "booting"
    /\ \/ SetMember(h, n, "running", helper[h].run[n])
       \/ Allowed("bootFails") /\ SetMember(h, n, "error", None)
    /\ UNCHANGED <<entry, cl, lapse>>

HelperStopVM(h, n) ==
    /\ Up(h)
    /\ \/ helper[h].mem[n] = "stopping" /\ helper[h].run[n] # None
          /\ SetMember(h, n, "stopping", None)
       \/ helper[h].mem[n] = "reaping" /\ SetMember(h, n, "none", None)
    /\ UNCHANGED <<entry, cl, lapse>>

HelperRetire(h, n) ==
    /\ Up(h) /\ helper[h].mem[n] = "stopping" /\ helper[h].run[n] = None
    /\ SetMember(h, n, "none", None)
    /\ entry' = [entry EXCEPT ![n] = Retired(@)]
    /\ UNCHANGED <<cl, lapse>>

Gone(h) == helper' = [helper EXCEPT ![h] = [up |-> "gone", mem |-> [n \in Name |-> "none"],
                                            run |-> [n \in Name |-> None]]]

\* The last member has left, or the client of a bound helper has.
HelperEnd(h) ==
    /\ Up(h)
    /\ \/ \A n \in Name : helper[h].mem[n] \in {"none", "error"}
       \/ Bound(h) /\ (Ended(h) \/ (At(h, "close") /\ cl[h].bind))
    /\ Gone(h)
    /\ entry' = [n \in Name |-> IF helper[h].mem[n] \in {"none", "reaping"} THEN entry[n]
                                ELSE Retired(entry[n])]
    /\ UNCHANGED <<cl, lapse>>

\* The VMs die with the process, its files stay.
HelperCrash(h) ==
    /\ helper[h].up \in {"spawned", "up"} /\ Allowed("helperCrash")
    /\ Gone(h)
    /\ UNCHANGED <<entry, cl, lapse>>

-----------------------------------------------------------------------------

Command(c) ==
    /\ At(c, "idle")
    /\ \/ \E ns \in SUBSET Name \ {{}} : RunUp(c, ns) \/ StartCluster(c, ns)
       \/ \E p \in Name \cup {ClusterOf[n] : n \in Name} : RunDown(c, p) \/ RunRm(c, p)

ClientWork(c) ==
    \/ \E n \in Name : UpLook(c, n) \/ AddMember(c, n) \/ DownNext(c, n) \/ RmNext(c, n)
    \/ UpDecide(c) \/ AllAdded(c) \/ Bind(c) \/ CreateNetwork(c) \/ ReserveMember(c)
    \/ CreateEntry(c) \/ CopyDisk(c) \/ CreateSeed(c) \/ BootMember(c)
    \/ WaitMember(c) \/ DeleteFailed(c) \/ Rollback(c) \/ Destroy(c) \/ RolledBack(c) \/ Closed(c)
    \/ EndCluster(c) \/ StopCheck(c) \/ StopSend(c) \/ StopPoll(c) \/ RmDelete(c)
    \/ LoopDone(c)

HelperWork(h) ==
    \/ HelperServe(h) \/ HelperEnd(h)
    \/ \E n \in Name : HelperBooted(h, n) \/ HelperStopVM(h, n) \/ HelperRetire(h, n)

Quiet == (\A c \in Client : Ended(c)) /\ UNCHANGED vars

Next ==
    \/ \E c \in Client : Command(c) \/ ClientWork(c) \/ ClientCrash(c)
    \/ \E h \in Client : HelperWork(h) \/ HelperCrash(h)
    \/ Quiet

Spec == Init /\ [][Next]_vars

-----------------------------------------------------------------------------
(* Properties                                                              *)

\* The rollback of `up' is disk-safe: no step of an up removes or replaces the disk
\* of a member that existed (had a config.json) when the command began, whoever
\* else is at work.
UpKeepsDisks ==
    [][\A c \in Client : (cl[c].op = "up" /\ cl'[c] # cl[c]) =>
         \A n \in Name : (entry[n].disk # None /\ entry[n].disk = cl[c].had[n])
                         => entry'[n].disk = entry[n].disk]_vars

\* No VM loses the disk it runs on: rm and the rollback delete a member only
\* after its VM is down, for a name whose clients took turns.
RunningKeepsDisk ==
    \A h \in Client, n \in Name \ lapse :
        helper[h].run[n] # None => entry[n].disk = helper[h].run[n]

\* What up takes for an existing member is complete: a config.json that it can load
\* stands for a disk and a seed, unless the client that makes them is still at it.
EntryComplete ==
    \A n \in Name \ lapse :
        entry[n].cfg /\ ~entry[n].cut =>
            \/ entry[n].disk # None /\ entry[n].seed
            \/ \E c \in Client : cl[c].pc \in {"disk", "seed", "delete"} /\ cl[c].name = n

LeadsTo(n, h) == entry[n].pid = h /\ entry[n].sock = h

\* up is all or nothing: when one that spawned a helper has failed, none of its
\* members is left running there, or booting; at worst its stop is under way.
AllOrNothing ==
    [][\A c \in Client : (cl[c].op = "up" /\ ~Ended(c) /\ cl'[c].pc = "err") =>
         \A n \in cl[c].names \ lapse' : helper'[c].mem[n] \notin {"booting", "running"}]_vars

\* What runs can be told to stop: the pidfile and the socket of a member that has
\* a VM lead to the helper that runs it, and a live detached helper is led to by
\* some member it has, unless one was deleted from under it, or was not handled
\* in turns.
Addressable ==
    \A h \in Client :
        /\ \A n \in Name \ lapse : helper[h].run[n] # None => LeadsTo(n, h)
        /\ LET served == {n \in Name : helper[h].mem[n] \notin {"none", "error"}} IN
           (Up(h) /\ ~Bound(h) /\ served # {} /\ h \notin lapse /\ served \cap lapse = {})
           => \E n \in Name : helper[h].mem[n] # "none" /\ LeadsTo(n, h)

=============================================================================
