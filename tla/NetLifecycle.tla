---------------------------- MODULE NetLifecycle ----------------------------
(***************************************************************************)
(* The Linux network of a holder and its write-ahead record                *)
(* (internal/backend/cloudhypervisor: network.go, netstate.go,             *)
(* forwarding.go), on a host where several holders come, go and crash.     *)
(*                                                                         *)
(* A process sweeps what dead ones left (reconcile), may create one        *)
(* network (a record, a bridge, the uplink's forwarding flag, an nft       *)
(* table), adds and removes a tap for each VM, and closes the network.  A  *)
(* process that only sweeps is `prune'.  Processes share the host and the  *)
(* directory of records, and nothing locks either: a step is what one      *)
(* process does to one thing on the host, to one file, or in one section   *)
(* of the network's lock.                                                  *)
(*                                                                         *)
(* The network, its bridge, table and record have the name of the process, *)
(* which creates one network at most.  pidAlive is right: the number of a  *)
(* dead process is not reused.  The host has an uplink and does not        *)
(* forward globally; otherwise enableForwarding changes nothing.           *)
(***************************************************************************)
EXTENDS Naturals, FiniteSets

CONSTANTS
    Proc,     \* holders and prunes
    Slot,     \* VM slots of a holder
    Mishaps,  \* what may go wrong in a run, see below
    None

\* Mishaps a run may allow:
\*   crash                a process dies at any point but the one below
\*   crashMidSweep        ... while a sweep has read its record and not acted
\*   addFails             a step that adds a device or a file, or writes one, fails
\*   delFails             the kernel refuses to remove a device or a table
\*   closeBusy            the network is closed while a VM comes or goes
\*   createDuringRestore  a network is created while the flag is restored
Mishap ==
    {"crash", "crashMidSweep", "addFails", "delFails", "closeBusy", "createDuringRestore"}

ASSUME NetAssumption ==
    /\ Mishaps \subseteq Mishap
    /\ None \notin Proc \cup {"0", "empty", "cut"}

VARIABLES
    pc,       \* where each process is
    phase,    \* "start": reconcile(true), "create": CreateNetwork, "close": Close
    listed,   \* sweep: processes whose record was listed and not yet looked at
    snap,     \* sweep and Close: taps as they were listed or cloned
    cur,      \* sweep: owner of the record it works on
    taps,     \* chNetwork.taps
    tapPc,    \* the VM slots: createTap and deleteTap
    recorded, \* record files that exist
    recTaps,  \* and the taps they name
    bridges, tables, links, \* on the host; links are the taps
    fwd,      \* the uplink's forwarding flag
    marker    \* fwd-<uplink>.orig: None, the value in it, "empty" with its writer at
              \* work, or "cut": empty, and its writer failed or dead

netVars == <<taps, tapPc, recorded, recTaps, bridges, tables, links, fwd, marker>>
sweepVars == <<listed, snap, cur>>
host == <<bridges, tables, links>>
vars == <<pc, phase, listed, snap, cur, taps, tapPc, recorded, recTaps,
          bridges, tables, links, fwd, marker>>

Tap == Proc \X Slot
TapsOf(p) == {t \in Tap : t[1] = p}

SweepPc   == {"list", "pick", "sweepTaps", "sweepTable", "sweepBridge", "sweepBridgeKeep",
              "sweepRecord"}
RestorePc == {"restoreBridges", "restoreWrite", "restoreClear"}
CreatePc  == {"record", "bridge", "address", "undo", "undoRecord", "uplink", "mark",
              "markWrite", "flip", "firewall"}
ClosePc   == {"close", "closeTaps", "closeTable", "closeBridge", "closeBridgeKeep",
              "closeRecord"}
GonePc    == {"new", "ended", "crashed"}
Pc == SweepPc \cup RestorePc \cup CreatePc \cup ClosePc \cup GonePc
        \cup {"restore", "idle", "up", "leave"}
TapPc == {"none", "persist", "add", "attach", "used", "unlink", "drop", "rewrite",
          "stuck", "gone"}

TypeOK ==
    /\ pc \in [Proc -> Pc]
    /\ phase \in [Proc -> {"start", "create", "close"}]
    /\ listed \in [Proc -> SUBSET Proc]
    /\ snap \in [Proc -> [Proc -> SUBSET Tap]]
    /\ cur \in [Proc -> Proc \cup {None}]
    /\ taps \in [Proc -> SUBSET Tap]
    /\ tapPc \in [Tap -> TapPc]
    /\ recorded \subseteq Proc
    /\ recTaps \in [Proc -> SUBSET Tap]
    /\ bridges \subseteq Proc
    /\ tables \subseteq Proc
    /\ links \subseteq Tap
    /\ fwd \in {"0", "1"}
    /\ marker \in {None, "empty", "cut", "0"}

Allowed(mishap) == mishap \in Mishaps
Alive(p) == pc[p] \notin GonePc
Busy(t) == tapPc[t] \in {"persist", "add", "attach", "used", "unlink", "drop", "rewrite"}

Init ==
    /\ pc = [p \in Proc |-> "new"]
    /\ phase = [p \in Proc |-> "start"]
    /\ listed = [p \in Proc |-> {}]
    /\ snap = [p \in Proc |-> [q \in Proc |-> {}]]
    /\ cur = [p \in Proc |-> None]
    /\ taps = [p \in Proc |-> {}]
    /\ tapPc = [t \in Tap |-> "none"]
    /\ recorded = {} /\ recTaps = [p \in Proc |-> {}]
    /\ bridges = {} /\ tables = {} /\ links = {}
    /\ fwd = "0" /\ marker = None

At(p, from) == pc[p] = from
Goto(p, to) == pc' = [pc EXCEPT ![p] = to]

\* persist, under n.mu: the record is rewritten from the taps in memory.
Persist(p) ==
    /\ recorded' = recorded \cup {p}
    /\ recTaps' = [recTaps EXCEPT ![p] = taps[p]]

\* netStore.delete: a record that is gone already is no error.
DeleteRecord(p) ==
    /\ recorded' = recorded \ {p}
    /\ recTaps' = [recTaps EXCEPT ![p] = {}]

\* What is left of a set of links or tables once some were to be deleted:
\* delLink and removeFirewall find what is gone already no error.
Deleted(set, gone) ==
    {set \ gone} \cup (IF Allowed("delFails") THEN {set} ELSE {})

-----------------------------------------------------------------------------
(* reconcile                                                               *)

Start(p) ==
    /\ At(p, "new") /\ Goto(p, "list")
    /\ UNCHANGED <<phase, sweepVars, netVars>>

\* netStore.list reads every record.
SweepList(p) ==
    /\ At(p, "list") /\ Goto(p, "pick")
    /\ listed' = [listed EXCEPT ![p] = recorded]
    /\ snap' = [snap EXCEPT ![p] = recTaps]
    /\ UNCHANGED <<phase, cur, netVars>>

\* Mutant: the owner is not asked for.
SweepPickAny(p, d) ==
    /\ At(p, "pick") /\ d \in listed[p] /\ d # p
    /\ listed' = [listed EXCEPT ![p] = @ \ {d}]
    /\ Goto(p, "sweepTaps") /\ cur' = [cur EXCEPT ![p] = d]
    /\ UNCHANGED <<phase, snap, netVars>>

\* A record whose owner is alive is left alone.
SweepPick(p, d) ==
    /\ At(p, "pick") /\ d \in listed[p]
    /\ listed' = [listed EXCEPT ![p] = @ \ {d}]
    /\ \/ Alive(d) /\ UNCHANGED <<pc, cur>>
       \/ ~Alive(d) /\ Goto(p, "sweepTaps") /\ cur' = [cur EXCEPT ![p] = d]
    /\ UNCHANGED <<phase, snap, netVars>>

SweepTap(p, t) ==
    /\ At(p, "sweepTaps") /\ t \in snap[p][cur[p]]
    /\ snap' = [snap EXCEPT ![p][cur[p]] = @ \ {t}]
    /\ links' \in Deleted(links, {t})
    /\ UNCHANGED <<pc, phase, listed, cur, taps, tapPc, recorded, recTaps, bridges, tables,
                   fwd, marker>>

SweepTapsDone(p) ==
    /\ At(p, "sweepTaps") /\ snap[p][cur[p]] = {} /\ Goto(p, "sweepTable")
    /\ UNCHANGED <<phase, sweepVars, netVars>>

SweepTable(p) ==
    /\ At(p, "sweepTable") /\ tables' \in Deleted(tables, {cur[p]})
    /\ Goto(p, IF cur[p] \in tables' THEN "sweepBridgeKeep" ELSE "sweepBridge")
    /\ UNCHANGED <<phase, sweepVars, taps, tapPc, recorded, recTaps, bridges, links,
                   fwd, marker>>

\* Mutant: the record goes whether or not the table and the bridge are gone.
SweepBridgeUnchecked(p) ==
    /\ pc[p] \in {"sweepBridge", "sweepBridgeKeep"}
    /\ bridges' \in Deleted(bridges, {cur[p]})
    /\ Goto(p, "sweepRecord")
    /\ UNCHANGED <<phase, sweepVars, taps, tapPc, recorded, recTaps, tables, links,
                   fwd, marker>>

\* The record goes when the table and the bridge are gone.
SweepBridge(p) ==
    /\ pc[p] \in {"sweepBridge", "sweepBridgeKeep"}
    /\ bridges' \in Deleted(bridges, {cur[p]})
    /\ Goto(p, IF At(p, "sweepBridge") /\ cur[p] \notin bridges' THEN "sweepRecord"
               ELSE "pick")
    /\ UNCHANGED <<phase, sweepVars, taps, tapPc, recorded, recTaps, tables, links,
                   fwd, marker>>

\* Mutant: the record of a reclaimed network is not deleted.
SweepRecordKept(p) ==
    /\ At(p, "sweepRecord") /\ Goto(p, "pick")
    /\ UNCHANGED <<phase, sweepVars, netVars>>

SweepRecord(p) ==
    /\ At(p, "sweepRecord") /\ Goto(p, "pick")
    /\ DeleteRecord(cur[p])
    /\ UNCHANGED <<phase, sweepVars, taps, tapPc, host, fwd, marker>>

\* The end of the sweep: CreateNetwork goes on, Reconcile restores the flag.
SweepEnd(p) ==
    /\ At(p, "pick") /\ listed[p] = {}
    /\ Goto(p, IF phase[p] = "create" THEN "record" ELSE "restore")
    /\ UNCHANGED <<phase, sweepVars, netVars>>

-----------------------------------------------------------------------------
(* maybeRestoreForwarding, at the end of Reconcile and of Close            *)

AfterRestore(p) == IF phase[p] = "start" THEN "idle" ELSE "leave"

\* Mutant: the records of other holders are not looked at.
RestoreUnchecked(p) ==
    /\ At(p, "restore") /\ Goto(p, "restoreWrite")
    /\ UNCHANGED <<phase, sweepVars, netVars>>

\* No record may be left, ...
Restore(p) ==
    /\ At(p, "restore")
    /\ Goto(p, IF recorded = {} THEN "restoreBridges" ELSE AfterRestore(p))
    /\ UNCHANGED <<phase, sweepVars, netVars>>

\* ... and no bridge.
RestoreBridges(p) ==
    /\ At(p, "restoreBridges")
    /\ Goto(p, IF bridges = {} THEN "restoreWrite" ELSE AfterRestore(p))
    /\ UNCHANGED <<phase, sweepVars, netVars>>

\* The kernel refuses the value of an empty marker, and the marker stays.
RestoreWrite(p) ==
    /\ At(p, "restoreWrite")
    /\ IF marker = "0"
       THEN fwd' = "0" /\ Goto(p, "restoreClear")
       ELSE Goto(p, AfterRestore(p)) /\ UNCHANGED fwd
    /\ UNCHANGED <<phase, sweepVars, taps, tapPc, recorded, recTaps, host, marker>>

RestoreClear(p) ==
    /\ At(p, "restoreClear") /\ Goto(p, AfterRestore(p))
    /\ marker' = None
    /\ UNCHANGED <<phase, sweepVars, taps, tapPc, recorded, recTaps, host, fwd>>

-----------------------------------------------------------------------------
(* CreateNetwork                                                           *)

CreateNetwork(p) ==
    /\ At(p, "idle") /\ Goto(p, "list")
    /\ phase' = [phase EXCEPT ![p] = "create"]
    /\ UNCHANGED <<sweepVars, netVars>>

\* Write-ahead: the record comes before the bridge.
NetRecord(p) ==
    /\ At(p, "record")
    /\ (\E q \in Proc : pc[q] \in RestorePc) => Allowed("createDuringRestore")
    /\ \/ Persist(p) /\ Goto(p, "bridge")
       \/ /\ Allowed("addFails")
          /\ Goto(p, "leave") /\ UNCHANGED <<recorded, recTaps>>
    /\ UNCHANGED <<phase, sweepVars, taps, tapPc, host, fwd, marker>>

NetBridge(p) ==
    /\ At(p, "bridge")
    /\ \/ /\ bridges' = bridges \cup {p} /\ Goto(p, "address")
          /\ UNCHANGED <<recorded, recTaps>>
       \/ /\ Allowed("addFails")
          /\ DeleteRecord(p) /\ Goto(p, "leave") /\ UNCHANGED bridges
    /\ UNCHANGED <<phase, sweepVars, taps, tapPc, tables, links, fwd, marker>>

\* nftProbe has a rollback of its own; a failure after it goes to Close.
NetAddress(p) ==
    /\ At(p, "address")
    /\ \E to \in {"uplink"} \cup (IF Allowed("addFails") THEN {"undo", "close"} ELSE {}) :
          Goto(p, to)
    /\ UNCHANGED <<phase, sweepVars, netVars>>

NetUndo(p) ==
    /\ At(p, "undo")
    /\ \/ bridges' = bridges \ {p} /\ Goto(p, "undoRecord")
       \/ Allowed("delFails") /\ Goto(p, "leave") /\ UNCHANGED bridges
    /\ UNCHANGED <<phase, sweepVars, taps, tapPc, recorded, recTaps, tables, links,
                   fwd, marker>>

NetUndoRecord(p) ==
    /\ At(p, "undoRecord") /\ Goto(p, "leave")
    /\ DeleteRecord(p)
    /\ UNCHANGED <<phase, sweepVars, taps, tapPc, host, fwd, marker>>

\* enableForwarding reads the flag and rewrites the record with the uplink; a
\* flag that is up is not ours to restore.
FwdRead(p) ==
    /\ At(p, "uplink")
    /\ \/ Persist(p) /\ Goto(p, IF fwd = "0" THEN "mark" ELSE "firewall")
       \/ Allowed("addFails") /\ Goto(p, "close") /\ UNCHANGED <<recorded, recTaps>>
    /\ UNCHANGED <<phase, sweepVars, taps, tapPc, host, fwd, marker>>

\* Mutant: the flag is flipped before its value is kept.
FwdMarkLate(p) ==
    /\ At(p, "mark") /\ Goto(p, "firewall")
    /\ fwd' = "1"
    /\ UNCHANGED <<phase, sweepVars, taps, tapPc, recorded, recTaps, host, marker>>

\* saveForwardingOrig: O_EXCL, the first writer wins.
FwdMark(p) ==
    /\ At(p, "mark")
    /\ \/ marker = None /\ marker' = "empty" /\ Goto(p, "markWrite")
       \/ marker # None /\ Goto(p, "flip") /\ UNCHANGED marker
       \/ Allowed("addFails") /\ Goto(p, "close") /\ UNCHANGED marker
    /\ UNCHANGED <<phase, sweepVars, taps, tapPc, recorded, recTaps, host, fwd>>

\* A write that fails leaves the file, which the next holder takes for the value.
FwdMarkWrite(p) ==
    /\ At(p, "markWrite")
    /\ \/ marker' = "0" /\ Goto(p, "flip")
       \/ Allowed("addFails") /\ marker' = "cut" /\ Goto(p, "close")
    /\ UNCHANGED <<phase, sweepVars, taps, tapPc, recorded, recTaps, host, fwd>>

FwdFlip(p) ==
    /\ At(p, "flip")
    /\ \/ fwd' = "1" /\ Goto(p, "firewall")
       \/ Allowed("addFails") /\ Goto(p, "close") /\ UNCHANGED fwd
    /\ UNCHANGED <<phase, sweepVars, taps, tapPc, recorded, recTaps, host, marker>>

\* installFirewall may fail with the table in place (verifyFirewall).
NetFirewall(p) ==
    /\ At(p, "firewall")
    /\ \/ tables' = tables \cup {p} /\ Goto(p, "up")
       \/ /\ Allowed("addFails") /\ Goto(p, "close")
          /\ tables' \in {tables, tables \cup {p}}
    /\ UNCHANGED <<phase, sweepVars, taps, tapPc, recorded, recTaps, bridges, links,
                   fwd, marker>>

-----------------------------------------------------------------------------
(* createTap and deleteTap, one handler for each VM slot                   *)

TapAt(t, from) == Alive(t[1]) /\ tapPc[t] = from
TapGoto(t, to) == tapPc' = [tapPc EXCEPT ![t] = to]
TapRest == <<pc, phase, sweepVars, fwd, marker>>

\* The tap joins n.taps; the record follows.
TapBegin(t) ==
    /\ TapAt(t, "none") /\ TapGoto(t, "persist")
    /\ pc[t[1]] = "up" \/ (phase[t[1]] = "close" /\ Allowed("closeBusy"))
    /\ taps' = [taps EXCEPT ![t[1]] = @ \cup {t}]
    /\ UNCHANGED <<TapRest, recorded, recTaps, host>>

\* Mutant: the tap is made before it is recorded.
TapPersistLate(t) ==
    /\ TapAt(t, "persist") /\ TapGoto(t, "attach")
    /\ links' = links \cup {t}
    /\ UNCHANGED <<TapRest, taps, recorded, recTaps, bridges, tables>>

TapPersist(t) ==
    /\ TapAt(t, "persist")
    /\ \/ Persist(t[1]) /\ TapGoto(t, "add")
       \/ Allowed("addFails") /\ TapGoto(t, "drop") /\ UNCHANGED <<recorded, recTaps>>
    /\ UNCHANGED <<TapRest, taps, host>>

TapAdd(t) ==
    /\ TapAt(t, "add")
    /\ \/ links' = links \cup {t} /\ TapGoto(t, "attach")
       \/ Allowed("addFails") /\ TapGoto(t, "unlink") /\ UNCHANGED links
    /\ UNCHANGED <<TapRest, taps, recorded, recTaps, bridges, tables>>

\* The tap is enslaved to the bridge and brought up; else it is rolled back.
TapAttach(t) ==
    /\ TapAt(t, "attach")
    /\ \/ t[1] \in bridges /\ t \in links /\ TapGoto(t, "used")
       \/ /\ Allowed("addFails") \/ t[1] \notin bridges \/ t \notin links
          /\ TapGoto(t, "unlink")
    /\ UNCHANGED <<TapRest, taps, recorded, recTaps, host>>

\* The rollback drops the tap from the record whatever delLink says.
TapUndo(t) ==
    /\ TapAt(t, "unlink") /\ TapGoto(t, "drop")
    /\ links' \in Deleted(links, {t})
    /\ UNCHANGED <<TapRest, taps, recorded, recTaps, bridges, tables>>

\* deleteTap, from VM.Stop: a tap that is still there keeps its record.
TapDelete(t) ==
    /\ TapAt(t, "used") /\ links' \in Deleted(links, {t})
    /\ TapGoto(t, IF t \in links' THEN "stuck" ELSE "drop")
    /\ UNCHANGED <<TapRest, taps, recorded, recTaps, bridges, tables>>

\* dropTap, in memory and then in the record.
TapDrop(t) ==
    /\ TapAt(t, "drop") /\ TapGoto(t, "rewrite")
    /\ taps' = [taps EXCEPT ![t[1]] = @ \ {t}]
    /\ UNCHANGED <<TapRest, recorded, recTaps, host>>

TapRewrite(t) ==
    /\ TapAt(t, "rewrite") /\ TapGoto(t, "gone")
    /\ \/ Persist(t[1])
       \/ Allowed("addFails") /\ UNCHANGED <<recorded, recTaps>>
    /\ UNCHANGED <<TapRest, taps, host>>

TapWork(t) ==
    \/ TapPersist(t) \/ TapAdd(t) \/ TapAttach(t) \/ TapUndo(t) \/ TapDelete(t)
    \/ TapDrop(t) \/ TapRewrite(t)

-----------------------------------------------------------------------------
(* Close and the end of a process                                          *)

\* The holder stops its VMs first.
Close(p) ==
    /\ At(p, "up") /\ Goto(p, "close")
    /\ (\E t \in TapsOf(p) : Busy(t)) => Allowed("closeBusy")
    /\ phase' = [phase EXCEPT ![p] = "close"]
    /\ UNCHANGED <<sweepVars, netVars>>

\* The taps are cloned and forgotten under n.mu.
CloseClone(p) ==
    /\ At(p, "close") /\ Goto(p, "closeTaps")
    /\ snap' = [snap EXCEPT ![p][p] = taps[p]]
    /\ taps' = [taps EXCEPT ![p] = {}]
    /\ UNCHANGED <<phase, listed, cur, tapPc, recorded, recTaps, host, fwd, marker>>

CloseTap(p, t) ==
    /\ At(p, "closeTaps") /\ t \in snap[p][p]
    /\ snap' = [snap EXCEPT ![p][p] = @ \ {t}]
    /\ links' \in Deleted(links, {t})
    /\ UNCHANGED <<pc, phase, listed, cur, taps, tapPc, recorded, recTaps, bridges, tables,
                   fwd, marker>>

CloseTapsDone(p) ==
    /\ At(p, "closeTaps") /\ snap[p][p] = {} /\ Goto(p, "closeTable")
    /\ UNCHANGED <<phase, sweepVars, netVars>>

CloseTable(p) ==
    /\ At(p, "closeTable") /\ tables' \in Deleted(tables, {p})
    /\ Goto(p, IF p \in tables' THEN "closeBridgeKeep" ELSE "closeBridge")
    /\ UNCHANGED <<phase, sweepVars, taps, tapPc, recorded, recTaps, bridges, links,
                   fwd, marker>>

CloseBridge(p) ==
    /\ pc[p] \in {"closeBridge", "closeBridgeKeep"}
    /\ bridges' \in Deleted(bridges, {p})
    /\ Goto(p, IF At(p, "closeBridge") /\ p \notin bridges' THEN "closeRecord"
               ELSE "restore")
    /\ UNCHANGED <<phase, sweepVars, taps, tapPc, recorded, recTaps, tables, links,
                   fwd, marker>>

\* Mutant: the flag is not restored by the last network out.
CloseRecordOnly(p) ==
    /\ At(p, "closeRecord") /\ Goto(p, "leave")
    /\ DeleteRecord(p)
    /\ UNCHANGED <<phase, sweepVars, taps, tapPc, host, fwd, marker>>

\* The record goes last, and only once the host is clean.
CloseRecord(p) ==
    /\ At(p, "closeRecord") /\ Goto(p, "restore")
    /\ DeleteRecord(p)
    /\ UNCHANGED <<phase, sweepVars, taps, tapPc, host, fwd, marker>>

\* A process that ends takes its handlers and its VMs with it; the host and
\* the files stay.
Die(p, how) ==
    /\ Goto(p, how)
    /\ tapPc' = [t \in Tap |-> IF t[1] = p THEN "gone" ELSE tapPc[t]]
    /\ listed' = [listed EXCEPT ![p] = {}]
    /\ cur' = [cur EXCEPT ![p] = None]
    /\ snap' = [snap EXCEPT ![p] = [q \in Proc |-> {}]]
    /\ taps' = [taps EXCEPT ![p] = {}]
    /\ UNCHANGED <<phase, recorded, recTaps, host, fwd>>

Exit(p) == pc[p] \in {"idle", "leave"} /\ Die(p, "ended") /\ UNCHANGED marker

Crash(p) ==
    /\ Allowed("crash") /\ Alive(p)
    /\ (\E q \in Proc : p \in listed[q]) => Allowed("crashMidSweep")
    /\ Die(p, "crashed")
    /\ marker' = IF At(p, "markWrite") THEN "cut" ELSE marker

ProcWork(p) ==
    \/ SweepList(p) \/ (\E d \in Proc : SweepPick(p, d))
    \/ (\E t \in Tap : SweepTap(p, t)) \/ SweepTapsDone(p) \/ SweepTable(p)
    \/ SweepBridge(p) \/ SweepRecord(p) \/ SweepEnd(p)
    \/ Restore(p) \/ RestoreBridges(p) \/ RestoreWrite(p) \/ RestoreClear(p)
    \/ NetRecord(p) \/ NetBridge(p) \/ NetAddress(p) \/ NetUndo(p) \/ NetUndoRecord(p)
    \/ FwdRead(p) \/ FwdMark(p) \/ FwdMarkWrite(p) \/ FwdFlip(p) \/ NetFirewall(p)
    \/ CloseClone(p) \/ (\E t \in Tap : CloseTap(p, t)) \/ CloseTapsDone(p)
    \/ CloseTable(p) \/ CloseBridge(p) \/ CloseRecord(p)

Quiet == (\A p \in Proc : ~Alive(p)) /\ UNCHANGED vars

Next ==
    \/ \E p \in Proc : \/ Start(p) \/ CreateNetwork(p) \/ Close(p) \/ Exit(p) \/ Crash(p)
                       \/ ProcWork(p)
    \/ \E t \in Tap : TapBegin(t) \/ TapWork(t)
    \/ Quiet

Spec == Init /\ [][Next]_vars

\* A process that runs gets on with what it has begun.
Fairness == \A p \in Proc : WF_vars(ProcWork(p))

FairSpec == Spec /\ Fairness

-----------------------------------------------------------------------------
(* Properties                                                              *)

\* A bridge or a table on the host has its record, which is the only index of
\* its name: whatever goes wrong in CreateNetwork, Close or a sweep.
NetworkRecorded == bridges \cup tables \subseteq recorded

\* The record names everything that exists on the host, taps included, so that
\* a later sweep can remove what a crash left behind.
RecordCovers ==
    /\ NetworkRecorded
    /\ \A t \in links : t[1] \in recorded /\ t \in recTaps[t[1]]

\* No sweep of another process takes a device from a network that is up.
LiveUntouched ==
    \A p \in Proc : pc[p] = "up" =>
        /\ p \in bridges /\ p \in tables
        /\ \A t \in TapsOf(p) : tapPc[t] = "used" => t \in links

\* The VMs of a network that is up can reach out: nobody takes the flag down.
EgressForwarded == \A p \in Proc : pc[p] = "up" => fwd = "1"

\* While the flag is flipped its first value is on file, or a live process is writing
\* it there. The file is never missing; but one whose writer failed or died between
\* its creation and its write stays empty, is taken for the value by later holders,
\* and the flag is never restored.
FwdRecoverable ==
    fwd = "1" => \/ marker \in {"0", "cut"}
                 \/ marker = "empty" /\ \E p \in Proc : pc[p] = "markWrite"

\* When every process has left, none crashed and no call failed, the host is
\* as it was: the last network out restores the flag.
HostRestored ==
    (\A p \in Proc : pc[p] \in {"new", "ended"})
        => fwd = "0" /\ recorded = {} /\ bridges = {} /\ tables = {} /\ links = {}

\* A sweep that starts after a process died leaves nothing of it.
Nothing(p) == p \notin bridges \cup tables \cup recorded /\ links \cap TapsOf(p) = {}
Reclaimed ==
    \A p, q \in Proc :
        (pc[p] = "crashed" /\ pc[q] = "list") ~> (Nothing(p) \/ pc[q] = "crashed")

=============================================================================
