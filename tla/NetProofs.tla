------------------------------ MODULE NetProofs ------------------------------
(***************************************************************************)
(* What NetLifecycle promises, for any number of processes and VM slots.   *)
(*                                                                         *)
(* Whatever goes wrong, no bridge or table loses its record, and no sweep  *)
(* takes a device from a network that is up.  Both follow from who may     *)
(* touch a network.  A process that has not come to the creation of its    *)
(* bridge has none (FreshHost); from then on its record is there           *)
(* (RecordHeld) until it has deleted table and bridge itself (TornDown).   *)
(* A sweep touches only the network of a process that is dead and stays so *)
(* (SweepsDead), and only its taps (OwnTaps).                              *)
(*                                                                         *)
(* The second half is about the uplink's forwarding flag, which networks   *)
(* share, the taps, and the host after the last network: each under the    *)
(* mishaps that leave it true.                                             *)
(***************************************************************************)
EXTENDS NetLifecycle, TLAPS

DeadPc == {"ended", "crashed"}

FreshPc == SweepPc \cup {"new", "idle", "record", "bridge"}
Fresh(p) == phase[p] = "start" \/ pc[p] \in FreshPc

HoldPc == {"bridge", "address", "undo", "uplink", "mark", "markWrite", "flip", "firewall"}
BridgePc == {"address", "uplink", "mark", "markWrite", "flip", "firewall", "up"}

\* A process with a record has been started, and lists only such.
Born ==
    /\ \A p \in recorded : pc[p] # "new"
    /\ \A p \in Proc : \A d \in listed[p] : pc[d] # "new"

FreshHost == \A p \in Proc : Fresh(p) => p \notin bridges /\ p \notin tables

\* A bridge is made in CreateNetwork, and Close is the last a process does.
Phases == \A p \in Proc :
    /\ pc[p] \in {"record", "bridge"} => phase[p] = "create"
    /\ phase[p] = "close"
            => pc[p] \in ClosePc \cup RestorePc \cup DeadPc \cup {"restore", "leave"}

\* A slot is in use only in a network that is, or was, up.
SlotsIdle == \A t \in Tap :
    tapPc[t] \notin {"none", "gone"} => pc[t[1]] = "up" \/ phase[t[1]] = "close"

RecordHeld == \A p \in Proc : pc[p] \in HoldPc => p \in recorded

TornDown == \A p \in Proc :
    /\ pc[p] \in {"address", "undo", "undoRecord", "closeBridge", "closeRecord"}
            => p \notin tables
    /\ pc[p] \in {"undoRecord", "closeRecord"} => p \notin bridges

SweepingPc == {"sweepTaps", "sweepTable", "sweepBridge", "sweepBridgeKeep", "sweepRecord"}

SweepsDead == \A p \in Proc :
    /\ pc[p] \in SweepingPc => cur[p] \in Proc /\ pc[cur[p]] \in DeadPc
    /\ pc[p] \in {"sweepBridge", "sweepRecord"} => cur[p] \notin tables
    /\ pc[p] = "sweepRecord" => cur[p] \notin bridges

OwnTaps == \A p \in Proc :
    /\ \A t \in taps[p] \cup recTaps[p] : t[1] = p
    /\ \A d \in Proc : \A t \in snap[p][d] : t[1] = d

HasBridge == \A p \in Proc : pc[p] \in BridgePc => p \in bridges

HasDevices ==
    /\ \A p \in Proc : pc[p] = "up" => p \in tables
    /\ \A t \in Tap : pc[t[1]] = "up" /\ tapPc[t] = "used" => t \in links

NetInv ==
    /\ TypeOK
    /\ NetworkRecorded
    /\ Born
    /\ FreshHost
    /\ Phases
    /\ SlotsIdle
    /\ RecordHeld
    /\ TornDown
    /\ SweepsDead
    /\ OwnTaps
    /\ HasBridge
    /\ HasDevices

\* A tap belongs to a process.
LEMMA TapOwner == \A t \in Tap : t[1] \in Proc
  BY DEF Tap

\* What a rewrite and a removal of a record keep.
LEMMA PersistType ==
    ASSUME NEW p \in Proc, TypeOK, Persist(p)
    PROVE recorded' \subseteq Proc /\ recTaps' \in [Proc -> SUBSET Tap]
<1>1. taps[p] \in SUBSET Tap
  BY DEF TypeOK
<1> QED
  BY <1>1 DEF TypeOK, Persist

LEMMA DeleteType ==
    ASSUME NEW p, TypeOK, DeleteRecord(p)
    PROVE recorded' \subseteq Proc /\ recTaps' \in [Proc -> SUBSET Tap]
  BY DEF TypeOK, DeleteRecord

\* Removing a tap from a list of taps of a list of taps.
LEMMA SnapType ==
    ASSUME TypeOK, NEW p \in Proc, NEW d, NEW t,
           snap' = [snap EXCEPT ![p][d] = @ \ {t}]
    PROVE snap' \in [Proc -> [Proc -> SUBSET Tap]]
<1>1. snap[p] \in [Proc -> SUBSET Tap]
  BY DEF TypeOK
<1>2. [snap[p] EXCEPT ![d] = @ \ {t}] \in [Proc -> SUBSET Tap]
  BY <1>1
<1>3. snap' = [snap EXCEPT ![p] = [snap[p] EXCEPT ![d] = @ \ {t}]]
  OBVIOUS
<1> QED
  BY <1>2, <1>3 DEF TypeOK

LEMMA TypeStep == TypeOK /\ [Next]_vars => TypeOK'
<1> SUFFICES ASSUME TypeOK, [Next]_vars PROVE TypeOK'
  OBVIOUS
<1> USE TapOwner DEF TypeOK, At, Goto, Pc, SweepPc, RestorePc, CreatePc, ClosePc, GonePc,
      TapPc, TapAt, TapGoto, TapRest, netVars, sweepVars, host, Deleted, AfterRestore, Die
<1>1. ASSUME NEW p \in Proc, Start(p) PROVE TypeOK'
  BY <1>1 DEF Start
<1>2. ASSUME NEW p \in Proc, CreateNetwork(p) PROVE TypeOK'
  BY <1>2 DEF CreateNetwork
<1>3. ASSUME NEW p \in Proc, Close(p) PROVE TypeOK'
  BY <1>3 DEF Close
<1>4. ASSUME NEW p \in Proc, Exit(p) PROVE TypeOK'
  BY <1>4 DEF Exit
<1>5. ASSUME NEW p \in Proc, Crash(p) PROVE TypeOK'
  BY <1>5 DEF Crash
<1>6. ASSUME NEW p \in Proc, SweepList(p) PROVE TypeOK'
  BY <1>6 DEF SweepList
<1>7. ASSUME NEW p \in Proc, SweepTapsDone(p) PROVE TypeOK'
  BY <1>7 DEF SweepTapsDone
<1>8. ASSUME NEW p \in Proc, SweepTable(p) PROVE TypeOK'
  BY <1>8 DEF SweepTable
<1>9. ASSUME NEW p \in Proc, SweepBridge(p) PROVE TypeOK'
  BY <1>9 DEF SweepBridge
<1>10. ASSUME NEW p \in Proc, SweepRecord(p) PROVE TypeOK'
  BY <1>10, DeleteType DEF SweepRecord
<1>11. ASSUME NEW p \in Proc, SweepEnd(p) PROVE TypeOK'
  BY <1>11 DEF SweepEnd
<1>12. ASSUME NEW p \in Proc, Restore(p) PROVE TypeOK'
  BY <1>12 DEF Restore
<1>13. ASSUME NEW p \in Proc, RestoreBridges(p) PROVE TypeOK'
  BY <1>13 DEF RestoreBridges
<1>14. ASSUME NEW p \in Proc, RestoreWrite(p) PROVE TypeOK'
  BY <1>14 DEF RestoreWrite
<1>15. ASSUME NEW p \in Proc, RestoreClear(p) PROVE TypeOK'
  BY <1>15 DEF RestoreClear
<1>16. ASSUME NEW p \in Proc, NetRecord(p) PROVE TypeOK'
  <2>1. recorded' \subseteq Proc /\ recTaps' \in [Proc -> SUBSET Tap]
    BY <1>16, PersistType DEF NetRecord
  <2> QED
    BY <1>16, <2>1 DEF NetRecord
<1>17. ASSUME NEW p \in Proc, NetBridge(p) PROVE TypeOK'
  <2>1. recorded' \subseteq Proc /\ recTaps' \in [Proc -> SUBSET Tap]
    BY <1>17, DeleteType DEF NetBridge
  <2>2. pc' \in [Proc -> Pc]
    BY <1>17 DEF NetBridge
  <2>3. bridges' \subseteq Proc /\ UNCHANGED <<phase, sweepVars, taps, tapPc, tables, links, fwd, marker>>
    BY <1>17 DEF NetBridge
  <2> QED
    BY <2>1, <2>2, <2>3
<1>18. ASSUME NEW p \in Proc, NetAddress(p) PROVE TypeOK'
  BY <1>18 DEF NetAddress
<1>19. ASSUME NEW p \in Proc, NetUndo(p) PROVE TypeOK'
  BY <1>19 DEF NetUndo
<1>20. ASSUME NEW p \in Proc, NetUndoRecord(p) PROVE TypeOK'
  BY <1>20, DeleteType DEF NetUndoRecord
<1>21. ASSUME NEW p \in Proc, FwdRead(p) PROVE TypeOK'
  <2>1. recorded' \subseteq Proc /\ recTaps' \in [Proc -> SUBSET Tap]
    BY <1>21, PersistType DEF FwdRead
  <2>2. pc' \in [Proc -> Pc]
    BY <1>21 DEF FwdRead
  <2>3. bridges' \subseteq Proc /\ UNCHANGED <<phase, sweepVars, taps, tapPc, tables, links, fwd, marker>>
    BY <1>21 DEF FwdRead
  <2> QED
    BY <2>1, <2>2, <2>3
<1>22. ASSUME NEW p \in Proc, FwdMark(p) PROVE TypeOK'
  BY <1>22 DEF FwdMark
<1>23. ASSUME NEW p \in Proc, FwdMarkWrite(p) PROVE TypeOK'
  BY <1>23 DEF FwdMarkWrite
<1>24. ASSUME NEW p \in Proc, FwdFlip(p) PROVE TypeOK'
  BY <1>24 DEF FwdFlip
<1>25. ASSUME NEW p \in Proc, NetFirewall(p) PROVE TypeOK'
  BY <1>25 DEF NetFirewall
<1>26. ASSUME NEW p \in Proc, CloseClone(p) PROVE TypeOK'
  BY <1>26 DEF CloseClone
<1>27. ASSUME NEW p \in Proc, CloseTapsDone(p) PROVE TypeOK'
  BY <1>27 DEF CloseTapsDone
<1>28. ASSUME NEW p \in Proc, CloseTable(p) PROVE TypeOK'
  BY <1>28 DEF CloseTable
<1>29. ASSUME NEW p \in Proc, CloseBridge(p) PROVE TypeOK'
  BY <1>29 DEF CloseBridge
<1>30. ASSUME NEW p \in Proc, CloseRecord(p) PROVE TypeOK'
  BY <1>30, DeleteType DEF CloseRecord
<1>31. ASSUME NEW p \in Proc, NEW d \in Proc, SweepPick(p, d) PROVE TypeOK'
  <2>1. listed' \in [Proc -> SUBSET Proc]
    BY <1>31 DEF SweepPick
  <2>2. pc' \in [Proc -> Pc] /\ cur' \in [Proc -> Proc \cup {None}]
    <3>1. CASE Alive(d)
      BY <1>31, <3>1 DEF SweepPick
    <3>2. CASE ~Alive(d)
      <4>1. pc' = [pc EXCEPT ![p] = "sweepTaps"] /\ cur' = [cur EXCEPT ![p] = d]
        BY <1>31, <3>2 DEF SweepPick
      <4> QED
        BY <4>1
    <3> QED
      BY <3>1, <3>2
  <2> QED
    BY <1>31, <2>1, <2>2 DEF SweepPick
<1>32. ASSUME NEW p \in Proc, NEW t \in Tap, SweepTap(p, t) PROVE TypeOK'
  BY <1>32, SnapType DEF SweepTap
<1>33. ASSUME NEW p \in Proc, NEW t \in Tap, CloseTap(p, t) PROVE TypeOK'
  BY <1>33, SnapType DEF CloseTap
<1>34. ASSUME NEW t \in Tap, TapBegin(t) PROVE TypeOK'
  BY <1>34 DEF TapBegin
<1>35. ASSUME NEW t \in Tap, TapPersist(t) PROVE TypeOK'
  <2>1. recorded' \subseteq Proc /\ recTaps' \in [Proc -> SUBSET Tap]
    BY <1>35, PersistType DEF TapPersist
  <2> QED
    BY <1>35, <2>1 DEF TapPersist
<1>36. ASSUME NEW t \in Tap, TapAdd(t) PROVE TypeOK'
  <2>1. tapPc' \in [Tap -> TapPc]
    BY <1>36 DEF TapAdd
  <2>2. links' \subseteq Tap
    BY <1>36 DEF TapAdd
  <2> QED
    BY <1>36, <2>1, <2>2 DEF TapAdd
<1>37. ASSUME NEW t \in Tap, TapAttach(t) PROVE TypeOK'
  <2>1. tapPc' \in [Tap -> TapPc]
    BY <1>37 DEF TapAttach
  <2>2. links' \subseteq Tap
    BY <1>37 DEF TapAttach
  <2> QED
    BY <1>37, <2>1, <2>2 DEF TapAttach
<1>38. ASSUME NEW t \in Tap, TapUndo(t) PROVE TypeOK'
  BY <1>38 DEF TapUndo
<1>39. ASSUME NEW t \in Tap, TapDelete(t) PROVE TypeOK'
  BY <1>39 DEF TapDelete
<1>40. ASSUME NEW t \in Tap, TapDrop(t) PROVE TypeOK'
  BY <1>40 DEF TapDrop
<1>41. ASSUME NEW t \in Tap, TapRewrite(t) PROVE TypeOK'
  <2>1. recorded' \subseteq Proc /\ recTaps' \in [Proc -> SUBSET Tap]
    BY <1>41, PersistType DEF TapRewrite
  <2> QED
    BY <1>41, <2>1 DEF TapRewrite
<1>42. CASE UNCHANGED vars
  BY <1>42 DEF vars
<1> QED
  BY <1>1, <1>2, <1>3, <1>4, <1>5, <1>6, <1>7, <1>8, <1>9, <1>10, <1>11, <1>12, <1>13, <1>14,
     <1>15, <1>16, <1>17, <1>18, <1>19, <1>20, <1>21, <1>22, <1>23, <1>24, <1>25, <1>26, <1>27,
     <1>28, <1>29, <1>30, <1>31, <1>32, <1>33, <1>34, <1>35, <1>36, <1>37, <1>38, <1>39, <1>40,
     <1>41, <1>42 DEF Next, ProcWork, TapWork, Quiet

\* A step of a process that sweeps nobody, on its own network.
LEMMA SweepsKept ==
    ASSUME NetInv, NEW p \in Proc, pc[p] \notin DeadPc, NEW to, to \notin SweepingPc,
           pc' = [pc EXCEPT ![p] = to], cur' = cur,
           tables' \subseteq tables \cup {p}, bridges' \subseteq bridges \cup {p}
    PROVE SweepsDead'
<1> SUFFICES ASSUME NEW q \in Proc, pc'[q] \in SweepingPc
             PROVE /\ cur[q] \in Proc /\ pc'[cur[q]] \in DeadPc
                   /\ pc'[q] \in {"sweepBridge", "sweepRecord"} => cur[q] \notin tables'
                   /\ pc'[q] = "sweepRecord" => cur[q] \notin bridges'
  BY DEF SweepsDead, SweepingPc
<1>1. q # p /\ pc'[q] = pc[q]
  BY DEF NetInv, TypeOK
<1>2. cur[q] \in Proc /\ pc[cur[q]] \in DeadPc
  BY <1>1 DEF NetInv, SweepsDead
<1>3. cur[q] # p /\ pc'[cur[q]] = pc[cur[q]]
  BY <1>2 DEF NetInv, TypeOK
<1> QED
  BY <1>1, <1>2, <1>3 DEF NetInv, SweepsDead

\* The record is written from the taps in memory.
LEMMA OwnTapsWritten ==
    ASSUME NetInv, NEW p \in Proc, UNCHANGED <<taps, snap>>,
           Persist(p) \/ DeleteRecord(p) \/ UNCHANGED recTaps
    PROVE OwnTaps'
<1> USE DEF NetInv, OwnTaps, TypeOK
<1>1. CASE Persist(p)
  <2>1. recTaps' = [recTaps EXCEPT ![p] = taps[p]]
    BY <1>1 DEF Persist
  <2> QED
    BY <2>1
<1>2. CASE DeleteRecord(p)
  <2>1. recTaps' = [recTaps EXCEPT ![p] = {}]
    BY <1>2 DEF DeleteRecord
  <2> QED
    BY <2>1
<1> QED
  BY <1>1, <1>2

LEMMA NetStep == NetInv /\ [Next]_vars => NetInv'
<1> SUFFICES ASSUME NetInv, [Next]_vars PROVE NetInv'
  OBVIOUS
<1>0. TypeOK'
  BY TypeStep DEF NetInv
<1> USE <1>0, TapOwner DEF NetInv, NetworkRecorded, Born, FreshHost, Fresh, Phases, SlotsIdle,
    RecordHeld, TornDown,
      SweepsDead, OwnTaps, HasBridge, HasDevices, DeadPc, FreshPc, HoldPc, BridgePc,
      SweepingPc, TypeOK, At, Goto, SweepPc, ClosePc, RestorePc, GonePc, Alive, TapAt, TapGoto,
      TapRest,
      netVars, sweepVars, host, Persist, DeleteRecord, Deleted, AfterRestore, Die
<1>1. ASSUME NEW p \in Proc, Start(p) PROVE NetInv'
  <2>1. NetworkRecorded'
    BY <1>1 DEF Start
  <2>2. Born'
    BY <1>1 DEF Start
  <2>3. FreshHost'
    BY <1>1 DEF Start
  <2>4. Phases'
    BY <1>1 DEF Start
  <2>5. SlotsIdle'
    BY <1>1 DEF Start
  <2>6. RecordHeld'
    BY <1>1 DEF Start
  <2>7. TornDown'
    BY <1>1 DEF Start
  <2>8. SweepsDead'
    BY <1>1 DEF Start
  <2>9. OwnTaps'
    BY <1>1 DEF Start
  <2>10. HasBridge'
    BY <1>1 DEF Start
  <2>11. HasDevices'
    BY <1>1 DEF Start
  <2> QED
    BY <2>1, <2>2, <2>3, <2>4, <2>5, <2>6, <2>7, <2>8, <2>9, <2>10, <2>11
<1>2. ASSUME NEW p \in Proc, CreateNetwork(p) PROVE NetInv'
  <2>1. NetworkRecorded'
    BY <1>2 DEF CreateNetwork
  <2>2. Born'
    BY <1>2 DEF CreateNetwork
  <2>3. FreshHost'
    BY <1>2 DEF CreateNetwork
  <2>4. Phases' /\ SlotsIdle'
    <3>1. phase[p] # "close" /\ pc[p] # "up"
      BY <1>2 DEF CreateNetwork
    <3>2. \A t \in Tap : t[1] = p => tapPc[t] \in {"none", "gone"}
      BY <3>1
    <3>3. Phases'
      BY <1>2 DEF CreateNetwork
    <3>4. SlotsIdle'
      BY <1>2, <3>2 DEF CreateNetwork
    <3> QED
      BY <3>3, <3>4
  <2>5. RecordHeld' /\ TornDown'
    BY <1>2 DEF CreateNetwork
  <2>6. SweepsDead'
    BY <1>2 DEF CreateNetwork
  <2>7. OwnTaps'
    BY <1>2 DEF CreateNetwork
  <2>8. HasBridge' /\ HasDevices'
    BY <1>2 DEF CreateNetwork
  <2> QED
    BY <2>1, <2>2, <2>3, <2>4, <2>5, <2>6, <2>7, <2>8
<1>3. ASSUME NEW p \in Proc, Close(p) PROVE NetInv'
  BY <1>3 DEF Close
<1>4. ASSUME NEW p \in Proc, Exit(p) PROVE NetInv'
  BY <1>4 DEF Exit
<1>5. ASSUME NEW p \in Proc, Crash(p) PROVE NetInv'
  BY <1>5 DEF Crash
<1>6. ASSUME NEW p \in Proc, SweepList(p) PROVE NetInv'
  BY <1>6 DEF SweepList
<1>7. ASSUME NEW p \in Proc, SweepTapsDone(p) PROVE NetInv'
  BY <1>7 DEF SweepTapsDone
<1>8. ASSUME NEW p \in Proc, SweepTable(p) PROVE NetInv'
  <2>1. NetworkRecorded'
    BY <1>8 DEF SweepTable
  <2>2. Born'
    BY <1>8 DEF SweepTable
  <2>3. FreshHost'
    BY <1>8 DEF SweepTable
  <2>4. Phases' /\ SlotsIdle'
    BY <1>8 DEF SweepTable
  <2>5. RecordHeld' /\ TornDown'
    BY <1>8 DEF SweepTable
  <2>6. SweepsDead'
    BY <1>8 DEF SweepTable
  <2>7. OwnTaps'
    BY <1>8 DEF SweepTable
  <2>8. HasBridge' /\ HasDevices'
    BY <1>8 DEF SweepTable
  <2> QED
    BY <2>1, <2>2, <2>3, <2>4, <2>5, <2>6, <2>7, <2>8
<1>9. ASSUME NEW p \in Proc, SweepBridge(p) PROVE NetInv'
  <2>1. NetworkRecorded'
    BY <1>9 DEF SweepBridge
  <2>2. Born'
    BY <1>9 DEF SweepBridge
  <2>3. FreshHost' /\ Phases' /\ SlotsIdle' /\ RecordHeld'
    BY <1>9 DEF SweepBridge
  <2>4. TornDown'
    BY <1>9 DEF SweepBridge
  <2>5. SweepsDead'
    BY <1>9 DEF SweepBridge
  <2>6. OwnTaps'
    BY <1>9 DEF SweepBridge
  <2>7. HasBridge' /\ HasDevices'
    BY <1>9 DEF SweepBridge
  <2> QED
    BY <2>1, <2>2, <2>3, <2>4, <2>5, <2>6, <2>7
<1>10. ASSUME NEW p \in Proc, SweepRecord(p) PROVE NetInv'
  <2>1. NetworkRecorded'
    BY <1>10 DEF SweepRecord
  <2>2. Born'
    BY <1>10 DEF SweepRecord
  <2>3. FreshHost' /\ Phases' /\ SlotsIdle' /\ RecordHeld'
    <3>1. FreshHost'
      BY <1>10 DEF SweepRecord
    <3>2. Phases'
      BY <1>10 DEF SweepRecord
    <3>3. SlotsIdle'
      BY <1>10 DEF SweepRecord
    <3>4. RecordHeld'
      <4>1. pc[cur[p]] \in DeadPc
        BY <1>10 DEF SweepRecord
      <4>2. pc' = [pc EXCEPT ![p] = "pick"] /\ recorded' = recorded \ {cur[p]}
        BY <1>10 DEF SweepRecord
      <4> QED
        BY <4>1, <4>2
    <3> QED
      BY <3>1, <3>2, <3>3, <3>4
  <2>4. TornDown'
    BY <1>10 DEF SweepRecord
  <2>5. SweepsDead'
    BY <1>10 DEF SweepRecord
  <2>6. OwnTaps'
    BY <1>10 DEF SweepRecord
  <2>7. HasBridge' /\ HasDevices'
    BY <1>10 DEF SweepRecord
  <2> QED
    BY <2>1, <2>2, <2>3, <2>4, <2>5, <2>6, <2>7
<1>11. ASSUME NEW p \in Proc, SweepEnd(p) PROVE NetInv'
  BY <1>11 DEF SweepEnd
<1>12. ASSUME NEW p \in Proc, Restore(p) PROVE NetInv'
  BY <1>12 DEF Restore
<1>13. ASSUME NEW p \in Proc, RestoreBridges(p) PROVE NetInv'
  BY <1>13 DEF RestoreBridges
<1>14. ASSUME NEW p \in Proc, RestoreWrite(p) PROVE NetInv'
  <2>1. NetworkRecorded'
    BY <1>14 DEF RestoreWrite
  <2>2. Born'
    BY <1>14 DEF RestoreWrite
  <2>3. FreshHost'
    BY <1>14 DEF RestoreWrite
  <2>4. Phases' /\ SlotsIdle'
    BY <1>14 DEF RestoreWrite
  <2>5. RecordHeld' /\ TornDown'
    BY <1>14 DEF RestoreWrite
  <2>6. SweepsDead'
    <3>1. PICK to \in {"restoreClear", "idle", "leave"} : pc' = [pc EXCEPT ![p] = to]
      BY <1>14 DEF RestoreWrite
    <3>2. tables' = tables /\ bridges' = bridges /\ cur' = cur
      BY <1>14 DEF RestoreWrite
    <3>3. pc[p] \notin DeadPc /\ to \notin SweepingPc
      BY <1>14 DEF RestoreWrite
    <3> QED
      BY <3>1, <3>2, <3>3, SweepsKept
  <2>7. OwnTaps'
    BY <1>14 DEF RestoreWrite
  <2>8. HasBridge' /\ HasDevices'
    BY <1>14 DEF RestoreWrite
  <2> QED
    BY <2>1, <2>2, <2>3, <2>4, <2>5, <2>6, <2>7, <2>8
<1>15. ASSUME NEW p \in Proc, RestoreClear(p) PROVE NetInv'
  BY <1>15 DEF RestoreClear
<1>16. ASSUME NEW p \in Proc, NetRecord(p) PROVE NetInv'
  <2>1. NetworkRecorded'
    BY <1>16 DEF NetRecord
  <2>2. Born'
    <3>1. recorded' \subseteq recorded \cup {p} /\ listed' = listed
      BY <1>16 DEF NetRecord
    <3>2. \A q \in Proc : pc'[q] = "new" => pc[q] = "new" /\ q # p
      BY <1>16 DEF NetRecord
    <3> QED
      BY <3>1, <3>2
  <2>3. FreshHost' /\ Phases' /\ SlotsIdle' /\ RecordHeld'
    BY <1>16 DEF NetRecord
  <2>4. TornDown'
    BY <1>16 DEF NetRecord
  <2>5. SweepsDead'
    <3>1. PICK to \in {"bridge", "leave"} : pc' = [pc EXCEPT ![p] = to]
      BY <1>16 DEF NetRecord
    <3>2. tables' \subseteq tables \cup {p} /\ bridges' \subseteq bridges \cup {p} /\ cur' = cur
      BY <1>16 DEF NetRecord
    <3>3. pc[p] \notin DeadPc /\ to \notin SweepingPc
      BY <1>16 DEF NetRecord
    <3> QED
      BY <3>1, <3>2, <3>3, SweepsKept
  <2>6. OwnTaps'
    BY <1>16, OwnTapsWritten DEF NetRecord
  <2>7. HasBridge' /\ HasDevices'
    BY <1>16 DEF NetRecord
  <2> QED
    BY <2>1, <2>2, <2>3, <2>4, <2>5, <2>6, <2>7
<1>17. ASSUME NEW p \in Proc, NetBridge(p) PROVE NetInv'
  <2>1. NetworkRecorded'
    BY <1>17 DEF NetBridge
  <2>2. Born'
    BY <1>17 DEF NetBridge
  <2>3. FreshHost' /\ Phases' /\ SlotsIdle' /\ RecordHeld'
    <3>1. CASE bridges' = bridges \cup {p} /\ Goto(p, "address") /\ UNCHANGED recorded
      BY <1>17, <3>1 DEF NetBridge
    <3>2. CASE DeleteRecord(p) /\ Goto(p, "leave") /\ UNCHANGED bridges
      BY <1>17, <3>2 DEF NetBridge
    <3> QED
      BY <1>17, <3>1, <3>2 DEF NetBridge
  <2>4. TornDown'
    BY <1>17 DEF NetBridge
  <2>5. SweepsDead'
    <3>1. PICK to \in {"address", "leave"} : pc' = [pc EXCEPT ![p] = to]
      BY <1>17 DEF NetBridge
    <3>2. tables' \subseteq tables \cup {p} /\ bridges' \subseteq bridges \cup {p} /\ cur' = cur
      BY <1>17 DEF NetBridge
    <3>3. pc[p] \notin DeadPc /\ to \notin SweepingPc
      BY <1>17 DEF NetBridge
    <3> QED
      BY <3>1, <3>2, <3>3, SweepsKept
  <2>6. OwnTaps'
    BY <1>17, OwnTapsWritten DEF NetBridge
  <2>7. HasBridge' /\ HasDevices'
    BY <1>17 DEF NetBridge
  <2> QED
    BY <2>1, <2>2, <2>3, <2>4, <2>5, <2>6, <2>7
<1>18. ASSUME NEW p \in Proc, NetAddress(p) PROVE NetInv'
  BY <1>18 DEF NetAddress
<1>19. ASSUME NEW p \in Proc, NetUndo(p) PROVE NetInv'
  <2>1. NetworkRecorded'
    BY <1>19 DEF NetUndo
  <2>2. Born'
    BY <1>19 DEF NetUndo
  <2>3. FreshHost'
    BY <1>19 DEF NetUndo
  <2>4. Phases' /\ SlotsIdle'
    <3>1. Phases'
      <4>1. PICK to \in {"undoRecord", "leave"} : pc' = [pc EXCEPT ![p] = to]
        BY <1>19 DEF NetUndo
      <4>2. phase' = phase /\ phase[p] # "close"
        BY <1>19 DEF NetUndo
      <4> QED
        BY <4>1, <4>2
    <3>2. SlotsIdle'
      BY <1>19 DEF NetUndo
    <3> QED
      BY <3>1, <3>2
  <2>5. RecordHeld' /\ TornDown'
    BY <1>19 DEF NetUndo
  <2>6. SweepsDead'
    <3>1. PICK to \in {"undoRecord", "leave"} : pc' = [pc EXCEPT ![p] = to]
      BY <1>19 DEF NetUndo
    <3>2. tables' \subseteq tables \cup {p} /\ bridges' \subseteq bridges \cup {p} /\ cur' = cur
      BY <1>19 DEF NetUndo
    <3>3. pc[p] \notin DeadPc /\ to \notin SweepingPc
      BY <1>19 DEF NetUndo
    <3> QED
      BY <3>1, <3>2, <3>3, SweepsKept
  <2>7. OwnTaps'
    BY <1>19 DEF NetUndo
  <2>8. HasBridge' /\ HasDevices'
    BY <1>19 DEF NetUndo
  <2> QED
    BY <2>1, <2>2, <2>3, <2>4, <2>5, <2>6, <2>7, <2>8
<1>20. ASSUME NEW p \in Proc, NetUndoRecord(p) PROVE NetInv'
  BY <1>20 DEF NetUndoRecord
<1>21. ASSUME NEW p \in Proc, FwdRead(p) PROVE NetInv'
  <2>1. NetworkRecorded'
    BY <1>21 DEF FwdRead
  <2>2. Born'
    BY <1>21 DEF FwdRead
  <2>3. FreshHost' /\ Phases' /\ SlotsIdle' /\ RecordHeld'
    <3>1. FreshHost'
      BY <1>21 DEF FwdRead
    <3>2. Phases'
      BY <1>21 DEF FwdRead
    <3>3. SlotsIdle'
      BY <1>21 DEF FwdRead
    <3>4. RecordHeld'
      BY <1>21 DEF FwdRead
    <3> QED
      BY <3>1, <3>2, <3>3, <3>4
  <2>4. TornDown'
    BY <1>21 DEF FwdRead
  <2>5. SweepsDead'
    <3>1. PICK to \in {"mark", "firewall", "close"} : pc' = [pc EXCEPT ![p] = to]
      BY <1>21 DEF FwdRead
    <3>2. tables' \subseteq tables \cup {p} /\ bridges' \subseteq bridges \cup {p} /\ cur' = cur
      BY <1>21 DEF FwdRead
    <3>3. pc[p] \notin DeadPc /\ to \notin SweepingPc
      BY <1>21 DEF FwdRead
    <3> QED
      BY <3>1, <3>2, <3>3, SweepsKept
  <2>6. OwnTaps'
    BY <1>21, OwnTapsWritten DEF FwdRead
  <2>7. HasBridge' /\ HasDevices'
    BY <1>21 DEF FwdRead
  <2> QED
    BY <2>1, <2>2, <2>3, <2>4, <2>5, <2>6, <2>7
<1>22. ASSUME NEW p \in Proc, FwdMark(p) PROVE NetInv'
  <2>1. NetworkRecorded'
    BY <1>22 DEF FwdMark
  <2>2. Born'
    BY <1>22 DEF FwdMark
  <2>3. FreshHost' /\ Phases' /\ SlotsIdle' /\ RecordHeld'
    <3>1. FreshHost'
      BY <1>22 DEF FwdMark
    <3>2. Phases'
      BY <1>22 DEF FwdMark
    <3>3. SlotsIdle'
      BY <1>22 DEF FwdMark
    <3>4. RecordHeld'
      BY <1>22 DEF FwdMark
    <3> QED
      BY <3>1, <3>2, <3>3, <3>4
  <2>4. TornDown'
    BY <1>22 DEF FwdMark
  <2>5. SweepsDead'
    <3>1. PICK to \in {"markWrite", "flip", "close"} : pc' = [pc EXCEPT ![p] = to]
      BY <1>22 DEF FwdMark
    <3>2. tables' \subseteq tables \cup {p} /\ bridges' \subseteq bridges \cup {p} /\ cur' = cur
      BY <1>22 DEF FwdMark
    <3>3. pc[p] \notin DeadPc /\ to \notin SweepingPc
      BY <1>22 DEF FwdMark
    <3> QED
      BY <3>1, <3>2, <3>3, SweepsKept
  <2>6. OwnTaps'
    BY <1>22 DEF FwdMark
  <2>7. HasBridge' /\ HasDevices'
    BY <1>22 DEF FwdMark
  <2> QED
    BY <2>1, <2>2, <2>3, <2>4, <2>5, <2>6, <2>7
<1>23. ASSUME NEW p \in Proc, FwdMarkWrite(p) PROVE NetInv'
  <2>1. NetworkRecorded'
    BY <1>23 DEF FwdMarkWrite
  <2>2. Born'
    BY <1>23 DEF FwdMarkWrite
  <2>3. FreshHost'
    BY <1>23 DEF FwdMarkWrite
  <2>4. Phases' /\ SlotsIdle'
    <3>1. Phases'
      BY <1>23 DEF FwdMarkWrite
    <3>2. SlotsIdle'
      BY <1>23 DEF FwdMarkWrite
    <3> QED
      BY <3>1, <3>2
  <2>5. RecordHeld' /\ TornDown'
    BY <1>23 DEF FwdMarkWrite
  <2>6. SweepsDead'
    <3>1. PICK to \in {"flip", "close"} : pc' = [pc EXCEPT ![p] = to]
      BY <1>23 DEF FwdMarkWrite
    <3>2. tables' \subseteq tables \cup {p} /\ bridges' \subseteq bridges \cup {p} /\ cur' = cur
      BY <1>23 DEF FwdMarkWrite
    <3>3. pc[p] \notin DeadPc /\ to \notin SweepingPc
      BY <1>23 DEF FwdMarkWrite
    <3> QED
      BY <3>1, <3>2, <3>3, SweepsKept
  <2>7. OwnTaps'
    BY <1>23 DEF FwdMarkWrite
  <2>8. HasBridge' /\ HasDevices'
    BY <1>23 DEF FwdMarkWrite
  <2> QED
    BY <2>1, <2>2, <2>3, <2>4, <2>5, <2>6, <2>7, <2>8
<1>24. ASSUME NEW p \in Proc, FwdFlip(p) PROVE NetInv'
  <2>1. NetworkRecorded'
    BY <1>24 DEF FwdFlip
  <2>2. Born'
    BY <1>24 DEF FwdFlip
  <2>3. FreshHost' /\ Phases' /\ SlotsIdle' /\ RecordHeld'
    BY <1>24 DEF FwdFlip
  <2>4. TornDown'
    BY <1>24 DEF FwdFlip
  <2>5. SweepsDead'
    <3>1. PICK to \in {"firewall", "close"} : pc' = [pc EXCEPT ![p] = to]
      BY <1>24 DEF FwdFlip
    <3>2. tables' \subseteq tables \cup {p} /\ bridges' \subseteq bridges \cup {p} /\ cur' = cur
      BY <1>24 DEF FwdFlip
    <3>3. pc[p] \notin DeadPc /\ to \notin SweepingPc
      BY <1>24 DEF FwdFlip
    <3> QED
      BY <3>1, <3>2, <3>3, SweepsKept
  <2>6. OwnTaps'
    BY <1>24 DEF FwdFlip
  <2>7. HasBridge' /\ HasDevices'
    BY <1>24 DEF FwdFlip
  <2> QED
    BY <2>1, <2>2, <2>3, <2>4, <2>5, <2>6, <2>7
<1>25. ASSUME NEW p \in Proc, NetFirewall(p) PROVE NetInv'
  <2>1. NetworkRecorded'
    BY <1>25 DEF NetFirewall
  <2>2. Born'
    BY <1>25 DEF NetFirewall
  <2>3. FreshHost' /\ Phases' /\ SlotsIdle' /\ RecordHeld'
    <3>1. FreshHost'
      BY <1>25 DEF NetFirewall
    <3>2. Phases'
      BY <1>25 DEF NetFirewall
    <3>3. SlotsIdle'
      BY <1>25 DEF NetFirewall
    <3>4. RecordHeld'
      BY <1>25 DEF NetFirewall
    <3> QED
      BY <3>1, <3>2, <3>3, <3>4
  <2>4. TornDown'
    BY <1>25 DEF NetFirewall
  <2>5. SweepsDead'
    <3>1. PICK to \in {"up", "close"} : pc' = [pc EXCEPT ![p] = to]
      BY <1>25 DEF NetFirewall
    <3>2. tables' \subseteq tables \cup {p} /\ bridges' \subseteq bridges \cup {p} /\ cur' = cur
      BY <1>25 DEF NetFirewall
    <3>3. pc[p] \notin DeadPc /\ to \notin SweepingPc
      BY <1>25 DEF NetFirewall
    <3> QED
      BY <3>1, <3>2, <3>3, SweepsKept
  <2>6. OwnTaps'
    BY <1>25 DEF NetFirewall
  <2>7. HasBridge' /\ HasDevices'
    <3>1. CASE tables' = tables \cup {p} /\ Goto(p, "up")
      <4>1. \A t \in Tap : t[1] = p => tapPc[t] # "used"
        BY <1>25 DEF NetFirewall
      <4> QED
        BY <1>25, <3>1, <4>1 DEF NetFirewall
    <3>2. CASE Goto(p, "close") /\ tables' \in {tables, tables \cup {p}}
      BY <1>25, <3>2 DEF NetFirewall
    <3> QED
      BY <1>25, <3>1, <3>2 DEF NetFirewall
  <2> QED
    BY <2>1, <2>2, <2>3, <2>4, <2>5, <2>6, <2>7
<1>26. ASSUME NEW p \in Proc, CloseClone(p) PROVE NetInv'
  BY <1>26 DEF CloseClone
<1>27. ASSUME NEW p \in Proc, CloseTapsDone(p) PROVE NetInv'
  BY <1>27 DEF CloseTapsDone
<1>28. ASSUME NEW p \in Proc, CloseTable(p) PROVE NetInv'
  BY <1>28 DEF CloseTable
<1>29. ASSUME NEW p \in Proc, CloseBridge(p) PROVE NetInv'
  BY <1>29 DEF CloseBridge
<1>30. ASSUME NEW p \in Proc, CloseRecord(p) PROVE NetInv'
  BY <1>30 DEF CloseRecord
<1>31. ASSUME NEW p \in Proc, NEW d \in Proc, SweepPick(p, d) PROVE NetInv'
  <2>1. NetworkRecorded'
    BY <1>31 DEF SweepPick
  <2>2. Born'
    BY <1>31 DEF SweepPick
  <2>3. FreshHost' /\ Phases' /\ SlotsIdle' /\ RecordHeld'
    BY <1>31 DEF SweepPick
  <2>4. TornDown'
    BY <1>31 DEF SweepPick
  <2>5. SweepsDead'
    <3>1. CASE Alive(d)
      BY <1>31, <3>1 DEF SweepPick
    <3>2. CASE ~Alive(d)
      <4>1. pc' = [pc EXCEPT ![p] = "sweepTaps"] /\ cur' = [cur EXCEPT ![p] = d]
        BY <1>31, <3>2 DEF SweepPick
      <4>2. d # p /\ pc[d] \in DeadPc
        BY <1>31, <3>2 DEF SweepPick
      <4>3. tables' = tables /\ bridges' = bridges
        BY <1>31 DEF SweepPick
      <4>4. pc[p] = "pick"
        BY <1>31 DEF SweepPick
      <4>5. \A q \in Proc : pc[q] \in DeadPc => pc'[q] = pc[q]
        BY <4>1, <4>4
      <4> QED
        BY <4>1, <4>2, <4>3, <4>5
    <3> QED
      BY <3>1, <3>2
  <2>6. OwnTaps'
    BY <1>31 DEF SweepPick
  <2>7. HasBridge' /\ HasDevices'
    BY <1>31 DEF SweepPick
  <2> QED
    BY <2>1, <2>2, <2>3, <2>4, <2>5, <2>6, <2>7
<1>32. ASSUME NEW p \in Proc, NEW t \in Tap, SweepTap(p, t) PROVE NetInv'
  <2>1. NetworkRecorded'
    BY <1>32 DEF SweepTap
  <2>2. Born'
    BY <1>32 DEF SweepTap
  <2>3. FreshHost'
    BY <1>32 DEF SweepTap
  <2>4. Phases' /\ SlotsIdle'
    BY <1>32 DEF SweepTap
  <2>5. RecordHeld' /\ TornDown'
    BY <1>32 DEF SweepTap
  <2>6. SweepsDead'
    BY <1>32 DEF SweepTap
  <2>7. OwnTaps'
    BY <1>32 DEF SweepTap
  <2>8. HasBridge' /\ HasDevices'
    <3>1. pc[t[1]] \in DeadPc
      <4>1. cur[p] \in Proc /\ pc[cur[p]] \in DeadPc
        BY <1>32 DEF SweepTap
      <4>2. t[1] = cur[p]
        BY <1>32, <4>1 DEF SweepTap
      <4> QED
        BY <4>1, <4>2
    <3>2. \A u \in Tap : u \in links /\ u # t => u \in links'
      BY <1>32 DEF SweepTap
    <3>3. pc' = pc /\ tapPc' = tapPc /\ bridges' = bridges /\ tables' = tables
      BY <1>32 DEF SweepTap
    <3> QED
      BY <3>1, <3>2, <3>3
  <2> QED
    BY <2>1, <2>2, <2>3, <2>4, <2>5, <2>6, <2>7, <2>8
<1>33. ASSUME NEW p \in Proc, NEW t \in Tap, CloseTap(p, t) PROVE NetInv'
  BY <1>33 DEF CloseTap
<1>34. ASSUME NEW t \in Tap, TapBegin(t) PROVE NetInv'
  BY <1>34 DEF TapBegin
<1>35. ASSUME NEW t \in Tap, TapPersist(t) PROVE NetInv'
  <2>1. NetworkRecorded'
    BY <1>35 DEF TapPersist
  <2>2. Born'
    BY <1>35 DEF TapPersist
  <2>3. FreshHost' /\ Phases' /\ SlotsIdle' /\ RecordHeld'
    <3>1. FreshHost'
      BY <1>35 DEF TapPersist
    <3>2. Phases'
      BY <1>35 DEF TapPersist
    <3>3. SlotsIdle'
      <4>1. PICK to \in {"add", "drop"} : tapPc' = [tapPc EXCEPT ![t] = to]
        BY <1>35 DEF TapPersist
      <4>2. tapPc[t] = "persist" /\ pc' = pc /\ phase' = phase
        BY <1>35 DEF TapPersist
      <4> QED
        BY <4>1, <4>2
    <3>4. RecordHeld'
      BY <1>35 DEF TapPersist
    <3> QED
      BY <3>1, <3>2, <3>3, <3>4
  <2>4. TornDown'
    BY <1>35 DEF TapPersist
  <2>5. SweepsDead'
    BY <1>35 DEF TapPersist
  <2>6. OwnTaps'
    BY <1>35, OwnTapsWritten DEF TapPersist
  <2>7. HasBridge' /\ HasDevices'
    BY <1>35 DEF TapPersist
  <2> QED
    BY <2>1, <2>2, <2>3, <2>4, <2>5, <2>6, <2>7
<1>36. ASSUME NEW t \in Tap, TapAdd(t) PROVE NetInv'
  <2>1. NetworkRecorded'
    BY <1>36 DEF TapAdd
  <2>2. Born'
    BY <1>36 DEF TapAdd
  <2>3. FreshHost'
    BY <1>36 DEF TapAdd
  <2>4. Phases' /\ SlotsIdle'
    <3>1. PICK to \in {"attach", "unlink"} : tapPc' = [tapPc EXCEPT ![t] = to]
      BY <1>36 DEF TapAdd
    <3>2. tapPc[t] = "add" /\ pc' = pc /\ phase' = phase
      BY <1>36 DEF TapAdd
    <3> QED
      BY <3>1, <3>2
  <2>5. RecordHeld' /\ TornDown'
    BY <1>36 DEF TapAdd
  <2>6. SweepsDead'
    BY <1>36 DEF TapAdd
  <2>7. OwnTaps'
    BY <1>36 DEF TapAdd
  <2>8. HasBridge' /\ HasDevices'
    BY <1>36 DEF TapAdd
  <2> QED
    BY <2>1, <2>2, <2>3, <2>4, <2>5, <2>6, <2>7, <2>8
<1>37. ASSUME NEW t \in Tap, TapAttach(t) PROVE NetInv'
  BY <1>37 DEF TapAttach
<1>38. ASSUME NEW t \in Tap, TapUndo(t) PROVE NetInv'
  BY <1>38 DEF TapUndo
<1>39. ASSUME NEW t \in Tap, TapDelete(t) PROVE NetInv'
  BY <1>39 DEF TapDelete
<1>40. ASSUME NEW t \in Tap, TapDrop(t) PROVE NetInv'
  BY <1>40 DEF TapDrop
<1>41. ASSUME NEW t \in Tap, TapRewrite(t) PROVE NetInv'
  <2>1. NetworkRecorded'
    BY <1>41 DEF TapRewrite
  <2>2. Born'
    BY <1>41 DEF TapRewrite
  <2>3. FreshHost' /\ Phases' /\ SlotsIdle' /\ RecordHeld'
    BY <1>41 DEF TapRewrite
  <2>4. TornDown'
    BY <1>41 DEF TapRewrite
  <2>5. SweepsDead'
    BY <1>41 DEF TapRewrite
  <2>6. OwnTaps'
    BY <1>41, OwnTapsWritten DEF TapRewrite
  <2>7. HasBridge' /\ HasDevices'
    BY <1>41 DEF TapRewrite
  <2> QED
    BY <2>1, <2>2, <2>3, <2>4, <2>5, <2>6, <2>7
<1>42. CASE UNCHANGED vars
  BY <1>42 DEF vars
<1> QED
  BY <1>1, <1>2, <1>3, <1>4, <1>5, <1>6, <1>7, <1>8, <1>9, <1>10, <1>11, <1>12, <1>13, <1>14,
     <1>15, <1>16, <1>17, <1>18, <1>19, <1>20, <1>21, <1>22, <1>23, <1>24, <1>25, <1>26, <1>27,
     <1>28, <1>29, <1>30, <1>31, <1>32, <1>33, <1>34, <1>35, <1>36, <1>37, <1>38, <1>39, <1>40,
     <1>41, <1>42 DEF Next, ProcWork, TapWork, Quiet

LEMMA NetInvCorrect == Spec => []NetInv
<1>1. Init => NetInv
  <2> SUFFICES ASSUME Init PROVE NetInv
    OBVIOUS
  <2> USE DEF Init
  <2>1. TypeOK
    BY DEF TypeOK, Pc, GonePc, TapPc
  <2>2. NetworkRecorded /\ Born /\ FreshHost /\ Phases /\ SlotsIdle
    BY TapOwner DEF NetworkRecorded, Born, FreshHost, Phases, SlotsIdle
  <2>3. RecordHeld /\ TornDown /\ SweepsDead
    BY DEF RecordHeld, HoldPc, TornDown, SweepsDead, SweepingPc
  <2>4. OwnTaps /\ HasBridge /\ HasDevices
    BY TapOwner DEF OwnTaps, HasBridge, BridgePc, HasDevices
  <2> QED
    BY <2>1, <2>2, <2>3, <2>4 DEF NetInv
<1> QED
  BY <1>1, NetStep, PTL DEF Spec

\* Every variable keeps its type.
THEOREM NetTypeCorrect == Spec => []TypeOK
<1>1. NetInv => TypeOK
  BY DEF NetInv
<1> QED
  BY <1>1, NetInvCorrect, PTL

\* Whatever fails or crashes in CreateNetwork, Close or reconcile, and whoever
\* else sweeps, a bridge or table on the host has its record.
THEOREM NetworkRecordedCorrect == Spec => []NetworkRecorded
<1>1. NetInv => NetworkRecorded
  BY DEF NetInv
<1> QED
  BY <1>1, NetInvCorrect, PTL

\* reconcile never takes a bridge, a table or a used tap from a network that is
\* up, however old the records it acts on.
THEOREM LiveUntouchedCorrect == Spec => []LiveUntouched
<1>1. NetInv => LiveUntouched
  <2> SUFFICES ASSUME NetInv, NEW p \in Proc, pc[p] = "up"
               PROVE /\ p \in bridges /\ p \in tables
                     /\ \A t \in TapsOf(p) : tapPc[t] = "used" => t \in links
    BY DEF LiveUntouched
  <2>1. p \in bridges /\ p \in tables
    BY DEF NetInv, HasBridge, BridgePc, HasDevices
  <2>2. \A t \in TapsOf(p) : tapPc[t] = "used" => t \in links
    BY DEF NetInv, HasDevices, TapsOf
  <2> QED
    BY <2>1, <2>2
<1> QED
  BY <1>1, NetInvCorrect, PTL

-----------------------------------------------------------------------------
(* The forwarding flag, the taps and the end of a network need more.  Each *)
(* condition below says what must not go wrong; a run or a theorem without *)
(* it is refuted by the mishap it excludes.                                *)

\* The flag: no network is recorded while another process restores it.
NoneDuringRestore == "createDuringRestore" \notin Mishaps

\* The taps: the kernel removes what it is told to, no network is closed while
\* a VM comes or goes, and none dies under a sweep that has read its record.
Covering == Mishaps \cap {"delFails", "crashMidSweep", "closeBusy"} = {}

\* The host as it was: no call fails, and processes do nothing worse than die.
OnlyCrash == Mishaps \subseteq {"crash"}

\* Nobody makes or has a network while the flag is restored: the record that a
\* network writes first is what maybeRestoreForwarding looks for.
RestoreAlone ==
    (\E q \in Proc : pc[q] \in RestorePc) => \A p \in Proc : pc[p] \notin HoldPc \cup {"up"}
FwdUp == \A p \in Proc : pc[p] \in {"firewall", "up"} => fwd = "1"
FwdInv == RestoreAlone /\ FwdUp

\* The marker, at each of the places the flag is set and taken down.
Written ==
    /\ marker = "empty" => \E p \in Proc : pc[p] = "markWrite"
    /\ \A p \in Proc : pc[p] = "flip" => marker # None
    /\ \A p \in Proc : pc[p] = "restoreClear" => fwd = "0"
    /\ fwd = "1" => marker # None

\* A slot works only while its network is up, and keeps its tap in memory and
\* in the record from before the tap is made until after it is deleted.
LinkPc == {"attach", "used", "unlink"}
SlotsUp == \A t \in Tap : (Busy(t) => pc[t[1]] = "up") /\ tapPc[t] # "stuck"
LinksUsed == \A t \in links : pc[t[1]] \notin DeadPc => tapPc[t] \in LinkPc
TapsHeld == \A t \in Tap :
    /\ Busy(t) /\ tapPc[t] # "rewrite" => t \in taps[t[1]]
    /\ tapPc[t] \in LinkPc \cup {"add"} => t[1] \in recorded /\ t \in recTaps[t[1]]

\* A sweep that deletes the record of the dead has seen every tap they left:
\* the record it read named them, and the dead make no more.
LinksOf(p) == links \cap TapsOf(p)
SweepSees == \A p \in Proc :
    /\ \A d \in listed[p] : pc[d] \in DeadPc => LinksOf(d) \subseteq snap[p][d]
    /\ pc[p] = "sweepTaps" => LinksOf(cur[p]) \subseteq snap[p][cur[p]]
    /\ pc[p] \in SweepingPc \ {"sweepTaps"} => LinksOf(cur[p]) = {}

CoverInv == SlotsUp /\ LinksUsed /\ TapsHeld /\ SweepSees /\ RecordCovers
Links == \A t \in links : t[1] \in recorded /\ t \in recTaps[t[1]]

\* While no call fails a record is there exactly as long as its network, or its
\* owner crashed.
Undone == {"undo", "undoRecord", "closeBridgeKeep"}
HavePc == (HoldPc \ {"undo"})
            \cup {"up", "close", "closeTaps", "closeTable", "closeBridge", "closeRecord"}
RecordOwned == \A p \in Proc :
    /\ p \in recorded => pc[p] \in HavePc \cup {"crashed"}
    /\ pc[p] \in HavePc => p \in recorded
    /\ pc[p] \notin Undone
RestoreLast == (\E q \in Proc : pc[q] \in RestorePc) => recorded = {}
EndedClean == \A p \in Proc : pc[p] = "ended" => LinksOf(p) = {}

\* A flag that is up is owed: a network is left to close, or a process that has
\* closed the last one is about to take the flag down.
NobodyCrashed == \A p \in Proc : pc[p] # "crashed"
FwdOwed ==
    fwd = "1" /\ NobodyCrashed =>
        recorded # {} \/ \E p \in Proc : pc[p] \in {"restore", "restoreBridges", "restoreWrite"}

\* The marker is cut short by a process that crashed.
CutCrashed == marker = "cut" => ~NobodyCrashed

ReturnInv == RecordOwned /\ RestoreLast /\ EndedClean /\ FwdOwed /\ CutCrashed

-----------------------------------------------------------------------------
(* The steps, by what they can disturb: the flag moves in Restoring and    *)
(* Making, taps in Handling, and records in any.                           *)

Plain(p) ==
    \/ Start(p) \/ CreateNetwork(p) \/ Close(p) \/ Exit(p) \/ Crash(p)
    \/ SweepList(p) \/ (\E d \in Proc : SweepPick(p, d)) \/ SweepTapsDone(p)
    \/ SweepTable(p) \/ SweepBridge(p) \/ SweepRecord(p) \/ SweepEnd(p)
    \/ NetUndo(p) \/ NetUndoRecord(p)
    \/ CloseClone(p) \/ CloseTapsDone(p) \/ CloseTable(p) \/ CloseBridge(p) \/ CloseRecord(p)
Restoring(p) == Restore(p) \/ RestoreBridges(p) \/ RestoreWrite(p) \/ RestoreClear(p)
Making(p) ==
    \/ NetRecord(p) \/ NetBridge(p) \/ NetAddress(p) \/ FwdRead(p) \/ FwdMark(p)
    \/ FwdMarkWrite(p) \/ FwdFlip(p) \/ NetFirewall(p)
Handling ==
    \/ \E p \in Proc, t \in Tap : SweepTap(p, t) \/ CloseTap(p, t)
    \/ \E t \in Tap : TapBegin(t) \/ TapWork(t)

\* Every step is one of these.
LEMMA NextSplit ==
    [Next]_vars => \/ \E p \in Proc : Plain(p) \/ Restoring(p) \/ Making(p)
                   \/ Handling
                   \/ UNCHANGED vars
  BY DEF Next, Plain, Restoring, Making, Handling, ProcWork, Quiet

\* Where a plain step leads, and from where.
LEMMA PlainStep ==
    ASSUME TypeOK, NEW p \in Proc, Plain(p)
    PROVE  /\ UNCHANGED fwd
           /\ \/ pc[p] # "markWrite" /\ UNCHANGED marker
              \/ Crash(p) /\ pc'[p] = "crashed" /\ marker' \in {marker, "cut"}
           /\ UNCHANGED pc
              \/ \E to \in Pc : Goto(p, to) /\ to \notin HoldPc \cup RestorePc \cup {"up"}
  <1> USE DEF At, Goto, Pc, HoldPc, RestorePc, SweepPc, CreatePc, ClosePc, GonePc, netVars,
      sweepVars,
          host
  <1>1. CASE Start(p) \/ CreateNetwork(p) \/ Close(p)
    BY <1>1 DEF Start, CreateNetwork, Close
  <1>2. CASE Exit(p) \/ Crash(p)
    BY <1>2 DEF Exit, Crash, Die, TypeOK
  <1>3. CASE \E d \in Proc : SweepPick(p, d)
    BY <1>3 DEF SweepPick
  <1>4. CASE SweepList(p) \/ SweepTapsDone(p) \/ SweepRecord(p) \/ SweepEnd(p)
    BY <1>4 DEF SweepList, SweepTapsDone, SweepRecord, SweepEnd
  <1>5. CASE SweepTable(p) \/ SweepBridge(p)
    BY <1>5 DEF SweepTable, SweepBridge
  <1>6. CASE NetUndo(p) \/ NetUndoRecord(p)
    BY <1>6 DEF NetUndo, NetUndoRecord
  <1>7. CASE CloseClone(p) \/ CloseTapsDone(p) \/ CloseTable(p) \/ CloseBridge(p) \/ CloseRecord(p)
    BY <1>7 DEF CloseClone, CloseTapsDone, CloseTable, CloseBridge, CloseRecord
  <1> QED
    BY <1>1, <1>2, <1>3, <1>4, <1>5, <1>6, <1>7 DEF Plain

\* Slots and deletions of a tap leave processes and the flag alone.
LEMMA HandlingStep == Handling => UNCHANGED <<pc, phase, fwd, marker>>
  BY DEF Handling, SweepTap, CloseTap, TapBegin, TapWork, TapPersist, TapAdd, TapAttach, TapUndo,
     TapDelete, TapDrop, TapRewrite, TapRest

\* A process that moves keeps FwdInv when it begins a network only while nobody
\* restores, and begins to restore only while nobody has one.
LEMMA FwdMoved ==
    ASSUME TypeOK, FwdInv, NEW p \in Proc, NEW to \in Pc, Goto(p, to),
           to \in HoldPc \cup {"up"} => \/ pc[p] \in HoldPc \cup {"up"}
                                       \/ \A q \in Proc : pc[q] \notin RestorePc,
           to \in RestorePc => \/ pc[p] \in RestorePc
                              \/ \A q \in Proc : pc[q] \notin HoldPc \cup {"up"},
           to \in {"firewall", "up"} => fwd' = "1",
           fwd' \in {fwd, "1"} \/ pc[p] \in RestorePc
    PROVE  FwdInv'
  <1>1. pc'[p] = to /\ \A q \in Proc : q # p => pc'[q] = pc[q]
    BY DEF Goto, TypeOK
  <1>2. RestoreAlone'
    BY <1>1 DEF FwdInv, RestoreAlone, HoldPc, RestorePc
  <1>3. FwdUp'
    BY <1>1 DEF FwdInv, FwdUp, RestoreAlone, HoldPc, RestorePc
  <1> QED
    BY <1>2, <1>3 DEF FwdInv

\* A process with no record has no forwarding to lose.
LEMMA NoneUp ==
    ASSUME NetInv, recorded = {}
    PROVE  \A p \in Proc : pc[p] \notin HoldPc \cup {"up"}
  BY DEF NetInv, RecordHeld, HasBridge, BridgePc, NetworkRecorded

\* FwdInv is inductive: Restore is where a record of another stops it.
LEMMA FwdStep ==
    ASSUME NoneDuringRestore, NetInv, FwdInv, [Next]_vars
    PROVE  FwdInv'
  <1>0. TypeOK
    BY DEF NetInv
  <1>1. ASSUME NEW p \in Proc, Plain(p) PROVE FwdInv'
    <2>1. CASE UNCHANGED pc
      BY <1>0, <1>1, <2>1, PlainStep DEF FwdInv, RestoreAlone, FwdUp
    <2>2. CASE ~UNCHANGED pc
      BY <1>0, <1>1, <2>2, PlainStep, FwdMoved DEF HoldPc
    <2> QED
      BY <2>1, <2>2
  <1>2. ASSUME NEW p \in Proc, Restoring(p) PROVE FwdInv'
    <2> USE DEF At, Pc, GonePc, AfterRestore, HoldPc, RestorePc
    <2>1. CASE Restore(p)
      BY <1>0, <2>1, FwdMoved, NoneUp DEF Restore, netVars
    <2>2. CASE RestoreBridges(p)
      BY <1>0, <2>2, FwdMoved DEF RestoreBridges, netVars
    <2>3. CASE RestoreWrite(p)
      BY <1>0, <2>3, FwdMoved DEF RestoreWrite
    <2>4. CASE RestoreClear(p)
      BY <1>0, <2>4, FwdMoved DEF RestoreClear
    <2> QED
      BY <1>2, <2>1, <2>2, <2>3, <2>4 DEF Restoring
  <1>3. ASSUME NEW p \in Proc, Making(p) PROVE FwdInv'
    <2> USE DEF At, Pc, GonePc, HoldPc, RestorePc, CreatePc, ClosePc
    <2>1. CASE NetRecord(p)
      BY <1>0, <2>1, FwdMoved DEF NetRecord, NoneDuringRestore, Allowed
    <2>2. CASE NetBridge(p)
      BY <1>0, <2>2, FwdMoved DEF NetBridge
    <2>3. CASE NetAddress(p)
      BY <1>0, <2>3, FwdMoved DEF NetAddress, netVars
    <2>4. CASE FwdRead(p)
      BY <1>0, <2>4, FwdMoved DEF FwdRead, TypeOK
    <2>5. CASE FwdMark(p) \/ FwdMarkWrite(p)
      BY <1>0, <2>5, FwdMoved DEF FwdMark, FwdMarkWrite
    <2>6. CASE FwdFlip(p)
      BY <1>0, <2>6, FwdMoved DEF FwdFlip
    <2>7. CASE NetFirewall(p)
      BY <1>0, <2>7, FwdMoved DEF NetFirewall, FwdInv, FwdUp
    <2> QED
      BY <1>3, <2>1, <2>2, <2>3, <2>4, <2>5, <2>6, <2>7 DEF Making
  <1>4. CASE Handling \/ UNCHANGED vars
    BY <1>4, HandlingStep DEF vars, FwdInv, RestoreAlone, FwdUp
  <1> QED
    BY <1>1, <1>2, <1>3, <1>4, NextSplit

\* So it always holds, as long as no network is created during a restore.
LEMMA FwdInvCorrect == NoneDuringRestore /\ Spec => [](NetInv /\ FwdInv)
  <1>1. Init => FwdInv
    BY DEF Init, FwdInv, RestoreAlone, FwdUp, RestorePc
  <1>2. CASE NoneDuringRestore
    <2>1. NetInv /\ FwdInv /\ [Next]_vars => FwdInv'
      BY <1>2, FwdStep
    <2> QED
      BY <1>1, <2>1, NetInvCorrect, PTL DEF Spec
  <1> QED
    BY <1>2

\* The VMs of a network that is up can reach out, however many networks come, go
\* and crash: maybeRestoreForwarding never takes the flag down under one.  It
\* needs that no record appears between its look at the records and its write.
THEOREM EgressForwardedCorrect == NoneDuringRestore /\ Spec => []EgressForwarded
  <1>1. FwdInv => EgressForwarded
    BY DEF FwdInv, FwdUp, EgressForwarded
  <1> QED
    BY <1>1, FwdInvCorrect, PTL


-----------------------------------------------------------------------------

\* The marker has the first value from before the flag is flipped until after it
\* is restored.
LEMMA WrittenStep ==
    ASSUME NetInv, FwdInv, Written, [Next]_vars
    PROVE  Written'
  <1>0. TypeOK
    BY DEF NetInv
  <1>1. ASSUME NEW p \in Proc, Plain(p) PROVE Written'
    <2>1. /\ UNCHANGED fwd
          /\ \/ pc[p] # "markWrite" /\ UNCHANGED marker
             \/ Crash(p) /\ marker' \in {marker, "cut"}
      BY <1>0, <1>1, PlainStep
    <2>2. \A q \in Proc : /\ pc'[q] = "flip" => pc[q] = "flip"
                          /\ pc'[q] = "restoreClear" => pc[q] = "restoreClear"
                          /\ pc[q] = "markWrite" /\ q # p => pc'[q] = "markWrite"
      BY <1>0, <1>1, PlainStep DEF Goto, TypeOK, HoldPc, RestorePc
    <2>3. CASE pc[p] # "markWrite" /\ UNCHANGED marker
      BY <2>1, <2>2, <2>3 DEF Written
    <2>4. CASE Crash(p) /\ ~(pc[p] # "markWrite" /\ UNCHANGED marker)
      <3>1. marker' = "cut"
        BY <2>4 DEF Crash, At
      <3> QED
        BY <2>1, <2>2, <3>1, NetAssumption DEF Written
    <2> QED
      BY <2>1, <2>3, <2>4
  <1>2. ASSUME NEW p \in Proc, Restoring(p) PROVE Written'
    <2> USE DEF At, Goto, AfterRestore
    <2>1. CASE Restore(p) \/ RestoreBridges(p)
      BY <1>0, <2>1 DEF Restore, RestoreBridges, netVars, Written, TypeOK
    <2>2. CASE RestoreWrite(p)
      BY <1>0, <2>2 DEF RestoreWrite, Written, TypeOK
    <2>3. CASE RestoreClear(p)
      <3>1. fwd = "0" /\ \A q \in Proc : pc[q] # "flip"
        BY <2>3 DEF RestoreClear, Written, FwdInv, RestoreAlone, RestorePc, HoldPc
      <3> QED
        BY NetAssumption, <1>0, <2>3, <3>1 DEF RestoreClear, Written, TypeOK
    <2> QED
      BY <1>2, <2>1, <2>2, <2>3 DEF Restoring
  <1>3. ASSUME NEW p \in Proc, Making(p) PROVE Written'
    <2> USE DEF At, Goto
    <2>1. CASE NetRecord(p) \/ NetBridge(p) \/ NetAddress(p) \/ FwdRead(p) \/ NetFirewall(p)
      <3>1. UNCHANGED <<fwd, marker>>
        BY <2>1 DEF NetRecord, NetBridge, NetAddress, FwdRead, NetFirewall, netVars
      <3>2. \A q \in Proc : /\ pc'[q] = "flip" => pc[q] = "flip"
                            /\ pc'[q] = "restoreClear" => pc[q] = "restoreClear"
                            /\ pc[q] = "markWrite" => pc'[q] = "markWrite"
        BY <1>0, <2>1 DEF NetRecord, NetBridge, NetAddress, FwdRead, NetFirewall, TypeOK
      <3> QED
        BY <3>1, <3>2 DEF Written
    <2>2. CASE FwdMark(p)
      BY <1>0, <2>2, NetAssumption DEF FwdMark, Written, TypeOK
    <2>3. CASE FwdMarkWrite(p)
      BY NetAssumption, <1>0, <2>3 DEF FwdMarkWrite, Written, TypeOK
    <2>4. CASE FwdFlip(p)
      <3>1. \A q \in Proc : pc[q] # "restoreClear"
        BY <2>4 DEF FwdFlip, FwdInv, RestoreAlone, HoldPc, RestorePc
      <3> QED
        BY <1>0, <2>4, <3>1 DEF FwdFlip, Written, TypeOK
    <2> QED
      BY <1>3, <2>1, <2>2, <2>3, <2>4 DEF Making
  <1>4. CASE Handling \/ UNCHANGED vars
    BY <1>4, HandlingStep DEF vars, Written
  <1> QED
    BY <1>1, <1>2, <1>3, <1>4, NextSplit

\* While the flag is flipped its first value is on file, about to be, or was cut short
\* by a writer that failed or died, so that but for the last a later process can
\* restore it whoever dies: saveForwardingOrig comes before the flip, and
\* clearForwardingOrig after the restore.
THEOREM FwdRecoverableCorrect == NoneDuringRestore /\ Spec => []FwdRecoverable
  <1>1. Init => Written
    BY NetAssumption DEF Init, Written
  <1>2. CASE NoneDuringRestore
    <2>1. NetInv /\ FwdInv /\ Written /\ [Next]_vars => Written'
      BY WrittenStep
    <2>2. Spec => []Written
      BY <1>1, <1>2, <2>1, FwdInvCorrect, PTL DEF Spec
    <2>3. NetInv /\ Written => FwdRecoverable
      BY DEF NetInv, TypeOK, Written, FwdRecoverable
    <2> QED
      BY <1>2, <2>2, <2>3, FwdInvCorrect, PTL
  <1> QED
    BY <1>2

-----------------------------------------------------------------------------

\* No device is refused.
LEMMA AllDeleted ==
    Covering => \A set, gone : Deleted(set, gone) = {set \ gone}
  BY DEF Covering, Deleted, Allowed

\* A network that is not up has no tap in use, and before its end no tap at all.
LEMMA NoTaps ==
    ASSUME NetInv, CoverInv, NEW p \in Proc, pc[p] # "up"
    PROVE  /\ \A t \in Tap : t[1] = p => ~Busy(t)
           /\ pc[p] \notin DeadPc => LinksOf(p) = {}
  BY DEF CoverInv, SlotsUp, LinksUsed, LinksOf, LinkPc, Busy, TapsOf

Steady(p) ==
    \/ Start(p) \/ CreateNetwork(p) \/ Close(p)
    \/ SweepTable(p) \/ SweepBridge(p) \/ SweepRecord(p) \/ SweepEnd(p)
    \/ NetUndo(p) \/ NetUndoRecord(p)
    \/ CloseTapsDone(p) \/ CloseTable(p) \/ CloseBridge(p) \/ CloseRecord(p)
    \/ Restoring(p) \/ Making(p)

\* The steps of a process that leave sweeps, slots and taps alone: what they do to
\* a record, and where they lead.
LEMMA SteadyStep ==
    ASSUME Covering, NetInv, NEW p \in Proc, Steady(p)
    PROVE  /\ UNCHANGED <<listed, snap, cur, taps, tapPc, links>>
           /\ \/ UNCHANGED <<recorded, recTaps>>
              \/ Persist(p)
              \/ DeleteRecord(p) /\ pc[p] \in {"bridge", "undoRecord", "closeRecord"}
              \/ DeleteRecord(cur[p]) /\ pc[p] = "sweepRecord"
           /\ \E to \in Pc \ DeadPc :
                 /\ Goto(p, to) /\ pc[p] \notin DeadPc
                 /\ to \in SweepingPc => {pc[p], to} \subseteq SweepingPc \ {"sweepTaps"}
                 /\ pc[p] = "up" => \A t \in TapsOf(p) : ~Busy(t)
  <1> USE DEF At, Pc, SweepPc, CreatePc, ClosePc, RestorePc, GonePc, netVars, sweepVars, host,
      DeadPc,
          SweepingPc
  <1>1. CASE Start(p) \/ CreateNetwork(p) \/ SweepEnd(p) \/ CloseTapsDone(p)
    BY <1>1 DEF Start, CreateNetwork, SweepEnd, CloseTapsDone
  <1>2. CASE Close(p)
    BY <1>2 DEF Close, Covering, Allowed
  <1>3. CASE SweepTable(p) \/ SweepBridge(p) \/ SweepRecord(p)
    BY <1>3 DEF SweepTable, SweepBridge, SweepRecord
  <1>4. CASE NetUndo(p) \/ NetUndoRecord(p)
    BY <1>4 DEF NetUndo, NetUndoRecord
  <1>5. CASE CloseTable(p) \/ CloseBridge(p) \/ CloseRecord(p)
    BY <1>5 DEF CloseTable, CloseBridge, CloseRecord
  <1>6. CASE Restoring(p)
    BY <1>6 DEF Restoring, Restore, RestoreBridges, RestoreWrite, RestoreClear, AfterRestore
  <1>7. CASE NetRecord(p) \/ NetBridge(p) \/ NetAddress(p)
    BY <1>7 DEF NetRecord, NetBridge, NetAddress
  <1>8. CASE FwdRead(p) \/ FwdMark(p) \/ FwdMarkWrite(p) \/ FwdFlip(p) \/ NetFirewall(p)
    BY <1>8 DEF FwdRead, FwdMark, FwdMarkWrite, FwdFlip, NetFirewall
  <1> QED
    BY <1>1, <1>2, <1>3, <1>4, <1>5, <1>6, <1>7, <1>8 DEF Steady, Making

\* The record that persist writes has every tap in use.
LEMMA WriteKeeps ==
    ASSUME NetInv, CoverInv, NEW p \in Proc, pc[p] \notin DeadPc, Persist(p),
           UNCHANGED <<taps, tapPc, links>>
    PROVE  TapsHeld' /\ Links'
  <1>1. \A t \in Tap : tapPc[t] \in LinkPc \cup {"add"} => t \in taps[t[1]]
    BY DEF CoverInv, TapsHeld, Busy, LinkPc
  <1>2. p \in recorded' /\ recTaps'[p] = taps[p] /\ recorded \subseteq recorded'
        /\ \A q \in Proc : q # p => recTaps'[q] = recTaps[q]
    BY DEF Persist, NetInv, TypeOK
  <1>3. TapsHeld'
    BY <1>1, <1>2, TapOwner DEF CoverInv, TapsHeld, Busy
  <1>4. Links'
    BY <1>1, <1>2, TapOwner DEF CoverInv, RecordCovers, Links, LinksUsed, NetInv, TypeOK
  <1> QED
    BY <1>3, <1>4

\* The record that is deleted had no tap left.
LEMMA DeleteKeeps ==
    ASSUME NetInv, CoverInv, NEW p \in Proc, pc[p] # "up", LinksOf(p) = {}, DeleteRecord(p),
           UNCHANGED <<taps, tapPc, links>>
    PROVE  TapsHeld' /\ Links'
  <1>1. \A t \in Tap : tapPc[t] \in LinkPc \cup {"add"} => t[1] # p
    BY NoTaps DEF Busy, LinkPc
  <1>2. recorded' = recorded \ {p} /\ \A q \in Proc : q # p => recTaps'[q] = recTaps[q]
    BY DEF DeleteRecord, NetInv, TypeOK
  <1>3. TapsHeld'
    BY <1>1, <1>2, TapOwner DEF CoverInv, TapsHeld, Busy
  <1>4. Links'
    BY <1>2, TapOwner DEF CoverInv, RecordCovers, Links, LinksOf, TapsOf, NetInv, TypeOK
  <1> QED
    BY <1>3, <1>4

\* What sweeps have seen of the dead stays, while none dies and no tap of the dead
\* appears.
LEMMA SeesFrame ==
    ASSUME NetInv, SweepSees, UNCHANGED <<listed, snap, cur>>,
           \A t \in links' \ links : pc[t[1]] \notin DeadPc,
           \A q \in Proc : pc'[q] \in DeadPc => pc[q] \in DeadPc,
           \A q \in Proc : pc'[q] \in SweepingPc =>
              \/ pc'[q] = pc[q]
              \/ {pc[q], pc'[q]} \subseteq SweepingPc \ {"sweepTaps"}
    PROVE  SweepSees'
  <1>1. \A q \in Proc : pc[q] \in DeadPc => LinksOf(q)' \subseteq LinksOf(q)
    BY DEF LinksOf, TapsOf
  <1>2. \A q \in Proc : listed[q] \subseteq Proc
    BY DEF NetInv, TypeOK
  <1>3. \A q \in Proc : pc[q] \in SweepingPc => cur[q] \in Proc /\ pc[cur[q]] \in DeadPc
    BY DEF NetInv, SweepsDead
  <1>4. ASSUME NEW q \in Proc, NEW d \in listed'[q], pc'[d] \in DeadPc
        PROVE  LinksOf(d)' \subseteq snap'[q][d]
    BY <1>1, <1>2, <1>4 DEF SweepSees
  <1>5. ASSUME NEW q \in Proc, pc'[q] = "sweepTaps"
        PROVE  LinksOf(cur[q])' \subseteq snap'[q][cur'[q]]
    <2>1. pc[q] = "sweepTaps" /\ q \in Proc
      BY <1>5 DEF SweepingPc
    <2> QED
      BY <1>1, <1>3, <2>1 DEF SweepSees, SweepingPc
  <1>6. ASSUME NEW q \in Proc, pc'[q] \in SweepingPc \ {"sweepTaps"}
        PROVE  LinksOf(cur[q])' = {}
    BY <1>1, <1>3, <1>6 DEF SweepSees
  <1> QED
    BY <1>4, <1>5, <1>6 DEF SweepSees

\* The steady steps keep CoverInv.
LEMMA SteadyCover ==
    ASSUME Covering, NetInv, NetInv', CoverInv, NEW p \in Proc, Steady(p)
    PROVE  CoverInv'
  <1>1. PICK to \in Pc \ DeadPc :
            /\ Goto(p, to) /\ pc[p] \notin DeadPc
            /\ to \in SweepingPc => {pc[p], to} \subseteq SweepingPc \ {"sweepTaps"}
            /\ pc[p] = "up" => \A t \in TapsOf(p) : ~Busy(t)
    BY SteadyStep
  <1>2. UNCHANGED <<listed, snap, cur, taps, tapPc, links>>
    BY SteadyStep
  <1>3. pc'[p] = to /\ \A q \in Proc : q # p => pc'[q] = pc[q]
    BY <1>1 DEF Goto, NetInv, TypeOK
  <1>4. SlotsUp'
    BY <1>1, <1>2, <1>3, TapOwner DEF CoverInv, SlotsUp, Busy, TapsOf
  <1>5. LinksUsed'
    BY <1>1, <1>2, <1>3, TapOwner DEF CoverInv, LinksUsed, NetInv, TypeOK
  <1>6. SweepSees'
    BY <1>1, <1>2, <1>3, SeesFrame DEF CoverInv
  <1>7. TapsHeld' /\ Links'
    <2>1. CASE UNCHANGED <<recorded, recTaps>>
      BY <1>2, <2>1 DEF CoverInv, TapsHeld, Busy, RecordCovers, Links
    <2>2. CASE Persist(p)
      BY <1>1, <1>2, <2>2, WriteKeeps
    <2>3. CASE DeleteRecord(p) /\ pc[p] \in {"bridge", "undoRecord", "closeRecord"}
      BY <1>1, <1>2, <2>3, NoTaps, DeleteKeeps
    <2>4. CASE DeleteRecord(cur[p]) /\ pc[p] = "sweepRecord"
      <3>1. /\ cur[p] \in Proc /\ pc[cur[p]] # "up" /\ LinksOf(cur[p]) = {}
        BY <2>4 DEF NetInv, SweepsDead, SweepingPc, DeadPc, CoverInv, SweepSees
      <3> QED
        BY <1>2, <2>4, <3>1, DeleteKeeps
    <2> QED
      BY <2>1, <2>2, <2>3, <2>4, SteadyStep
  <1> QED
    BY <1>4, <1>5, <1>6, <1>7 DEF CoverInv, RecordCovers, Links, NetInv

\* So does the end of a process: its slots end with it, and no sweep has read the
\* record of one that leaves taps.
LEMMA DieCover ==
    ASSUME Covering, NetInv, NetInv', CoverInv, NEW p \in Proc, Exit(p) \/ Crash(p)
    PROVE  CoverInv'
  <1>1. PICK how \in DeadPc : Die(p, how)
    BY DEF Exit, Crash, DeadPc
  <1>2. /\ pc'[p] \in DeadPc /\ \A q \in Proc : q # p => pc'[q] = pc[q]
        /\ UNCHANGED <<recorded, recTaps, links>>
        /\ \A t \in Tap : tapPc'[t] = IF t[1] = p THEN "gone" ELSE tapPc[t]
        /\ taps'[p] = {} /\ \A q \in Proc : q # p => taps'[q] = taps[q]
        /\ listed'[p] = {} /\ \A q \in Proc : q # p => listed'[q] = listed[q]
        /\ \A q \in Proc : q # p => snap'[q] = snap[q] /\ cur'[q] = cur[q]
    BY <1>1 DEF Die, Goto, NetInv, TypeOK, host
  <1>3. SlotsUp'
    BY <1>2, TapOwner DEF CoverInv, SlotsUp, Busy
  <1>4. LinksUsed' /\ TapsHeld' /\ Links'
    <2>1. LinksUsed'
      BY <1>2, TapOwner DEF CoverInv, LinksUsed, NetInv, TypeOK
    <2>2. TapsHeld'
      BY <1>2, TapOwner DEF CoverInv, TapsHeld, Busy, LinkPc
    <2> QED
      BY <1>2, <2>1, <2>2 DEF CoverInv, RecordCovers, Links
  <1>5. LinksOf(p) = {} \/ \A q \in Proc : p \notin listed[q]
    <2>1. CASE Exit(p)
      BY <2>1, NoTaps DEF Exit, DeadPc
    <2>2. CASE Crash(p)
      BY <2>2 DEF Crash, Covering, Allowed
    <2> QED
      BY <2>1, <2>2
  <1>6. SweepSees'
    <2>1. ASSUME NEW q \in Proc, NEW d \in listed'[q], pc'[d] \in DeadPc
          PROVE  LinksOf(d)' \subseteq snap'[q][d]
      <3>1. q # p /\ d \in Proc /\ d \in listed[q] /\ snap'[q] = snap[q] /\ LinksOf(d)' = LinksOf(d)
        BY <1>2, <2>1 DEF NetInv, TypeOK, LinksOf
      <3>2. CASE d = p
        BY <1>5, <3>1, <3>2
      <3>3. CASE d # p
        BY <1>2, <2>1, <3>1, <3>3 DEF CoverInv, SweepSees
      <3> QED
        BY <3>2, <3>3
    <2>2. ASSUME NEW q \in Proc, pc'[q] \in SweepingPc
          PROVE  q # p /\ UNCHANGED <<pc[q], snap[q], cur[q], links>>
      BY <1>2, <2>2 DEF SweepingPc, DeadPc
    <2>3. ASSUME NEW q \in Proc, pc'[q] = "sweepTaps"
          PROVE  LinksOf(cur[q])' \subseteq snap'[q][cur'[q]]
      <3>1. pc'[q] \in SweepingPc
        BY <2>3 DEF SweepingPc
      <3> QED
        BY <2>2, <2>3, <3>1 DEF CoverInv, SweepSees, LinksOf
    <2>4. ASSUME NEW q \in Proc, pc'[q] \in SweepingPc \ {"sweepTaps"}
          PROVE  LinksOf(cur[q])' = {}
      BY <2>2, <2>4 DEF CoverInv, SweepSees, LinksOf
    <2> QED
      BY <2>1, <2>3, <2>4 DEF SweepSees
  <1> QED
    BY <1>3, <1>4, <1>6 DEF CoverInv, RecordCovers, Links, NetInv

\* A step of one sweep leaves what the others have seen.
LEMMA SeesStep ==
    ASSUME NetInv, NetInv', SweepSees, NEW p \in Proc, links' \subseteq links,
           \A q \in Proc : q # p => UNCHANGED <<pc[q], listed[q], snap[q], cur[q]>>,
           pc[p] \notin DeadPc, pc'[p] \notin DeadPc,
           \A d \in listed'[p] : pc[d] \in DeadPc => LinksOf(d)' \subseteq snap'[p][d],
           pc'[p] = "sweepTaps" => LinksOf(cur[p])' \subseteq snap'[p][cur'[p]],
           pc'[p] \in SweepingPc \ {"sweepTaps"} => LinksOf(cur[p])' = {}
    PROVE  SweepSees'
  <1>1. \A q \in Proc : LinksOf(q)' \subseteq LinksOf(q)
    BY DEF LinksOf
  <1>2. \A q \in Proc : (listed[q] \subseteq Proc /\ listed'[q] \subseteq Proc) \/ q = p
    BY DEF NetInv, TypeOK
  <1>3. \A q \in Proc : pc[q] \in SweepingPc => cur[q] \in Proc
    BY DEF NetInv, SweepsDead
  <1>4. \A d \in Proc : pc'[d] \in DeadPc => pc[d] \in DeadPc
    OBVIOUS
  <1>5. ASSUME NEW q \in Proc, q # p
        PROVE  /\ \A d \in listed'[q] : pc'[d] \in DeadPc => LinksOf(d)' \subseteq snap'[q][d]
               /\ pc'[q] = "sweepTaps" => LinksOf(cur[q])' \subseteq snap'[q][cur'[q]]
               /\ pc'[q] \in SweepingPc \ {"sweepTaps"} => LinksOf(cur[q])' = {}
    <2>1. \A d \in listed'[q] : d \in Proc /\ d \in listed[q]
      BY <1>2, <1>5
    <2>2. cur'[q] = cur[q] /\ snap'[q] = snap[q] /\ pc'[q] = pc[q]
      BY <1>5
    <2>3. LinksOf(cur[q])' \subseteq LinksOf(cur[q])
      BY <2>2 DEF LinksOf
    <2> QED
      BY <1>1, <1>4, <2>1, <2>2, <2>3 DEF SweepSees
  <1>6. \A d \in listed'[p] : pc'[d] \in DeadPc => LinksOf(d)' \subseteq snap'[p][d]
    BY <1>2, <1>4 DEF NetInv, TypeOK
  <1> QED
    BY <1>5, <1>6 DEF SweepSees

\* The steps of a sweep over the taps of the dead.
LEMMA SweepCover ==
    ASSUME Covering, NetInv, NetInv', CoverInv, NEW p \in Proc,
           SweepList(p) \/ (\E d \in Proc : SweepPick(p, d)) \/ SweepTapsDone(p)
             \/ \E t \in Tap : SweepTap(p, t)
    PROVE  CoverInv'
  <1>0. /\ UNCHANGED <<taps, tapPc, recorded, recTaps>> /\ links' \subseteq links
        /\ \A q \in Proc : q # p => UNCHANGED <<pc[q], listed[q], snap[q], cur[q]>>
        /\ pc[p] \in {"list", "pick", "sweepTaps"}
        /\ pc'[p] \in {"pick", "sweepTaps", "sweepTable"}
    <2> USE DEF At, Goto, netVars, host, NetInv, TypeOK
    <2>1. CASE SweepList(p)
      BY <2>1 DEF SweepList
    <2>2. CASE \E d \in Proc : SweepPick(p, d)
      BY <2>2 DEF SweepPick
    <2>3. CASE SweepTapsDone(p)
      BY <2>3 DEF SweepTapsDone, sweepVars
    <2>4. CASE \E t \in Tap : SweepTap(p, t)
      BY <2>4, AllDeleted DEF SweepTap
    <2> QED
      BY <2>1, <2>2, <2>3, <2>4
  <1>1. SlotsUp'
    BY <1>0, TapOwner DEF CoverInv, SlotsUp, Busy
  <1>2. LinksUsed' /\ TapsHeld' /\ Links'
    BY <1>0, TapOwner DEF CoverInv, LinksUsed, TapsHeld, Busy, RecordCovers, Links, DeadPc,
       NetInv, TypeOK
  <1>3. pc[p] \notin DeadPc /\ pc'[p] \notin DeadPc
    BY <1>0 DEF DeadPc
  <1>4. listed[p] \subseteq Proc
    BY DEF NetInv, TypeOK
  <1>5. SweepSees'
    <2>1. CASE SweepList(p)
      <3>1. UNCHANGED links /\ pc'[p] = "pick" /\ listed'[p] = recorded /\ snap'[p] = recTaps
        BY <2>1 DEF SweepList, Goto, NetInv, TypeOK, netVars, host
      <3>2. \A d \in recorded : LinksOf(d)' \subseteq recTaps[d]
        BY <3>1 DEF CoverInv, RecordCovers, LinksOf, TapsOf
      <3> QED
        BY <1>0, <1>3, <3>1, <3>2, SeesStep DEF CoverInv, SweepingPc
    <2>2. CASE \E d \in Proc : SweepPick(p, d)
      <3>1. PICK d \in Proc : SweepPick(p, d)
        BY <2>2
      <3>2. UNCHANGED <<snap, links>> /\ listed'[p] \subseteq listed[p]
        BY <3>1 DEF SweepPick, NetInv, TypeOK, netVars, host
      <3>3. \/ pc'[p] = "pick"
            \/ d \in listed[p] /\ ~Alive(d) /\ cur'[p] = d /\ pc'[p] = "sweepTaps"
        BY <3>1 DEF SweepPick, At, Goto, NetInv, TypeOK
      <3>4. \A e \in listed'[p] : pc[e] \in DeadPc => LinksOf(e)' \subseteq snap'[p][e]
        BY <1>4, <3>2 DEF CoverInv, SweepSees, LinksOf
      <3>5. pc'[p] = "sweepTaps" => LinksOf(cur[p])' \subseteq snap'[p][cur'[p]]
        BY <3>2, <3>3 DEF NetInv, Born, Alive, GonePc, DeadPc, CoverInv, SweepSees, LinksOf
      <3> QED
        BY <1>0, <1>3, <3>2, <3>3, <3>4, <3>5, SeesStep DEF CoverInv, SweepingPc
    <2>3. CASE SweepTapsDone(p)
      <3>1. UNCHANGED <<listed, snap, cur, links>> /\ snap[p][cur[p]] = {}
            /\ pc[p] = "sweepTaps" /\ pc'[p] = "sweepTable"
        BY <2>3 DEF SweepTapsDone, At, Goto, sweepVars, netVars, host, NetInv, TypeOK
      <3>2. LinksOf(cur[p]) = {}
        BY <3>1 DEF CoverInv, SweepSees
      <3>3. LinksOf(cur[p])' = {}
        BY <3>1, <3>2 DEF LinksOf
      <3>4. \A e \in listed'[p] : pc[e] \in DeadPc => LinksOf(e)' \subseteq snap'[p][e]
        BY <1>4, <3>1 DEF CoverInv, SweepSees, LinksOf
      <3> QED
        BY <1>0, <1>3, <3>1, <3>3, <3>4, SeesStep DEF CoverInv
    <2>4. CASE \E t \in Tap : SweepTap(p, t)
      <3>1. PICK t \in Tap : SweepTap(p, t)
        BY <2>4
      <3>2. /\ UNCHANGED <<pc, listed, cur>> /\ pc[p] = "sweepTaps" /\ links' = links \ {t}
        BY <3>1, AllDeleted DEF SweepTap, At
      <3>3. cur[p] \in Proc
        BY <3>2 DEF NetInv, SweepsDead, SweepingPc
      <3>4. \A d \in Proc : snap[p][d] \subseteq snap'[p][d] \cup {t}
        BY <3>1, <3>3 DEF SweepTap, NetInv, TypeOK
      <3>5. \A d \in Proc : LinksOf(d) \subseteq snap[p][d] => LinksOf(d)' \subseteq snap'[p][d]
        BY <3>2, <3>4 DEF LinksOf
      <3>6. LinksOf(cur[p])' \subseteq snap'[p][cur'[p]]
        BY <3>2, <3>3, <3>4 DEF CoverInv, SweepSees, LinksOf
      <3>7. \A e \in listed'[p] : pc[e] \in DeadPc => LinksOf(e)' \subseteq snap'[p][e]
        BY <1>4, <3>2, <3>5 DEF CoverInv, SweepSees
      <3> QED
        BY <1>0, <1>3, <3>2, <3>6, <3>7, SeesStep DEF CoverInv
    <2> QED
      BY <2>1, <2>2, <2>3, <2>4
  <1> QED
    BY <1>1, <1>2, <1>5 DEF CoverInv, RecordCovers, Links, NetInv
\* Close finds no tap left to delete.
LEMMA CloseCover ==
    ASSUME Covering, NetInv, NetInv', CoverInv, NEW p \in Proc,
           CloseClone(p) \/ \E t \in Tap : CloseTap(p, t)
    PROVE  CoverInv'
  <1>1. /\ UNCHANGED <<tapPc, recorded, recTaps, cur, listed>> /\ links' \subseteq links
        /\ \A q \in Proc : q # p => pc'[q] = pc[q] /\ snap'[q] = snap[q] /\ taps'[q] = taps[q]
        /\ pc[p] \in {"close", "closeTaps"} /\ pc'[p] = "closeTaps"
        /\ \A d \in Proc : d # p => snap'[p][d] = snap[p][d]
    <2>1. CASE CloseClone(p)
      BY <2>1 DEF CloseClone, At, Goto, host, NetInv, TypeOK
    <2>2. CASE \E t \in Tap : CloseTap(p, t)
      BY <2>2, AllDeleted DEF CloseTap, At, Goto, NetInv, TypeOK
    <2> QED
      BY <2>1, <2>2
  <1>2. pc[p] \notin DeadPc /\ pc'[p] \notin DeadPc /\ pc[p] # "up"
    BY <1>1 DEF DeadPc
  <1>3. \A t \in Tap : t[1] = p => ~Busy(t)
    BY <1>2, NoTaps
  <1>4. SlotsUp'
    BY <1>1, <1>3, TapOwner DEF CoverInv, SlotsUp, Busy
  <1>5. LinksUsed'
    BY <1>1, <1>2, TapOwner DEF CoverInv, LinksUsed, NetInv, TypeOK
  <1>6. TapsHeld'
    BY <1>1, <1>3, TapOwner DEF CoverInv, TapsHeld, Busy, LinkPc
  <1>7. Links'
    BY <1>1 DEF CoverInv, RecordCovers, Links
  <1>8. SweepSees'
    <2>1. \A d \in listed'[p] : pc[d] \in DeadPc => LinksOf(d)' \subseteq snap'[p][d]
      BY <1>1, <1>2 DEF CoverInv, SweepSees, LinksOf, NetInv, TypeOK
    <2> QED
      BY <1>1, <1>2, <2>1, SeesStep DEF CoverInv, SweepingPc
  <1> QED
    BY <1>4, <1>5, <1>6, <1>7, <1>8 DEF CoverInv, RecordCovers, Links, NetInv

\* A step of one slot of a network that is up, by what holds of its tap after it.
LEMMA SlotStep ==
    ASSUME NetInv, NetInv', CoverInv, NEW t \in Tap, NEW to \in TapPc,
           TapGoto(t, to), UNCHANGED <<pc, listed, snap, cur>>, to # "stuck",
           pc[t[1]] = "up",
           to \in LinkPc \/ t \notin links',
           links' \subseteq links \cup {t},
           to \in {"persist", "add", "drop"} \cup LinkPc => t \in taps'[t[1]],
           \A s \in Tap : s # t => (s \in taps[s[1]] => s \in taps'[s[1]]),
           to \in LinkPc \cup {"add"} => t[1] \in recorded' /\ t \in recTaps'[t[1]],
           UNCHANGED <<recorded, recTaps>> \/ (Persist(t[1]) /\ UNCHANGED taps)
    PROVE  CoverInv'
  <1> DEFINE p == t[1]
  <1>1. p \in Proc /\ pc[p] \notin DeadPc
    BY TapOwner DEF DeadPc
  <1>2. tapPc'[t] = to /\ \A s \in Tap : s # t => tapPc'[s] = tapPc[s]
    BY DEF TapGoto, NetInv, TypeOK
  <1>3. SlotsUp'
    BY <1>2 DEF CoverInv, SlotsUp, Busy
  <1>4. LinksUsed'
    BY <1>2 DEF CoverInv, LinksUsed, NetInv, TypeOK
  <1>5. \A s \in Tap : s # t /\ tapPc[s] \in LinkPc \cup {"add"} => s \in taps[s[1]]
    BY DEF CoverInv, TapsHeld, Busy, LinkPc
  <1>6. \A s \in Tap : (s # t /\ s[1] \in recorded /\ s \in recTaps[s[1]] /\ s \in taps[s[1]])
                        => s[1] \in recorded' /\ s \in recTaps'[s[1]]
    <2>1. CASE UNCHANGED <<recorded, recTaps>>
      BY <2>1
    <2>2. CASE Persist(p)
      <3>1. /\ recorded \subseteq recorded' /\ recTaps'[p] = taps[p]
            /\ \A q \in Proc : q # p => recTaps'[q] = recTaps[q]
        BY <1>1, <2>2 DEF Persist, NetInv, TypeOK
      <3> QED
        BY <3>1, TapOwner
    <2> QED
      BY <2>1, <2>2
  <1>7. TapsHeld'
    BY <1>2, <1>5, <1>6 DEF CoverInv, TapsHeld, Busy, LinkPc
  <1>8. Links'
    <2> SUFFICES ASSUME NEW s \in links' PROVE s[1] \in recorded' /\ s \in recTaps'[s[1]]
      BY DEF Links
    <2>1. CASE s = t
      BY <2>1
    <2>2. CASE s # t
      <3>1. s \in links /\ s \in Tap /\ s[1] \in recorded /\ s \in recTaps[s[1]]
        BY <2>2 DEF CoverInv, RecordCovers, NetInv, TypeOK
      <3>2. CASE s[1] = p
        <4>1. tapPc[s] \in LinkPc
          BY <1>1, <3>1, <3>2 DEF CoverInv, LinksUsed
        <4> QED
          BY <1>5, <1>6, <2>2, <3>1, <4>1
      <3>3. CASE s[1] # p
        BY <1>1, <3>1, <3>3, TapOwner DEF Persist, NetInv, TypeOK
      <3> QED
        BY <3>2, <3>3
    <2> QED
      BY <2>1, <2>2
  <1>9. SweepSees'
    BY <1>1, SeesFrame DEF CoverInv
  <1> QED
    BY <1>3, <1>4, <1>7, <1>8, <1>9 DEF CoverInv, RecordCovers, Links, NetInv

\* createTap and deleteTap keep CoverInv: the tap joins the record before it joins
\* the host, and leaves it after.
LEMMA SlotCover ==
    ASSUME Covering, NetInv, NetInv', CoverInv, NEW t \in Tap, TapBegin(t) \/ TapWork(t)
    PROVE  CoverInv'
  <1> DEFINE p == t[1]
  <1> USE DEF TapAt, TapRest, sweepVars, host, LinkPc, Busy, TapPc
  <1>1. /\ p \in Proc /\ pc[p] = "up" /\ UNCHANGED <<pc, listed, snap, cur>>
        /\ \A s \in Tap : s # t => (s \in taps[s[1]] => s \in taps'[s[1]])
    <2>1. p \in Proc
      BY TapOwner
    <2>2. pc[p] = "up"
      BY <2>1 DEF TapBegin, Covering, Allowed, TapWork, TapPersist, TapAdd, TapAttach, TapUndo,
         TapDelete,
         TapDrop, TapRewrite, CoverInv, SlotsUp
    <2>3. UNCHANGED <<pc, listed, snap, cur>>
      BY DEF TapBegin, TapWork, TapPersist, TapAdd, TapAttach, TapUndo, TapDelete, TapDrop,
         TapRewrite
    <2>4. \A s \in Tap : s # t => (s \in taps[s[1]] => s \in taps'[s[1]])
      <3>1. taps' \in {taps, [taps EXCEPT ![p] = @ \cup {t}], [taps EXCEPT ![p] = @ \ {t}]}
        BY DEF TapBegin, TapWork, TapPersist, TapAdd, TapAttach, TapUndo, TapDelete, TapDrop,
           TapRewrite
      <3> QED
        BY <2>1, <3>1, TapOwner DEF NetInv, TypeOK
    <2> QED
      BY <2>1, <2>2, <2>3, <2>4
  <1>2. /\ t \in links => tapPc[t] \in LinkPc
        /\ Busy(t) /\ tapPc[t] # "rewrite" => t \in taps[p]
        /\ tapPc[t] \in LinkPc \cup {"add"} => p \in recorded /\ t \in recTaps[p]
    BY <1>1 DEF CoverInv, LinksUsed, TapsHeld, DeadPc
  <1>3. CASE TapBegin(t)
    <2>1. t \in taps'[p]
      BY <1>1, <1>3 DEF TapBegin, NetInv, TypeOK
    <2> QED
      BY <1>1, <1>2, <1>3, <2>1, SlotStep DEF TapBegin
  <1>4. CASE TapPersist(t)
    <2>1. CASE Persist(p) /\ TapGoto(t, "add")
      <3>1. p \in recorded' /\ t \in recTaps'[p]
        BY <1>1, <1>2, <1>4, <2>1 DEF TapPersist, Persist, NetInv, TypeOK
      <3> QED
        BY <1>1, <1>2, <1>4, <2>1, <3>1, SlotStep DEF TapPersist
    <2>2. CASE TapGoto(t, "drop") /\ UNCHANGED <<recorded, recTaps>>
      BY <1>1, <1>2, <1>4, <2>2, SlotStep DEF TapPersist
    <2> QED
      BY <1>4, <2>1, <2>2 DEF TapPersist
  <1>5. CASE TapAdd(t)
    <2>1. CASE links' = links \cup {t} /\ TapGoto(t, "attach")
      BY <1>1, <1>2, <1>5, <2>1, SlotStep DEF TapAdd
    <2>2. CASE TapGoto(t, "unlink") /\ UNCHANGED links
      BY <1>1, <1>2, <1>5, <2>2, SlotStep DEF TapAdd
    <2> QED
      BY <1>5, <2>1, <2>2 DEF TapAdd
  <1>6. CASE TapAttach(t)
    <2>1. CASE TapGoto(t, "used")
      BY <1>1, <1>2, <1>6, <2>1, SlotStep DEF TapAttach
    <2>2. CASE TapGoto(t, "unlink")
      BY <1>1, <1>2, <1>6, <2>2, SlotStep DEF TapAttach
    <2> QED
      BY <1>6, <2>1, <2>2 DEF TapAttach
  <1>7. CASE TapUndo(t)
    <2>1. links' = links \ {t}
      BY <1>7, AllDeleted DEF TapUndo
    <2> QED
      BY <1>1, <1>2, <1>7, <2>1, SlotStep DEF TapUndo
  <1>8. CASE TapDelete(t)
    <2>1. links' = links \ {t}
      BY <1>8, AllDeleted DEF TapDelete
    <2>2. TapGoto(t, "drop")
      BY <1>8, <2>1 DEF TapDelete
    <2> QED
      BY <1>1, <1>2, <1>8, <2>1, <2>2, SlotStep DEF TapDelete
  <1>9. CASE TapDrop(t)
    BY <1>1, <1>2, <1>9, SlotStep DEF TapDrop
  <1>10. CASE TapRewrite(t)
    BY <1>1, <1>2, <1>10, SlotStep DEF TapRewrite
  <1> QED
    BY <1>3, <1>4, <1>5, <1>6, <1>7, <1>8, <1>9, <1>10 DEF TapWork

\* CoverInv is inductive ...
LEMMA CoverStep ==
    ASSUME Covering, NetInv, CoverInv, [Next]_vars
    PROVE  CoverInv'
  <1>0. NetInv'
    BY NetStep
  <1>1. ASSUME NEW p \in Proc, Plain(p) \/ Restoring(p) \/ Making(p) PROVE CoverInv'
    BY <1>0, <1>1, SteadyCover, DieCover, SweepCover, CloseCover DEF Plain, Steady
  <1>2. CASE Handling
    BY <1>0, <1>2, SweepCover, CloseCover, SlotCover DEF Handling
  <1>3. CASE UNCHANGED vars
    BY <1>3 DEF vars, CoverInv, SlotsUp, LinksUsed, TapsHeld, SweepSees, RecordCovers,
       NetworkRecorded,
       LinksOf, Busy
  <1> QED
    BY <1>1, <1>2, <1>3, NextSplit

\* ... and always holds, where deletions do what they say.
LEMMA CoverInvCorrect == Covering /\ Spec => []CoverInv
  <1>1. Init => CoverInv
    BY DEF Init, CoverInv, SlotsUp, LinksUsed, TapsHeld, SweepSees, RecordCovers, NetworkRecorded,
       LinksOf, Busy, SweepingPc, LinkPc
  <1>2. CASE Covering
    <2>1. NetInv /\ CoverInv /\ [Next]_vars => CoverInv'
      BY <1>2, CoverStep
    <2> QED
      BY <1>1, <2>1, NetInvCorrect, PTL DEF Spec
  <1> QED
    BY <1>2

\* The record names every bridge, table and tap on the host at every moment, a
\* crash between any two steps included: whatever a dead holder leaves can be
\* found and removed (the write-ahead rule of persist).
THEOREM RecordCoversCorrect == Covering /\ Spec => []RecordCovers
  <1>1. CoverInv => RecordCovers
    BY DEF CoverInv
  <1> QED
    BY <1>1, CoverInvCorrect, PTL
-----------------------------------------------------------------------------

\* What a step of one process does to the record of one.
Moves(p, to) ==
    \/ /\ recorded' = recorded
       /\ pc[p] \in HavePc => to \in HavePc \cup {"crashed"}
       /\ to \in HavePc => pc[p] \in HavePc
    \/ /\ recorded' = recorded \cup {p} /\ to \in HavePc
       /\ p \in recorded \/ \A q \in Proc : pc[q] \notin RestorePc
    \/ recorded' = recorded \ {p} /\ to = "restore"
    \/ /\ recorded' = recorded \ {cur[p]} /\ pc[p] = "sweepRecord" /\ to = "pick"

\* A process step writes the record of its own network, which it has or begins,
\* deletes it on the way to the restore, or deletes that of the dead.
LEMMA MovesStep ==
    ASSUME OnlyCrash, NetInv, ReturnInv, NEW p \in Proc,
           Plain(p) \/ Restoring(p) \/ Making(p)
    PROVE  /\ UNCHANGED links
           /\ \/ UNCHANGED <<pc, recorded, fwd>>
              \/ \E to \in Pc : /\ Goto(p, to) /\ Moves(p, to)
                                /\ pc[p] \notin DeadPc /\ to \notin Undone
                                /\ to \in RestorePc => pc[p] \in RestorePc \/ recorded = {}
                                /\ to = "ended" => pc[p] \in {"idle", "leave"}
  <1>1. Mishaps \subseteq {"crash"} /\ TypeOK
    BY DEF OnlyCrash, NetInv
  <1>2. pc[p] \notin Undone
    BY DEF ReturnInv, RecordOwned, Undone
  <1> USE <1>1, <1>2 DEF At, Pc, SweepPc, CreatePc, ClosePc, RestorePc, GonePc, netVars,
      sweepVars, host,
          DeadPc, HoldPc, HavePc, Undone, Moves, Allowed, Deleted, Persist, DeleteRecord
  <1>3. CASE Start(p) \/ CreateNetwork(p) \/ Close(p) \/ SweepList(p) \/ SweepEnd(p)
    BY <1>3 DEF Start, CreateNetwork, Close, SweepList, SweepEnd
  <1>4. CASE Exit(p) \/ Crash(p)
    BY <1>4 DEF Exit, Crash, Die, Alive
  <1>5. CASE \E d \in Proc : SweepPick(p, d)
    BY <1>5 DEF SweepPick
  <1>6. CASE SweepTapsDone(p) \/ SweepTable(p) \/ SweepBridge(p) \/ SweepRecord(p)
    BY <1>6 DEF SweepTapsDone, SweepTable, SweepBridge, SweepRecord
  <1>7. CASE NetUndo(p) \/ NetUndoRecord(p)
    BY <1>7 DEF NetUndo, NetUndoRecord
  <1>8. CASE CloseClone(p) \/ CloseTapsDone(p) \/ CloseTable(p) \/ CloseBridge(p) \/ CloseRecord(p)
    BY <1>8 DEF CloseClone, CloseTapsDone, CloseTable, CloseBridge, CloseRecord
  <1>9. CASE Restoring(p)
    BY <1>9 DEF Restoring, Restore, RestoreBridges, RestoreWrite, RestoreClear, AfterRestore
  <1>10. CASE NetRecord(p) \/ NetBridge(p) \/ NetAddress(p)
    BY <1>10 DEF NetRecord, NetBridge, NetAddress
  <1>11. CASE FwdRead(p)
    BY <1>11 DEF FwdRead, NetInv, RecordHeld
  <1>12. CASE FwdMark(p) \/ FwdMarkWrite(p) \/ FwdFlip(p) \/ NetFirewall(p)
    BY <1>12 DEF FwdMark, FwdMarkWrite, FwdFlip, NetFirewall
  <1> QED
    BY <1>3, <1>4, <1>5, <1>6, <1>7, <1>8, <1>9, <1>10, <1>11, <1>12 DEF Plain, Making

\* A slot rewrites only the record its network has.
LEMMA HandlingOwned ==
    ASSUME NetInv, CoverInv, ReturnInv, Handling
    PROVE  /\ UNCHANGED <<pc, fwd, recorded>>
           /\ \A t \in links' \ links : pc[t[1]] \notin DeadPc
  <1>1. UNCHANGED <<pc, fwd>>
    BY HandlingStep
  <1>2. ASSUME NEW p \in Proc, NEW t \in Tap, SweepTap(p, t) \/ CloseTap(p, t)
        PROVE  links' \subseteq links /\ UNCHANGED recorded
    BY <1>2 DEF SweepTap, CloseTap, Deleted
  <1>3. ASSUME NEW t \in Tap, TapBegin(t) \/ TapWork(t)
        PROVE  links' \subseteq links \cup {t} /\ pc[t[1]] \notin DeadPc
    BY <1>3 DEF TapBegin, TapWork, TapPersist, TapAdd, TapAttach, TapUndo, TapDelete, TapDrop,
       TapRewrite, TapAt, Alive, GonePc, DeadPc, Deleted, host
  <1>4. ASSUME NEW t \in Tap, TapBegin(t) \/ TapWork(t)
        PROVE  UNCHANGED recorded
    <2>1. CASE TapPersist(t) \/ TapRewrite(t)
      <3>1. t[1] \in Proc /\ pc[t[1]] = "up"
        BY <2>1, TapOwner DEF TapPersist, TapRewrite, TapAt, CoverInv, SlotsUp, Busy
      <3>2. t[1] \in recorded
        BY <3>1 DEF ReturnInv, RecordOwned, HavePc
      <3> QED
        BY <2>1, <3>2 DEF TapPersist, TapRewrite, Persist
    <2>2. CASE TapBegin(t) \/ TapAdd(t) \/ TapAttach(t) \/ TapUndo(t) \/ TapDelete(t) \/ TapDrop(t)
      BY <2>2 DEF TapBegin, TapAdd, TapAttach, TapUndo, TapDelete, TapDrop
    <2> QED
      BY <1>4, <2>1, <2>2 DEF TapWork
  <1> QED
    BY <1>1, <1>2, <1>3, <1>4 DEF Handling

\* Records stay with their networks.
LEMMA OwnedStep ==
    ASSUME OnlyCrash, NetInv, CoverInv, ReturnInv, [Next]_vars
    PROVE  RecordOwned' /\ RestoreLast' /\ EndedClean'
  <1>1. ASSUME NEW p \in Proc, Plain(p) \/ Restoring(p) \/ Making(p)
        PROVE  RecordOwned' /\ RestoreLast' /\ EndedClean'
    <2>1. CASE UNCHANGED <<pc, recorded, links>>
      BY <2>1 DEF ReturnInv, RecordOwned, RestoreLast, EndedClean, LinksOf
    <2>2. ASSUME NEW to \in Pc, Goto(p, to), Moves(p, to), UNCHANGED links,
                 pc[p] \notin DeadPc, to \notin Undone,
                 to \in RestorePc => pc[p] \in RestorePc \/ recorded = {},
                 to = "ended" => pc[p] \in {"idle", "leave"}
          PROVE  RecordOwned' /\ RestoreLast' /\ EndedClean'
      <3>1. pc'[p] = to /\ \A q \in Proc : q # p => pc'[q] = pc[q]
        BY <2>2 DEF Goto, NetInv, TypeOK
      <3>2. pc[p] = "sweepRecord" => cur[p] \in Proc /\ pc[cur[p]] \in DeadPc
        BY DEF NetInv, SweepsDead, SweepingPc
      <3>3. RecordOwned'
        BY <2>2, <3>1, <3>2 DEF Moves, ReturnInv, RecordOwned, HavePc, HoldPc, DeadPc, Undone
      <3>4. RestoreLast'
        BY <2>2, <3>1 DEF Moves, ReturnInv, RestoreLast, HavePc, HoldPc, RestorePc
      <3>5. EndedClean'
        BY <2>2, <3>1, NoTaps DEF ReturnInv, EndedClean, LinksOf, DeadPc
      <3> QED
        BY <3>3, <3>4, <3>5
    <2> QED
      BY <1>1, <2>1, <2>2, MovesStep
  <1>2. CASE Handling
    BY <1>2, HandlingOwned DEF ReturnInv, RecordOwned, RestoreLast, EndedClean, LinksOf, TapsOf,
       DeadPc
  <1>3. CASE UNCHANGED vars
    BY <1>3 DEF vars, ReturnInv, RecordOwned, RestoreLast, EndedClean, LinksOf
  <1> QED
    BY <1>1, <1>2, <1>3, NextSplit

\* While nobody has crashed the flag that is up stays somebody's to take down.
LEMMA OwedStep ==
    ASSUME OnlyCrash, NetInv, FwdInv, Written, CoverInv, ReturnInv, [Next]_vars
    PROVE  FwdOwed'
  <1>0. TypeOK /\ Mishaps \subseteq {"crash"}
    BY DEF NetInv, OnlyCrash
  <1>1. ASSUME NEW p \in Proc, Restoring(p) PROVE FwdOwed'
    <2> USE <1>0 DEF At, Goto, AfterRestore, netVars
    <2>1. CASE Restore(p)
      BY <2>1 DEF Restore, FwdOwed, TypeOK
    <2>2. CASE RestoreBridges(p)
      <3>1. recorded = {}
        BY <2>2 DEF RestoreBridges, ReturnInv, RestoreLast, RestorePc
      <3>2. pc'[p] = "restoreWrite"
        BY <2>2, <3>1 DEF RestoreBridges, NetInv, NetworkRecorded, TypeOK
      <3> QED
        BY <3>2 DEF FwdOwed
    <2>3. CASE RestoreWrite(p)
      <3>1. \A q \in Proc : pc[q] # "markWrite"
        BY <2>3 DEF RestoreWrite, FwdInv, RestoreAlone, RestorePc, HoldPc
      <3>2. fwd = "1" => marker \in {"0", "cut"}
        BY <3>1 DEF Written, TypeOK
      <3>3. CASE marker = "cut"
        <4>1. ~NobodyCrashed' /\ UNCHANGED <<fwd, recorded>>
          BY <2>3, <3>3 DEF RestoreWrite, ReturnInv, CutCrashed, NobodyCrashed, TypeOK
        <4> QED
          BY <4>1 DEF FwdOwed
      <3>4. CASE marker # "cut"
        <4>1. fwd' = "0"
          BY <2>3, <3>2, <3>4 DEF RestoreWrite, TypeOK
        <4> QED
          BY <4>1 DEF FwdOwed
      <3> QED
        BY <3>3, <3>4
    <2>4. CASE RestoreClear(p)
      <3>1. fwd = "0" /\ UNCHANGED fwd
        BY <2>4 DEF RestoreClear, Written
      <3> QED
        BY <3>1 DEF FwdOwed
    <2> QED
      BY <1>1, <2>1, <2>2, <2>3, <2>4 DEF Restoring
  <1>2. ASSUME NEW p \in Proc, FwdFlip(p) PROVE FwdOwed'
    <2>1. p \in recorded /\ UNCHANGED recorded
      BY <1>2 DEF FwdFlip, At, NetInv, RecordHeld, HoldPc
    <2> QED
      BY <2>1 DEF FwdOwed
  <1>3. ASSUME NEW p \in Proc, Plain(p) \/ (Making(p) /\ ~FwdFlip(p)) PROVE FwdOwed'
    <2>0. UNCHANGED fwd
      BY <1>0, <1>3, PlainStep
         DEF Making, NetRecord, NetBridge, NetAddress, FwdRead, FwdMark, FwdMarkWrite,
         NetFirewall, netVars
    <2>1. CASE UNCHANGED <<pc, recorded, fwd>>
      BY <2>1 DEF ReturnInv, FwdOwed, NobodyCrashed
    <2>2. ASSUME NEW to \in Pc, Goto(p, to), Moves(p, to), pc[p] \notin DeadPc
          PROVE  FwdOwed'
      <3>1. pc'[p] = to /\ \A q \in Proc : q # p => pc'[q] = pc[q]
        BY <1>0, <2>2 DEF Goto, TypeOK
      <3>2. NobodyCrashed' => NobodyCrashed
        BY <2>2, <3>1 DEF NobodyCrashed, DeadPc
      <3>3. NobodyCrashed' => pc[p] \notin {"restore", "restoreBridges", "restoreWrite"}
        <4>1. CASE Crash(p)
          <5>1. pc'[p] = "crashed"
            BY <1>0, <4>1 DEF Crash, Die, Goto, TypeOK
          <5> QED
            BY <5>1 DEF NobodyCrashed
        <4>2. CASE Plain(p) /\ ~Crash(p)
          BY <4>2 DEF Plain, Start, CreateNetwork, Close, Exit, SweepList, SweepPick, SweepTapsDone,
             SweepTable, SweepBridge, SweepRecord, SweepEnd, NetUndo, NetUndoRecord, CloseClone,
             CloseTapsDone, CloseTable, CloseBridge, CloseRecord, At
        <4>3. CASE Making(p) /\ ~FwdFlip(p)
          BY <4>3 DEF Making, NetRecord, NetBridge, NetAddress, FwdRead, FwdMark, FwdMarkWrite,
             NetFirewall, At
        <4> QED
          BY <1>3, <4>1, <4>2, <4>3
      <3>4. NobodyCrashed /\ pc[p] = "sweepRecord" => cur[p] \notin recorded
        BY DEF NobodyCrashed, ReturnInv, RecordOwned, NetInv, SweepsDead, SweepingPc, DeadPc,
           HavePc, HoldPc
      <3>5. CASE to = "restore"
        BY <3>1, <3>5 DEF FwdOwed
      <3>6. CASE to # "restore"
        <4>1. NobodyCrashed => recorded \subseteq recorded'
          BY <2>2, <3>4, <3>6 DEF Moves
        <4> QED
          BY <2>0, <3>1, <3>2, <3>3, <4>1 DEF ReturnInv, FwdOwed
      <3> QED
        BY <3>5, <3>6
    <2> QED
      BY <1>3, <2>1, <2>2, MovesStep
  <1>4. CASE Handling \/ UNCHANGED vars
    BY <1>4, HandlingOwned DEF vars, ReturnInv, FwdOwed, NobodyCrashed
  <1> QED
    BY <1>1, <1>2, <1>3, <1>4, NextSplit DEF Making

\* As long as no call fails only a crash cuts the marker short, and it stays one.
LEMMA CutStep ==
    ASSUME OnlyCrash, NetInv, CoverInv, ReturnInv, [Next]_vars
    PROVE  CutCrashed'
  <1>0. TypeOK /\ ~Allowed("addFails")
    BY DEF NetInv, OnlyCrash, Allowed
  <1>1. ASSUME NEW p \in Proc, Plain(p) \/ Restoring(p) \/ Making(p) PROVE CutCrashed'
    <2>1. \A q \in Proc : pc[q] = "crashed" => pc'[q] = "crashed"
      BY <1>0, <1>1, MovesStep DEF Goto, TypeOK, DeadPc
    <2>2. marker' = "cut" => marker = "cut" \/ \E q \in Proc : pc'[q] = "crashed"
      <3>1. CASE Plain(p)
        BY <1>0, <3>1, PlainStep
      <3>2. CASE Restoring(p)
        BY <3>2, NetAssumption
           DEF Restoring, Restore, RestoreBridges, RestoreWrite, RestoreClear, netVars
      <3>3. CASE Making(p)
        BY <1>0, <3>3 DEF Making, NetRecord, NetBridge, NetAddress, FwdRead, FwdMark, FwdMarkWrite,
           FwdFlip, NetFirewall, netVars
      <3> QED
        BY <1>1, <3>1, <3>2, <3>3
    <2> QED
      BY <2>1, <2>2 DEF ReturnInv, CutCrashed, NobodyCrashed
  <1>2. CASE Handling \/ UNCHANGED vars
    BY <1>2, HandlingStep DEF vars, ReturnInv, CutCrashed, NobodyCrashed
  <1> QED
    BY <1>1, <1>2, NextSplit

\* All of it holds together when no call fails.
LEMMA ReturnInvCorrect == OnlyCrash /\ Spec => [](NetInv /\ CoverInv /\ ReturnInv)
  <1>1. Init => Written /\ ReturnInv
    BY NetAssumption DEF Init, Written, ReturnInv, RecordOwned, RestoreLast, EndedClean, FwdOwed,
       CutCrashed, LinksOf,
       HavePc, HoldPc, RestorePc, Undone
  <1>2. CASE OnlyCrash
    <2>1. NoneDuringRestore /\ Covering
      BY <1>2 DEF OnlyCrash, NoneDuringRestore, Covering
    <2>2. NetInv /\ FwdInv /\ Written /\ [Next]_vars => Written'
      BY WrittenStep
    <2>3. NetInv /\ FwdInv /\ Written /\ CoverInv /\ ReturnInv /\ [Next]_vars => ReturnInv'
      BY <1>2, OwnedStep, OwedStep, CutStep DEF ReturnInv
    <2>4. Spec => []Written
      BY <1>1, <2>1, <2>2, FwdInvCorrect, PTL DEF Spec
    <2> QED
      BY <1>1, <2>1, <2>3, <2>4, FwdInvCorrect, CoverInvCorrect, PTL DEF Spec
  <1> QED
    BY <1>2

\* When every process has left and none crashed, the host is as it was: no record,
\* bridge, table or tap, and forwarding down again, by whichever Close came last.
THEOREM HostRestoredCorrect == OnlyCrash /\ Spec => []HostRestored
  <1>1. NetInv /\ CoverInv /\ ReturnInv => HostRestored
    <2> SUFFICES ASSUME NetInv, CoverInv, ReturnInv, \A p \in Proc : pc[p] \in {"new", "ended"}
                 PROVE  fwd = "0" /\ recorded = {} /\ bridges = {} /\ tables = {} /\ links = {}
      BY DEF HostRestored
    <2>1. recorded = {}
      BY DEF ReturnInv, RecordOwned, HavePc, HoldPc, NetInv, TypeOK
    <2>2. bridges = {} /\ tables = {} /\ links = {}
      BY <2>1 DEF NetInv, NetworkRecorded, CoverInv, RecordCovers
    <2>3. fwd = "0"
      BY <2>1 DEF ReturnInv, FwdOwed, NobodyCrashed, NetInv, TypeOK
    <2> QED
      BY <2>1, <2>2, <2>3
  <1> QED
    BY <1>1, ReturnInvCorrect, PTL

=============================================================================
