---------------------------- MODULE HolderProofs ----------------------------
(* Proofs about Holder, for all names, requests and client behaviours.      *)
EXTENDS Holder, FiniteSetTheorems, TLAPS

\* Groups of variables are expanded everywhere.
USE DEF registry, host, Obj

\* The locals of a handler are set before it uses them: bootMember and
\* stopMember return early when the member is not found.
GoodBoot ==
    {r \in BootRec :
       /\ r.pc \notin {"idle", "replied"} => r.name \in Name
       /\ r.pc \in {"check", "create", "started", "reap", "markError", "dec"} => r.obj \in Obj}
GoodStop ==
    {r \in StopRec :
       /\ r.pc \notin {"idle", "replied"} => r.name \in Name
       /\ r.pc \in {"read", "halt", "mark", "dec", "retire", "unregister"} => r.obj \in Obj}
GoodMain ==
    {r \in MainRec :
       r.pc \in {"halt", "retire", "unregister"} => r.name \in Name /\ r.obj \in Obj}

Typed ==
    /\ members \in [Name -> Obj \cup {None}]
    /\ mem \in [Obj -> MemRec]
    /\ running \in Int
    /\ done \in BOOLEAN
    /\ network \in NetReq \cup {None}
    /\ reserved \subseteq Name
    /\ nets \subseteq NetReq
    /\ live \subseteq BootReq
    /\ sock \in [Name -> Obj \cup {None}]
    /\ pidfile \subseteq Name
    /\ netPc \in [NetReq -> NetPc]
    /\ boot \in [BootReq -> GoodBoot]
    /\ stop \in [StopReq -> GoodStop]
    /\ main \in GoodMain

\* Typed is a strengthening of TypeOK.
LEMMA TypedTypeOK == Typed => TypeOK
  <1>1. GoodBoot \subseteq BootRec /\ GoodStop \subseteq StopRec /\ GoodMain \subseteq MainRec
    BY DEF GoodBoot, GoodStop, GoodMain
  <1> QED
    BY <1>1 DEF Typed, TypeOK

\* Typed holds initially.
LEMMA InitTyped == Init => Typed
  <1> SUFFICES ASSUME Init PROVE Typed
    OBVIOUS
  <1>1. running \in Int
    BY HolderAssumption, FS_Subset, FS_CardinalityType DEF Init
  <1>2. mem \in [Obj -> MemRec]
    BY HolderAssumption DEF Init, MemRec, MemberState, RetireState
  <1>3. boot \in [BootReq -> GoodBoot]
    BY DEF Init, NoBoot, GoodBoot, BootRec, BootPc
  <1>4. stop \in [StopReq -> GoodStop]
    BY DEF Init, NoStop, GoodStop, StopRec, StopPc
  <1>5. main \in GoodMain
    BY DEF Init, GoodMain, MainRec, MainPc
  <1>6. /\ members \in [Name -> Obj \cup {None}]
        /\ sock \in [Name -> Obj \cup {None}]
        /\ netPc \in [NetReq -> NetPc]
        /\ done \in BOOLEAN /\ network \in NetReq \cup {None}
        /\ reserved \subseteq Name /\ pidfile \subseteq Name
        /\ nets \subseteq NetReq /\ live \subseteq BootReq
    BY HolderAssumption DEF Init, NetPc
  <1> QED
    BY <1>1, <1>2, <1>3, <1>4, <1>5, <1>6 DEF Typed

\* What a handler's move to its next program point does to its record.
LEMMA BootSetTyped ==
    ASSUME boot \in [BootReq -> GoodBoot], NEW b \in BootReq, NEW to \in BootPc,
           NEW o \in Obj \cup {None}, BootSet(b, to, o),
           boot[b].pc \notin {"idle", "replied"},
           to \in {"check", "create", "started", "reap", "markError", "dec"} => o \in Obj
    PROVE  boot' \in [BootReq -> GoodBoot]
  <1> DEFINE r == [pc |-> to, name |-> boot[b].name, obj |-> o]
  <1>1. r \in GoodBoot
    BY DEF GoodBoot, BootRec
  <1>2. boot' = [boot EXCEPT ![b] = r]
    BY DEF BootSet
  <1> HIDE DEF r
  <1> QED
    BY <1>1, <1>2

LEMMA BootGotoTyped ==
    ASSUME boot \in [BootReq -> GoodBoot], NEW b \in BootReq, NEW to \in BootPc,
           BootGoto(b, to), boot[b].pc \notin {"idle", "replied"},
           to \in {"check", "create", "started", "reap", "markError", "dec"}
             => boot[b].pc \in {"check", "create", "started", "reap", "markError", "dec"}
    PROVE  boot' \in [BootReq -> GoodBoot]
  <1> DEFINE o == IF to = "replied" THEN None ELSE boot[b].obj
  <1>1. o \in Obj \cup {None}
    BY DEF GoodBoot, BootRec
  <1>2. to \in {"check", "create", "started", "reap", "markError", "dec"} => o \in Obj
    BY DEF GoodBoot, BootRec
  <1>3. BootSet(b, to, o)
    BY DEF BootGoto
  <1> HIDE DEF o
  <1> QED
    BY <1>1, <1>2, <1>3, BootSetTyped

LEMMA StopSetTyped ==
    ASSUME stop \in [StopReq -> GoodStop], NEW s \in StopReq, NEW to \in StopPc,
           NEW o \in Obj \cup {None}, NEW v \in BootReq \cup {None}, StopSet(s, to, o, v),
           stop[s].pc \notin {"idle", "replied"},
           to \in {"read", "halt", "mark", "dec", "retire", "unregister"} => o \in Obj
    PROVE  stop' \in [StopReq -> GoodStop]
  <1> DEFINE r == [pc |-> to, name |-> stop[s].name, conn |-> stop[s].conn, obj |-> o, vm |-> v]
  <1>1. r \in GoodStop
    BY DEF GoodStop, StopRec
  <1>2. stop' = [stop EXCEPT ![s] = r]
    BY DEF StopSet
  <1> HIDE DEF r
  <1> QED
    BY <1>1, <1>2

LEMMA StopGotoTyped ==
    ASSUME stop \in [StopReq -> GoodStop], NEW s \in StopReq, NEW to \in StopPc,
           StopGoto(s, to),
           stop[s].pc \in {"read", "halt", "mark", "dec", "retire", "unregister"}
    PROVE  stop' \in [StopReq -> GoodStop]
  <1>1. stop[s].obj \in Obj /\ stop[s].vm \in BootReq \cup {None}
    BY DEF GoodStop, StopRec
  <1>2. StopSet(s, to, stop[s].obj, stop[s].vm)
    BY DEF StopGoto
  <1> QED
    BY <1>1, <1>2, StopSetTyped

LEMMA StopEndTyped ==
    ASSUME stop \in [StopReq -> GoodStop], NEW s \in StopReq, StopEnd(s)
    PROVE  stop' \in [StopReq -> GoodStop]
  BY DEF StopEnd, GoodStop, StopRec, StopPc

LEMMA MainGotoTyped ==
    ASSUME main \in GoodMain, NEW to \in MainPc, MainGoto(to),
           to \in {"halt", "retire", "unregister"} => main.pc \in {"halt", "retire", "unregister"}
    PROVE  main' \in GoodMain
  BY DEF MainGoto, GoodMain, MainRec

LEMMA MainLoopTyped == ASSUME main \in GoodMain, MainLoop PROVE main' \in GoodMain
  BY DEF MainLoop, GoodMain, MainRec, MainPc

\* retire keeps the types of the registry and of the files.
LEMMA RetireTyped ==
    ASSUME Typed, NEW n \in Name, NEW o \in Obj
    PROVE  /\ RetireFiles(n, o) => /\ mem' \in [Obj -> MemRec]
                                   /\ sock' \in [Name -> Obj \cup {None}]
                                   /\ pidfile' \subseteq Name
           /\ RetireEntry(n, o) => /\ mem' \in [Obj -> MemRec]
                                   /\ members' \in [Name -> Obj \cup {None}]
  <1>1. [mem EXCEPT ![o].retired = "unlinked"] \in [Obj -> MemRec]
    BY DEF Typed, MemRec, RetireState
  <1>2. [mem EXCEPT ![o].retired = "yes"] \in [Obj -> MemRec]
    BY DEF Typed, MemRec, RetireState
  <1> QED
    BY <1>1, <1>2 DEF Typed, RetireFiles, RetireEntry

\* vm.Stop starts no VM.
LEMMA StopShrinks == ASSUME NEW v PROVE \A S \in AfterStop(v) : S \subseteq live
  BY DEF AfterStop

\* createNetwork and reserve preserve Typed.
LEMMA NetTyped ==
    ASSUME Typed, NEW c \in NetReq, NEW n \in Name,
           NetCheck(c) \/ NetCreate(c) \/ NetInstall(c) \/ Reserve(n)
    PROVE  Typed'
  <1>1. CASE NetCheck(c)
    BY <1>1 DEF NetCheck, NetPc, Typed
  <1>2. CASE NetCreate(c)
    BY <1>2 DEF NetCreate, NetPc, Typed
  <1>3. CASE NetInstall(c)
    BY <1>3 DEF NetInstall, NetPc, Typed
  <1>4. CASE Reserve(n)
    BY <1>4 DEF Reserve, Typed
  <1> QED
    BY <1>1, <1>2, <1>3, <1>4

\* So does every step of bootMember.
LEMMA BootTyped ==
    ASSUME Typed, NEW b \in BootReq,
           BootWork(b) \/ \E n \in Name : BootBegin(b, n)
    PROVE  Typed'
  <1>1. CASE BootLookup(b)
    <2>1. \E to \in {"register", "find"} : BootGoto(b, to)
      BY <1>1 DEF BootLookup
    <2>2. boot' \in [BootReq -> GoodBoot]
      BY <1>1, <2>1, BootGotoTyped DEF BootLookup, BootStep, BootPc, Typed
    <2> QED
      BY <1>1, <2>1, <2>2 DEF BootLookup, Typed
  <1>2. CASE BootRegisterFiles(b)
    <2>1. \E to \in {"insert", "replied"} : BootGoto(b, to)
      BY <1>2 DEF BootRegisterFiles
    <2>2. boot' \in [BootReq -> GoodBoot]
      BY <1>2, <2>1, BootGotoTyped DEF BootRegisterFiles, BootStep, BootPc, Typed
    <2>3. sock' \in [Name -> Obj \cup {None}] /\ pidfile' \subseteq Name
      BY <1>2 DEF BootRegisterFiles, BootStep, GoodBoot, Typed
    <2> QED
      BY <1>2, <2>1, <2>2, <2>3 DEF BootRegisterFiles, Typed
  <1>3. CASE BootRegisterEntry(b)
    <2>1. \E to \in {"find"} : BootGoto(b, to)
      BY <1>3 DEF BootRegisterEntry
    <2>2. boot' \in [BootReq -> GoodBoot]
      BY <1>3, <2>1, BootGotoTyped DEF BootRegisterEntry, BootStep, BootPc, Typed
    <2>3. mem' \in [Obj -> MemRec]
      BY <1>3 DEF BootRegisterEntry, MemRec, MemberState, Typed
    <2>4. members' \in [Name -> Obj \cup {None}]
      BY <1>3 DEF BootRegisterEntry, Typed
    <2> QED
      BY <1>3, <2>1, <2>2, <2>3, <2>4 DEF BootRegisterEntry, Typed
  <1>4. CASE BootFind(b)
    <2>1. boot[b].name \in Name /\ boot[b].pc = "find"
      BY <1>4 DEF BootFind, BootStep, GoodBoot, Typed
    <2>2. members[boot[b].name] \in Obj \cup {None}
      BY <1>4, <2>1 DEF Typed
    <2>3. boot' \in [BootReq -> GoodBoot]
      BY <1>4, <2>1, <2>2, BootSetTyped DEF BootFind, BootPc, Typed
    <2> QED
      BY <1>4, <2>1, <2>2, <2>3 DEF BootFind, Typed
  <1>5. CASE BootCheck(b)
    <2>1. \E to \in {"replied", "create"} : BootGoto(b, to)
      BY <1>5 DEF BootCheck
    <2>2. boot' \in [BootReq -> GoodBoot]
      BY <1>5, <2>1, BootGotoTyped DEF BootCheck, BootStep, BootPc, Typed
    <2> QED
      BY <1>5, <2>1, <2>2 DEF BootCheck, Typed
  <1>6. CASE BootCreate(b)
    <2>1. \E to \in {"markError", "started"} : BootGoto(b, to)
      BY <1>6 DEF BootCreate
    <2>2. boot' \in [BootReq -> GoodBoot]
      BY <1>6, <2>1, BootGotoTyped DEF BootCreate, BootStep, BootPc, Typed
    <2> QED
      BY <1>6, <2>1, <2>2 DEF BootCreate, Typed
  <1>7. CASE BootFail(b)
    <2>1. \E to \in {"markError"} : BootGoto(b, to)
      BY <1>7 DEF BootFail
    <2>2. boot' \in [BootReq -> GoodBoot]
      BY <1>7, <2>1, BootGotoTyped DEF BootFail, BootStep, BootPc, Typed
    <2> QED
      BY <1>7, <2>1, <2>2, StopShrinks DEF BootFail, Typed
  <1>8. CASE MarkRunning(b)
    <2>1. \E to \in {"reap", "replied"} : BootGoto(b, to)
      BY <1>8 DEF MarkRunning
    <2>2. boot' \in [BootReq -> GoodBoot]
      BY <1>8, <2>1, BootGotoTyped DEF MarkRunning, BootStep, BootPc, Typed
    <2>3. mem' \in [Obj -> MemRec]
      BY <1>8 DEF MarkRunning, BootStep, GoodBoot, BootRec, MemRec, MemberState, Typed
    <2> QED
      BY <1>8, <2>1, <2>2, <2>3 DEF MarkRunning, Typed
  <1>9. CASE BootReap(b)
    <2>1. \E to \in {"replied"} : BootGoto(b, to)
      BY <1>9 DEF BootReap
    <2>2. boot' \in [BootReq -> GoodBoot]
      BY <1>9, <2>1, BootGotoTyped DEF BootReap, BootStep, BootPc, Typed
    <2> QED
      BY <1>9, <2>1, <2>2, StopShrinks DEF BootReap, Typed
  <1>10. CASE MarkError(b)
    <2>1. \E to \in {"dec", "replied"} : BootGoto(b, to)
      BY <1>10 DEF MarkError
    <2>2. boot' \in [BootReq -> GoodBoot]
      BY <1>10, <2>1, BootGotoTyped DEF MarkError, BootStep, BootPc, Typed
    <2>3. mem' \in [Obj -> MemRec]
      BY <1>10 DEF MarkError, MemRec, MemberState, Typed
    <2> QED
      BY <1>10, <2>1, <2>2, <2>3 DEF MarkError, Typed
  <1>11. CASE BootDecRunning(b)
    <2>1. \E to \in {"replied"} : BootGoto(b, to)
      BY <1>11 DEF BootDecRunning
    <2>2. boot' \in [BootReq -> GoodBoot]
      BY <1>11, <2>1, BootGotoTyped DEF BootDecRunning, BootStep, BootPc, Typed
    <2> QED
      BY <1>11, <2>1, <2>2 DEF BootDecRunning, DecRunning, Typed
  <1>12. CASE \E n \in Name : BootBegin(b, n)
    <2>1. boot' \in [BootReq -> GoodBoot]
      BY <1>12 DEF BootBegin, GoodBoot, BootRec, BootPc, Typed
    <2> QED
      BY <1>12, <2>1 DEF BootBegin, Typed
  <1> QED
    BY <1>1, <1>2, <1>3, <1>4, <1>5, <1>6, <1>7, <1>8, <1>9, <1>10, <1>11, <1>12 DEF BootWork

\* So does every step of stopMember.
LEMMA StopTyped ==
    ASSUME Typed, NEW s \in StopReq,
           StopWork(s) \/ \E n \in Name : StopBegin(s, n)
    PROVE  Typed'
  <1>1. CASE StopLookup(s)
    <2>1. stop[s].name \in Name /\ stop[s].pc = "lookup"
      BY <1>1 DEF StopLookup, StopStep, GoodStop, Typed
    <2>2. members[stop[s].name] \in Obj \cup {None}
      BY <1>1, <2>1 DEF Typed
    <2>3. stop' \in [StopReq -> GoodStop]
      BY <1>1, <2>1, <2>2, StopSetTyped, StopEndTyped DEF StopLookup, StopPc, Typed
    <2> QED
      BY <1>1, <2>1, <2>2, <2>3 DEF StopLookup, Typed
  <1>2. CASE StopReadVM(s)
    <2>1. stop[s].obj \in Obj /\ stop[s].pc = "read"
      BY <1>2 DEF StopReadVM, StopStep, GoodStop, Typed
    <2>2. mem[stop[s].obj].vm \in BootReq \cup {None}
      BY <1>2, <2>1 DEF MemRec, Typed
    <2>3. stop' \in [StopReq -> GoodStop]
      BY <1>2, <2>1, <2>2, StopSetTyped DEF StopReadVM, StopPc, Typed
    <2> QED
      BY <1>2, <2>1, <2>2, <2>3 DEF StopReadVM, Typed
  <1>3. CASE StopVM(s)
    <2>1. \E to \in {"mark"} : StopGoto(s, to)
      BY <1>3 DEF StopVM
    <2>2. stop' \in [StopReq -> GoodStop]
      BY <1>3, <2>1, StopGotoTyped DEF StopVM, StopStep, StopPc, Typed
    <2> QED
      BY <1>3, <2>1, <2>2, StopShrinks DEF StopVM, Typed
  <1>4. CASE MarkStopped(s)
    <2>1. \E to \in {"dec", "retire"} : StopGoto(s, to)
      BY <1>4 DEF MarkStopped
    <2>2. stop' \in [StopReq -> GoodStop]
      BY <1>4, <2>1, StopGotoTyped DEF MarkStopped, StopStep, StopPc, Typed
    <2>3. mem' \in [Obj -> MemRec]
      BY <1>4 DEF MarkStopped, MemRec, MemberState, Typed
    <2> QED
      BY <1>4, <2>1, <2>2, <2>3 DEF MarkStopped, Typed
  <1>5. CASE StopDecRunning(s)
    <2>1. \E to \in {"retire"} : StopGoto(s, to)
      BY <1>5 DEF StopDecRunning
    <2>2. stop' \in [StopReq -> GoodStop]
      BY <1>5, <2>1, StopGotoTyped DEF StopDecRunning, StopStep, StopPc, Typed
    <2> QED
      BY <1>5, <2>1, <2>2 DEF StopDecRunning, DecRunning, Typed
  <1>6. CASE StopRetire(s)
    <2>1. StopGoto(s, "unregister") \/ StopEnd(s)
      BY <1>6 DEF StopRetire
    <2>2. stop' \in [StopReq -> GoodStop]
      BY <1>6, <2>1, StopGotoTyped, StopEndTyped DEF StopRetire, StopStep, StopPc, Typed
    <2>3. stop[s].name \in Name /\ stop[s].obj \in Obj
      BY <1>6 DEF StopRetire, StopStep, GoodStop, Typed
    <2>4. /\ mem' \in [Obj -> MemRec]
          /\ sock' \in [Name -> Obj \cup {None}]
          /\ pidfile' \subseteq Name
      BY <1>6, <2>3, RetireTyped DEF StopRetire, Typed
    <2> QED
      BY <1>6, <2>1, <2>2, <2>3, <2>4 DEF StopRetire, RetireFiles, Typed
  <1>7. CASE StopUnregister(s)
    <2>1. stop' \in [StopReq -> GoodStop]
      BY <1>7, StopEndTyped DEF StopUnregister, Typed
    <2>2. stop[s].name \in Name /\ stop[s].obj \in Obj
      BY <1>7 DEF StopUnregister, StopStep, GoodStop, Typed
    <2>3. /\ mem' \in [Obj -> MemRec]
          /\ members' \in [Name -> Obj \cup {None}]
      BY <1>7, <2>2, RetireTyped DEF StopUnregister, Typed
    <2> QED
      BY <1>7, <2>1, <2>2, <2>3 DEF StopUnregister, RetireEntry, Typed
  <1>8. CASE \E n \in Name : StopBegin(s, n)
    <2>1. stop' \in [StopReq -> GoodStop]
      BY <1>8 DEF StopBegin, GoodStop, StopRec, StopPc, Typed
    <2> QED
      BY <1>8, <2>1 DEF StopBegin, Typed
  <1> QED
    BY <1>1, <1>2, <1>3, <1>4, <1>5, <1>6, <1>7, <1>8 DEF StopWork

\* So does every step of the main goroutine.
LEMMA MainTyped ==
    ASSUME Typed, ShutDown \/ MainWork
    PROVE  Typed'
  <1>1. CASE ShutDown
    <2>1. main' \in GoodMain
      BY <1>1 DEF ShutDown, Answered, GoodMain, MainRec, MainPc, Typed
    <2> QED
      BY <1>1, <2>1 DEF ShutDown, Typed
  <1>2. CASE \E n \in Name : MainReadVM(n)
    <2>1. main' \in GoodMain
      BY <1>2 DEF MainReadVM, GoodMain, MainRec, MainPc, MemRec, Typed
    <2> QED
      BY <1>2, <2>1 DEF MainReadVM, Typed
  <1>3. CASE MainStopVM
    <2>1. main' \in GoodMain
      BY <1>3, MainGotoTyped DEF MainStopVM, MainStep, MainPc, Typed
    <2> QED
      BY <1>3, <2>1, StopShrinks DEF MainStopVM, Typed
  <1>4. CASE MainRetire
    <2>1. main' \in GoodMain
      BY <1>4, MainGotoTyped, MainLoopTyped DEF MainRetire, MainStep, MainPc, Typed
    <2>2. main.name \in Name /\ main.obj \in Obj
      BY <1>4 DEF MainRetire, MainStep, GoodMain, Typed
    <2>3. /\ mem' \in [Obj -> MemRec]
          /\ sock' \in [Name -> Obj \cup {None}]
          /\ pidfile' \subseteq Name
      BY <1>4, <2>2, RetireTyped DEF MainRetire, Typed
    <2> QED
      BY <1>4, <2>1, <2>2, <2>3 DEF MainRetire, RetireFiles, Typed
  <1>5. CASE MainUnregister
    <2>1. main' \in GoodMain
      BY <1>5, MainLoopTyped DEF MainUnregister, Typed
    <2>2. main.name \in Name /\ main.obj \in Obj
      BY <1>5 DEF MainUnregister, MainStep, GoodMain, Typed
    <2>3. /\ mem' \in [Obj -> MemRec]
          /\ members' \in [Name -> Obj \cup {None}]
      BY <1>5, <2>2, RetireTyped DEF MainUnregister, Typed
    <2> QED
      BY <1>5, <2>1, <2>2, <2>3 DEF MainUnregister, RetireEntry, Typed
  <1>6. CASE CloseNetwork
    <2>1. main' \in GoodMain
      BY <1>6, MainGotoTyped DEF CloseNetwork, MainPc, Typed
    <2> QED
      BY <1>6, <2>1 DEF CloseNetwork, Typed
  <1>7. CASE Exit
    <2>1. main' \in GoodMain
      BY <1>7, MainGotoTyped DEF Exit, MainPc, Typed
    <2>2. boot' \in [BootReq -> GoodBoot]
      BY <1>7 DEF Exit, NoBoot, GoodBoot, BootRec, BootPc
    <2>3. stop' \in [StopReq -> GoodStop]
      BY <1>7 DEF Exit, NoStop, GoodStop, StopRec, StopPc
    <2> QED
      BY <1>7, <2>1, <2>2, <2>3 DEF Exit, Typed
  <1> QED
    BY <1>1, <1>2, <1>3, <1>4, <1>5, <1>6, <1>7 DEF MainWork

\* One step keeps Typed.
LEMMA NextTyped == Typed /\ [Next]_vars => Typed'
  <1> SUFFICES ASSUME Typed, [Next]_vars PROVE Typed'
    OBVIOUS
  <1>1. CASE \E c \in NetReq : NetCheck(c) \/ NetCreate(c) \/ NetInstall(c)
    BY <1>1, NetTyped, HolderAssumption
  <1>2. CASE \E n \in Name : Reserve(n)
    BY <1>2 DEF Reserve, Typed
  <1>3. CASE \E b \in BootReq : BootWork(b) \/ \E n \in Name : BootBegin(b, n)
    BY <1>3, BootTyped
  <1>4. CASE \E s \in StopReq : StopWork(s) \/ \E n \in Name : StopBegin(s, n)
    BY <1>4, StopTyped
  <1>5. CASE ShutDown \/ MainWork
    BY <1>5, MainTyped
  <1>6. CASE UNCHANGED vars
    BY <1>6 DEF vars, Typed
  <1> QED
    BY <1>1, <1>2, <1>3, <1>4, <1>5, <1>6 DEF Next, Gone

\* Every variable of the holder keeps its type, whatever the clients do.
THEOREM TypeCorrect == Spec => []TypeOK
  <1>1. Spec => []Typed
    BY InitTyped, NextTyped, PTL DEF Spec
  <1> QED
    BY <1>1, TypedTypeOK, PTL

-----------------------------------------------------------------------------
(* The running counter.  It is exact when no client boots a name twice at   *)
(* once and none boots a member that has failed.                            *)

Single == "dupBoot" \notin Lapses
NoRetry == "retryError" \notin Lapses
Serial == Single /\ NoRetry

InFlight(b) == boot[b].pc \notin {"idle", "replied"}

\* The member object o was made for the name n.
MadeFor(o, n) == o = n \/ (o \in BootReq /\ boot[o].name = n)

\* Registered objects, and those a boot works on, belong to the right name.
Named ==
    /\ \A n \in Name : members[n] # None => MadeFor(members[n], n)
    /\ \A b \in BootReq : boot[b].obj # None => MadeFor(boot[b].obj, boot[b].name)

\* A name has one boot in flight.
OneBoot ==
    \A b, c \in BootReq :
        (InFlight(b) /\ InFlight(c) /\ boot[b].name = boot[c].name) => b = c

\* An object exists from its registration on.
Fresh ==
    /\ \A n \in Name : members[n] # None => mem[members[n]].state # "none"
    /\ \A b \in BootReq : boot[b].obj # None => mem[boot[b].obj].state # "none"
    /\ \A s \in StopReq : stop[s].obj # None => mem[stop[s].obj].state # "none"
    /\ \A b \in BootReq : boot[b].pc \in {"idle", "lookup", "register", "insert"}
                            => mem[b].state = "none"

\* A boot works on a member that has not failed, unless clients retry those:
\* markRunning revives nobody.
NotFailed ==
    NoRetry =>
      /\ \A b \in BootReq :
            (boot[b].pc \in {"lookup", "find"} /\ members[boot[b].name] # None)
              => mem[members[boot[b].name]].state # "error"
      /\ \A b \in BootReq :
            boot[b].pc \in {"check", "create", "started"}
              => mem[boot[b].obj].state # "error"

Books == Alive => Named /\ OneBoot /\ Fresh /\ NotFailed

\* Steps that start no boot and move none leave the books in order: a member
\* may leave the registry or be stopped, and a stop may look one up.
LEMMA SettleBooks ==
    ASSUME Typed, Typed', Books, Alive, UNCHANGED boot,
           \A n \in Name : members'[n] = members[n] \/ members'[n] = None,
           \A o \in Obj : \/ mem'[o].state = mem[o].state
                          \/ mem'[o].state = "stopped" /\ mem[o].state # "none",
           \A s \in StopReq : \/ stop'[s].obj = stop[s].obj
                              \/ stop'[s].obj = None
                              \/ \E n \in Name : stop'[s].obj = members[n]
    PROVE  Books'
  <1>1. \A n \in Name : members[n] # None => members[n] \in Obj
    BY DEF Typed
  <1>2. \A b \in BootReq : boot[b].obj # None => boot[b].obj \in Obj
    BY DEF Typed, GoodBoot, BootRec
  <1>3. \A s \in StopReq : stop[s].obj # None => stop[s].obj \in Obj
    BY DEF Typed, GoodStop, StopRec
  <1>4. \A b \in BootReq : InFlight(b) => boot[b].name \in Name
    BY DEF Typed, GoodBoot, InFlight
  <1>5. \A b \in BootReq : boot[b].pc \in {"check", "create", "started"} => boot[b].obj \in Obj
    BY DEF Typed, GoodBoot
  <1>6. Named'
    BY <1>1, <1>2 DEF Books, Named, MadeFor
  <1>7. OneBoot'
    BY DEF Books, OneBoot, InFlight
  <1>8. Fresh'
    BY <1>1, <1>2, <1>3 DEF Books, Fresh
  <1>9. NotFailed'
    BY <1>1, <1>4, <1>5 DEF Books, NotFailed, InFlight
  <1> QED
    BY <1>6, <1>7, <1>8, <1>9 DEF Books

LEMMA InitBooks == Init => Books
  BY HolderAssumption DEF Init, NoBoot, NoStop, Books, Named, MadeFor, OneBoot, InFlight, Fresh,
     NotFailed

LEMMA NetBooks ==
    ASSUME Typed, Typed', Books, NEW c \in NetReq, NEW n \in Name,
           NetCheck(c) \/ NetCreate(c) \/ NetInstall(c) \/ Reserve(n)
    PROVE  Books'
  <1>1. Alive /\ UNCHANGED <<members, mem, boot, stop>>
    BY DEF NetCheck, NetCreate, NetInstall, Reserve
  <1> QED
    BY <1>1, SettleBooks

\* retire changes no member's state.
LEMMA RetireKeepsState ==
    ASSUME Typed, NEW n \in Name, NEW o \in Obj, RetireFiles(n, o) \/ RetireEntry(n, o)
    PROVE  \A p \in Obj : mem'[p].state = mem[p].state
  <1>1. \E r \in RetireState : mem' = [mem EXCEPT ![o].retired = r]
    BY DEF RetireFiles, RetireEntry, RetireState
  <1> QED
    BY <1>1 DEF Typed, MemRec

LEMMA StopBooks ==
    ASSUME Typed, Typed', Books, NEW s \in StopReq,
           StopWork(s) \/ \E n \in Name : StopBegin(s, n)
    PROVE  Books'
  <1> USE DEF StopStep
  <1>1. Alive /\ UNCHANGED boot
    BY DEF StopWork, StopBegin, StopLookup, StopReadVM, StopVM, MarkStopped, StopDecRunning,
       StopRetire, StopUnregister
  <1>2. \A n \in Name : members'[n] = members[n] \/ members'[n] = None
    <2>1. UNCHANGED members \/ \E n \in Name : members' = [members EXCEPT ![n] = None]
      BY DEF StopWork, StopBegin, StopLookup, StopReadVM, StopVM, MarkStopped, StopDecRunning,
         StopRetire, StopUnregister, RetireFiles, RetireEntry, Typed, GoodStop
    <2> QED
      BY <2>1 DEF Typed
  <1>3. \A o \in Obj : \/ mem'[o].state = mem[o].state
                       \/ mem'[o].state = "stopped" /\ mem[o].state # "none"
    <2>1. CASE MarkStopped(s)
      <3>1. stop[s].obj \in Obj /\ mem[stop[s].obj].state # "none"
        BY <2>1, HolderAssumption DEF MarkStopped, Typed, GoodStop, Books, Fresh, Alive
      <3> QED
        BY <2>1, <3>1 DEF MarkStopped, Typed, MemRec
    <2>2. CASE StopRetire(s)
      BY <2>2, RetireKeepsState DEF StopRetire, Typed, GoodStop
    <2>4. CASE StopUnregister(s)
      BY <2>4, RetireKeepsState DEF StopUnregister, Typed, GoodStop
    <2>3. CASE UNCHANGED mem
      BY <2>3
    <2> QED
      BY <2>1, <2>2, <2>3, <2>4 DEF StopWork, StopBegin, StopLookup, StopReadVM, StopVM,
         StopDecRunning
  <1>4. \A r \in StopReq : \/ stop'[r].obj = stop[r].obj
                           \/ stop'[r].obj = None
                           \/ \E n \in Name : stop'[r].obj = members[n]
    <2>1. CASE \E n \in Name : StopBegin(s, n)
      BY <2>1 DEF StopBegin, Typed
    <2>2. CASE StopLookup(s)
      BY <2>2 DEF StopLookup, StopSet, StopEnd, Typed, GoodStop
    <2>3. CASE StopEnd(s)
      BY <2>3 DEF StopEnd, Typed
    <2>4. CASE \E to \in StopPc, v \in BootReq \cup {None} : StopSet(s, to, stop[s].obj, v)
      BY <2>4 DEF StopSet, Typed
    <2>5. StopReadVM(s) => StopSet(s, "halt", stop[s].obj, mem[stop[s].obj].vm)
      BY DEF StopReadVM
    <2>6. CASE StopReadVM(s)
      BY <2>5, <2>6 DEF StopSet, Typed
    <2>7. CASE \E to \in {"mark", "dec", "retire", "unregister"} : StopGoto(s, to)
      BY <2>7 DEF StopGoto, StopSet, Typed
    <2> QED
      BY <2>1, <2>2, <2>3, <2>6, <2>7 DEF StopWork, StopVM, MarkStopped, StopDecRunning,
         StopRetire, StopUnregister
  <1> QED
    BY <1>1, <1>2, <1>3, <1>4, SettleBooks

LEMMA MainBooks ==
    ASSUME Typed, Typed', Books, ShutDown \/ MainWork
    PROVE  Books'
  <1>1. CASE Exit
    BY <1>1 DEF Exit, MainGoto, Books, Alive, Typed, GoodMain, MainRec
  <1>2. CASE ~Exit
    <2>1. Alive /\ UNCHANGED <<boot, stop>>
      BY <1>2 DEF MainWork, ShutDown, MainReadVM, MainStopVM, MainRetire, MainUnregister,
         CloseNetwork, MainStep, Alive
    <2>2. \A n \in Name : members'[n] = members[n] \/ members'[n] = None
      BY <1>2 DEF MainWork, ShutDown, MainReadVM, MainStopVM, MainRetire, MainUnregister,
         CloseNetwork, RetireFiles, RetireEntry, Typed
    <2>3. \A o \in Obj : mem'[o].state = mem[o].state
      BY <1>2 DEF MainWork, ShutDown, MainReadVM, MainStopVM, MainRetire, MainUnregister,
         CloseNetwork, RetireFiles, RetireEntry, Typed, MemRec
    <2> QED
      BY <2>1, <2>2, <2>3, SettleBooks
  <1> QED
    BY <1>1, <1>2

\* What a move of one boot changes.
LEMMA BootMove ==
    ASSUME Typed, NEW b \in BootReq, NEW to \in BootPc, NEW o \in Obj \cup {None},
           BootSet(b, to, o)
    PROVE  /\ boot'[b].pc = to /\ boot'[b].name = boot[b].name /\ boot'[b].obj = o
           /\ \A c \in BootReq : c # b => boot'[c] = boot[c]
           /\ \A c \in BootReq : boot'[c].name = boot[c].name
  <1> DEFINE r == [pc |-> to, name |-> boot[b].name, obj |-> o]
  <1>1. boot' = [boot EXCEPT ![b] = r] /\ boot \in [BootReq -> GoodBoot]
    BY DEF BootSet, Typed
  <1>2. r.pc = to /\ r.name = boot[b].name /\ r.obj = o
    OBVIOUS
  <1> HIDE DEF r
  <1> QED
    BY <1>1, <1>2

LEMMA BootGotoMove ==
    ASSUME Typed, NEW b \in BootReq, NEW to \in BootPc, BootGoto(b, to)
    PROVE  \E o \in {boot[b].obj, None} \cap (Obj \cup {None}) :
              /\ BootSet(b, to, o)
              /\ to # "replied" => o = boot[b].obj
  <1>1. boot[b].obj \in Obj \cup {None}
    BY DEF Typed, GoodBoot, BootRec
  <1> QED
    BY <1>1 DEF BootGoto

\* A member object was made for one name only.
LEMMA MadeForOne ==
    ASSUME NEW o, NEW n \in Name, NEW m \in Name, MadeFor(o, n), MadeFor(o, m)
    PROVE  n = m
  BY HolderAssumption DEF MadeFor

\* A boot that only moves on, with an object it may work on, keeps the books.
LEMMA MoveBooks ==
    ASSUME Typed, Typed', Books, Alive, UNCHANGED <<members, mem, stop>>,
           NEW b \in BootReq, NEW to \in BootPc, NEW o \in Obj \cup {None},
           InFlight(b), BootSet(b, to, o), to # "idle",
           o # None => MadeFor(o, boot[b].name) /\ mem[o].state # "none",
           to \in {"lookup", "register", "insert"}
              => boot[b].pc \in {"lookup", "register", "insert"},
           to \in {"lookup", "find"}
              => boot[b].pc \in {"lookup", "find"} \/ members[boot[b].name] = None,
           NoRetry => (to \in {"check", "create", "started"} => mem[o].state # "error")
    PROVE  Books'
  <1>1. /\ boot'[b].pc = to /\ boot'[b].name = boot[b].name /\ boot'[b].obj = o
        /\ \A c \in BootReq : c # b => boot'[c] = boot[c]
        /\ \A c \in BootReq : boot'[c].name = boot[c].name
    BY BootMove
  <1>2. Named'
    BY <1>1 DEF Books, Named, MadeFor
  <1>3. OneBoot'
    BY <1>1 DEF Books, OneBoot, InFlight
  <1>4. Fresh'
    BY <1>1 DEF Books, Fresh
  <1>5. NotFailed'
    BY <1>1 DEF Books, NotFailed
  <1> QED
    BY <1>2, <1>3, <1>4, <1>5 DEF Books

\* The same for a boot that keeps its object, or ends.
LEMMA GotoBooks ==
    ASSUME Typed, Typed', Books, Alive, UNCHANGED <<members, mem, stop>>,
           NEW b \in BootReq, NEW to \in BootPc,
           InFlight(b), BootGoto(b, to), to # "idle",
           to \in {"lookup", "register", "insert"}
              => boot[b].pc \in {"lookup", "register", "insert"},
           to \in {"lookup", "find"}
              => boot[b].pc \in {"lookup", "find"} \/ members[boot[b].name] = None,
           to \in {"check", "create", "started"} => boot[b].pc \in {"check", "create", "started"}
    PROVE  Books'
  <1>1. PICK o \in {boot[b].obj, None} \cap (Obj \cup {None}) :
              /\ BootSet(b, to, o)
              /\ to # "replied" => o = boot[b].obj
    BY BootGotoMove
  <1>2. o # None => MadeFor(o, boot[b].name) /\ mem[o].state # "none"
    BY <1>1 DEF Books, Named, Fresh
  <1>3. NoRetry => (to \in {"check", "create", "started"} => mem[o].state # "error")
    BY <1>1 DEF Books, NotFailed
  <1>4. o \in Obj \cup {None}
    BY <1>1
  <1> QED
    BY <1>1, <1>2, <1>3, <1>4, MoveBooks

\* A boot that begins finds no other boot of its name and no failed member.
LEMMA BeginBooks ==
    ASSUME Single, Typed, Typed', Books, NEW b \in BootReq, NEW n \in Name, BootBegin(b, n)
    PROVE  Books'
  <1>1. Alive /\ boot[b].pc = "idle" /\ UNCHANGED <<members, mem, stop>>
    BY DEF BootBegin, BootStep
  <1>2. PICK to \in {"lookup", "replied"} :
            boot' = [boot EXCEPT ![b] = [pc |-> to, name |-> n, obj |-> None]]
    BY DEF BootBegin
  <1>3. /\ boot'[b].pc = to /\ boot'[b].name = n /\ boot'[b].obj = None
        /\ \A c \in BootReq : c # b => boot'[c] = boot[c]
    BY <1>2 DEF Typed
  <1>4. /\ \A c \in BootReq : InFlight(c) => boot[c].name # n
        /\ NoRetry => (members[n] # None => mem[members[n]].state # "error")
    BY DEF BootBegin, MayBoot, Allowed, Single, NoRetry, BootsOf, InFlight
  <1>5. mem[b].state = "none"
    BY <1>1 DEF Books, Fresh
  <1>6. /\ \A m \in Name : members[m] # b
        /\ \A c \in BootReq : boot[c].obj # b
    BY <1>1, <1>5, HolderAssumption DEF Books, Fresh
  <1>7. Named'
    BY <1>1, <1>3, <1>6 DEF Books, Named, MadeFor
  <1>8. OneBoot'
    BY <1>1, <1>3, <1>4 DEF Books, OneBoot, InFlight
  <1>9. Fresh'
    BY <1>1, <1>3, <1>5 DEF Books, Fresh
  <1>10. NotFailed'
    BY <1>1, <1>3, <1>4 DEF Books, NotFailed
  <1> QED
    BY <1>7, <1>8, <1>9, <1>10 DEF Books

\* register adds the boot's own, fresh object.
LEMMA RegisterBooks ==
    ASSUME Typed, Typed', Books, NEW b \in BootReq, BootRegisterEntry(b)
    PROVE  Books'
  <1> DEFINE n == boot[b].name
  <1>1. Alive /\ InFlight(b) /\ boot[b].pc = "insert" /\ n \in Name /\ UNCHANGED stop
    BY DEF BootRegisterEntry, BootStep, InFlight, Typed, GoodBoot
  <1>2. PICK o \in Obj \cup {None} : o = boot[b].obj /\ BootSet(b, "find", o)
    BY BootGotoMove DEF BootRegisterEntry, BootPc
  <1>3. /\ boot'[b].pc = "find" /\ boot'[b].name = n /\ boot'[b].obj = boot[b].obj
        /\ \A c \in BootReq : c # b => boot'[c] = boot[c]
        /\ \A c \in BootReq : boot'[c].name = boot[c].name
    BY <1>2, BootMove DEF BootPc
  <1>4. /\ members'[n] = b
        /\ \A m \in Name : m # n => members'[m] = members[m]
    BY <1>1 DEF BootRegisterEntry, Typed
  <1>5. /\ mem'[b].state = "starting"
        /\ \A p \in Obj : p # b => mem'[p] = mem[p]
    BY DEF BootRegisterEntry, Typed, MemRec
  <1>6. mem[b].state = "none"
    BY <1>1 DEF Books, Fresh
  <1>7. /\ \A m \in Name : members[m] # None => members[m] \in Obj /\ members[m] # b
        /\ \A c \in BootReq : boot[c].obj # None => boot[c].obj \in Obj /\ boot[c].obj # b
        /\ \A s \in StopReq : stop[s].obj # None => stop[s].obj \in Obj /\ stop[s].obj # b
    BY <1>1, <1>6 DEF Books, Fresh, Typed, GoodBoot, BootRec, GoodStop, StopRec
  <1>8. \A c \in BootReq : boot[c].pc \in {"check", "create", "started"} => boot[c].obj \in Obj
    BY DEF Typed, GoodBoot
  <1>9. \A c \in BootReq : InFlight(c) => boot[c].name \in Name
    BY DEF Typed, GoodBoot, InFlight
  <1>10. Named'
    BY <1>1, <1>3, <1>4 DEF Books, Named, MadeFor
  <1>11. OneBoot'
    BY <1>1, <1>3 DEF Books, OneBoot, InFlight
  <1>12. Fresh'
    BY <1>1, <1>3, <1>4, <1>5, <1>7 DEF Books, Fresh
  <1>13. NotFailed'
    <2>1. ASSUME NoRetry, NEW c \in BootReq, boot'[c].pc \in {"lookup", "find"},
                 members'[boot'[c].name] # None
          PROVE  mem'[members'[boot'[c].name]].state # "error"
      <3>1. CASE c = b
        BY <3>1, <1>3, <1>4, <1>5
      <3>2. CASE c # b
        <4>1. boot[c].pc \in {"lookup", "find"} /\ InFlight(c)
          BY <2>1, <3>2, <1>3 DEF InFlight
        <4>2. boot[c].name # n /\ boot[c].name \in Name
          BY <4>1, <3>2, <1>1, <1>9 DEF Books, OneBoot
        <4> QED
          BY <2>1, <4>1, <4>2, <3>2, <1>1, <1>3, <1>4, <1>5, <1>7 DEF Books, NotFailed
      <3> QED
        BY <3>1, <3>2
    <2>2. ASSUME NoRetry, NEW c \in BootReq, boot'[c].pc \in {"check", "create", "started"}
          PROVE  mem'[boot'[c].obj].state # "error"
      <3>1. c # b
        BY <2>2, <1>3
      <3> QED
        BY <2>2, <3>1, <1>1, <1>3, <1>5, <1>8 DEF Books, NotFailed
    <2> QED
      BY <2>1, <2>2 DEF NotFailed
  <1> QED
    BY <1>10, <1>11, <1>12, <1>13 DEF Books

\* markRunning and markError end a boot and set the state of its member.
LEMMA MarkBooks ==
    ASSUME Typed, Typed', Books, NEW b \in BootReq, MarkRunning(b) \/ MarkError(b)
    PROVE  Books'
  <1> DEFINE o == boot[b].obj
  <1>1. /\ Alive /\ InFlight(b) /\ o \in Obj /\ UNCHANGED <<members, stop>>
        /\ boot[b].name \in Name
    BY DEF MarkRunning, MarkError, BootStep, InFlight, Typed, GoodBoot
  <1>2. PICK to \in {"reap", "dec", "replied"} : BootGoto(b, to)
    BY DEF MarkRunning, MarkError
  <1>3. PICK p \in {o, None} : BootSet(b, to, p)
    BY <1>2, BootGotoMove DEF BootPc
  <1>4. /\ boot'[b].pc = to /\ boot'[b].name = boot[b].name /\ boot'[b].obj \in {o, None}
        /\ \A c \in BootReq : c # b => boot'[c] = boot[c]
        /\ \A c \in BootReq : boot'[c].name = boot[c].name
    BY <1>1, <1>3, BootMove DEF BootPc
  <1>5. o # None /\ mem[o].state # "none"
    BY <1>1, HolderAssumption DEF Books, Fresh
  <1>6. /\ mem'[o].state # "none"
        /\ \A q \in Obj : q # o => mem'[q] = mem[q]
    BY <1>1, <1>5 DEF MarkRunning, MarkError, Typed, MemRec
  <1>7. NoRetry /\ MarkRunning(b) => mem'[o].state # "error"
    BY <1>1 DEF MarkRunning, BootStep, Books, NotFailed, Typed
  <1>8. Named'
    BY <1>1, <1>4 DEF Books, Named, MadeFor
  <1>9. OneBoot'
    BY <1>1, <1>4 DEF Books, OneBoot, InFlight
  <1>10. Fresh'
    <2>1. /\ \A n \in Name : members[n] # None => members[n] \in Obj
          /\ \A c \in BootReq : boot[c].obj # None => boot[c].obj \in Obj
          /\ \A s \in StopReq : stop[s].obj # None => stop[s].obj \in Obj
      BY DEF Typed, GoodBoot, BootRec, GoodStop, StopRec
    <2> QED
      BY <1>1, <1>4, <1>5, <1>6, <2>1 DEF Books, Fresh
  <1>11. NotFailed'
    <2>1. ASSUME NoRetry, NEW c \in BootReq, boot'[c].pc \in {"lookup", "find"},
                 members'[boot'[c].name] # None
          PROVE  mem'[members'[boot'[c].name]].state # "error"
      <3>1. c # b /\ boot'[c] = boot[c] /\ InFlight(c) /\ boot[c].name \in Name
        BY <2>1, <1>4 DEF InFlight, Typed, GoodBoot
      <3>2. members[boot[c].name] # o
        <4>1. SUFFICES ASSUME members[boot[c].name] = o PROVE FALSE
          OBVIOUS
        <4>2. MadeFor(o, boot[c].name) /\ MadeFor(o, boot[b].name)
          BY <4>1, <3>1, <1>1, <1>5 DEF Books, Named
        <4>3. boot[c].name = boot[b].name
          BY <4>2, <3>1, <1>1, MadeForOne
        <4> QED
          BY <4>3, <3>1, <1>1 DEF Books, OneBoot
      <3>3. members[boot[c].name] \in Obj
        BY <2>1, <3>1, <1>1 DEF Typed
      <3> QED
        BY <2>1, <3>1, <3>2, <3>3, <1>1, <1>6 DEF Books, NotFailed
    <2>2. ASSUME NoRetry, NEW c \in BootReq, boot'[c].pc \in {"check", "create", "started"}
          PROVE  mem'[boot'[c].obj].state # "error"
      <3>1. /\ c # b /\ boot'[c] = boot[c] /\ InFlight(c)
            /\ boot[c].name \in Name /\ boot[c].obj \in Obj
        BY <2>2, <1>4 DEF InFlight, Typed, GoodBoot
      <3>2. boot[c].obj # o
        <4>1. SUFFICES ASSUME boot[c].obj = o PROVE FALSE
          OBVIOUS
        <4>2. MadeFor(o, boot[c].name) /\ MadeFor(o, boot[b].name)
          BY <4>1, <3>1, <1>1, <1>5 DEF Books, Named
        <4>3. boot[c].name = boot[b].name
          BY <4>2, <3>1, <1>1, MadeForOne
        <4> QED
          BY <4>3, <3>1, <1>1 DEF Books, OneBoot
      <3> QED
        BY <2>2, <3>1, <3>2, <1>1, <1>6 DEF Books, NotFailed
    <2> QED
      BY <2>1, <2>2 DEF NotFailed
  <1> QED
    BY <1>8, <1>9, <1>10, <1>11 DEF Books

LEMMA BootBooks ==
    ASSUME Single, Typed, Typed', Books, NEW b \in BootReq,
           BootWork(b) \/ \E n \in Name : BootBegin(b, n)
    PROVE  Books'
  <1>1. CASE BootLookup(b)
    <2>1. /\ Alive /\ InFlight(b) /\ boot[b].pc = "lookup" /\ UNCHANGED <<members, mem, stop>>
          /\ \E to \in {"register", "find"} : BootGoto(b, to)
      BY <1>1 DEF BootLookup, BootStep, InFlight
    <2> QED
      BY <2>1, GotoBooks DEF BootPc
  <1>2. CASE BootRegisterFiles(b)
    <2>1. /\ Alive /\ InFlight(b) /\ boot[b].pc = "register" /\ UNCHANGED <<members, mem, stop>>
          /\ \E to \in {"insert", "replied"} : BootGoto(b, to)
      BY <1>2 DEF BootRegisterFiles, BootStep, InFlight
    <2> QED
      BY <2>1, GotoBooks DEF BootPc
  <1>3. CASE BootRegisterEntry(b)
    BY <1>3, RegisterBooks
  <1>4. CASE BootFind(b)
    <2> DEFINE o == members[boot[b].name]
               to == IF o = None THEN "replied" ELSE "check"
    <2>1. /\ Alive /\ InFlight(b) /\ boot[b].pc = "find" /\ UNCHANGED <<members, mem, stop>>
          /\ boot[b].name \in Name /\ BootSet(b, to, o)
      BY <1>4 DEF BootFind, BootStep, InFlight, Typed, GoodBoot
    <2>2. o \in Obj \cup {None} /\ to \in BootPc /\ to \notin {"idle", "lookup", "register", "insert", "find"}
      BY <2>1 DEF Typed, BootPc
    <2>3. o # None => /\ MadeFor(o, boot[b].name) /\ mem[o].state # "none"
                      /\ NoRetry => mem[o].state # "error"
      BY <2>1 DEF Books, Named, Fresh, NotFailed
    <2>4. to \in {"check", "create", "started"} => o # None
      OBVIOUS
    <2> HIDE DEF o, to
    <2> QED
      BY <2>1, <2>2, <2>3, <2>4, MoveBooks
  <1>5. CASE BootCheck(b)
    <2>1. /\ Alive /\ InFlight(b) /\ boot[b].pc = "check" /\ UNCHANGED <<members, mem, stop>>
          /\ \E to \in {"replied", "create"} : BootGoto(b, to)
      BY <1>5 DEF BootCheck, BootStep, InFlight
    <2> QED
      BY <2>1, GotoBooks DEF BootPc
  <1>6. CASE BootCreate(b)
    <2>1. /\ Alive /\ InFlight(b) /\ boot[b].pc = "create" /\ UNCHANGED <<members, mem, stop>>
          /\ \E to \in {"markError", "started"} : BootGoto(b, to)
      BY <1>6 DEF BootCreate, BootStep, InFlight
    <2> QED
      BY <2>1, GotoBooks DEF BootPc
  <1>7. CASE BootFail(b) \/ BootReap(b) \/ BootDecRunning(b)
    <2>1. /\ Alive /\ InFlight(b) /\ UNCHANGED <<members, mem, stop>>
          /\ \E to \in {"markError", "replied"} : BootGoto(b, to)
      BY <1>7 DEF BootFail, BootReap, BootDecRunning, DecRunning, BootStep, InFlight
    <2> QED
      BY <2>1, GotoBooks DEF BootPc
  <1>8. CASE MarkRunning(b) \/ MarkError(b)
    BY <1>8, MarkBooks
  <1>9. CASE \E n \in Name : BootBegin(b, n)
    BY <1>9, BeginBooks
  <1> QED
    BY <1>1, <1>2, <1>3, <1>4, <1>5, <1>6, <1>7, <1>8, <1>9 DEF BootWork

LEMMA NextBooks == Single /\ Typed /\ Typed' /\ Books /\ [Next]_vars => Books'
  <1> SUFFICES ASSUME Single, Typed, Typed', Books, [Next]_vars PROVE Books'
    OBVIOUS
  <1>1. CASE \E c \in NetReq : NetCheck(c) \/ NetCreate(c) \/ NetInstall(c)
    BY <1>1, NetBooks, HolderAssumption
  <1>2. CASE \E n \in Name : Reserve(n)
    BY <1>2, SettleBooks DEF Reserve
  <1>3. CASE \E b \in BootReq : BootWork(b) \/ \E n \in Name : BootBegin(b, n)
    BY <1>3, BootBooks
  <1>4. CASE \E s \in StopReq : StopWork(s) \/ \E n \in Name : StopBegin(s, n)
    BY <1>4, StopBooks
  <1>5. CASE ShutDown \/ MainWork
    BY <1>5, MainBooks
  <1>6. CASE UNCHANGED vars
    <2>1. CASE Alive
      BY <1>6, <2>1, SettleBooks DEF vars
    <2>2. CASE ~Alive
      BY <1>6, <2>2 DEF vars, Books, Alive
    <2> QED
      BY <2>1, <2>2
  <1> QED
    BY <1>1, <1>2, <1>3, <1>4, <1>5, <1>6 DEF Next, Gone

-----------------------------------------------------------------------------
(* The three sets that CounterExact counts.                                 *)

ActiveObj == {o \in Obj : Active(o)}
BootDec == {b \in BootReq : boot[b].pc = "dec"}
StopDec == {s \in StopReq : stop[s].pc = "dec"}

LEMMA FiniteBooks ==
    /\ IsFiniteSet(ActiveObj) /\ Cardinality(ActiveObj) \in Nat
    /\ IsFiniteSet(BootDec) /\ Cardinality(BootDec) \in Nat
    /\ IsFiniteSet(StopDec) /\ Cardinality(StopDec) \in Nat
  <1>1. IsFiniteSet(Obj)
    BY HolderAssumption, FS_Union
  <1>2. ActiveObj \subseteq Obj /\ BootDec \subseteq BootReq /\ StopDec \subseteq StopReq
    BY DEF ActiveObj, BootDec, StopDec
  <1>3. IsFiniteSet(ActiveObj) /\ IsFiniteSet(BootDec) /\ IsFiniteSet(StopDec)
    BY <1>1, <1>2, HolderAssumption, FS_Subset
  <1> QED
    BY <1>3, FS_CardinalityType

LEMMA CounterBySets ==
    CounterExact <=> (Alive => running = Cardinality(ActiveObj) + Cardinality(BootDec)
                                         + Cardinality(StopDec))
  BY DEF CounterExact, ActiveObj, BootDec, StopDec

\* Adding or removing one element moves a cardinality by one.
LEMMA OneMore ==
    ASSUME NEW S, NEW x, IsFiniteSet(S), x \notin S
    PROVE  Cardinality(S \cup {x}) = Cardinality(S) + 1
  BY FS_AddElement

LEMMA OneLess ==
    ASSUME NEW S, NEW x, IsFiniteSet(S), x \in S
    PROVE  Cardinality(S \ {x}) = Cardinality(S) - 1
  BY FS_RemoveElement

\* Steps that leave the sets and the counter alone.
LEMMA SameCounter ==
    ASSUME CounterExact, Alive, UNCHANGED running,
           \A o \in Obj : Active(o)' <=> Active(o),
           \A b \in BootReq : boot'[b].pc = "dec" <=> boot[b].pc = "dec",
           \A s \in StopReq : stop'[s].pc = "dec" <=> stop[s].pc = "dec"
    PROVE  CounterExact'
  <1>1. ActiveObj' = ActiveObj
    BY DEF ActiveObj
  <1>2. BootDec' = BootDec
    BY DEF BootDec
  <1>3. StopDec' = StopDec
    BY DEF StopDec
  <1>4. running = Cardinality(ActiveObj) + Cardinality(BootDec) + Cardinality(StopDec)
    BY CounterBySets
  <1>5. running' = Cardinality(ActiveObj') + Cardinality(BootDec') + Cardinality(StopDec')
    BY <1>1, <1>2, <1>3, <1>4
  <1> QED
    BY <1>5 DEF CounterExact, ActiveObj, BootDec, StopDec

LEMMA BootCounter ==
    ASSUME NoRetry, Typed, Books, CounterExact, NEW b \in BootReq,
           BootWork(b) \/ \E n \in Name : BootBegin(b, n)
    PROVE  CounterExact'
  <1>1. Alive
    BY DEF BootWork, BootBegin, BootLookup, BootRegisterFiles, BootRegisterEntry, BootFind,
       BootCheck, BootCreate, BootFail, MarkRunning, BootReap, MarkError, BootDecRunning, BootStep
  <1>2. running = Cardinality(ActiveObj) + Cardinality(BootDec) + Cardinality(StopDec)
    BY <1>1, CounterBySets
  <1>3. boot[b].obj \in Obj \cup {None}
    BY DEF Typed, GoodBoot, BootRec
  <1>4. ASSUME NEW to \in BootPc, NEW o \in Obj \cup {None}, BootSet(b, to, o),
               to # "dec", boot[b].pc # "dec", UNCHANGED <<mem, running, stop>>
        PROVE  CounterExact'
    <2>1. \A c \in BootReq : boot'[c].pc = "dec" <=> boot[c].pc = "dec"
      BY <1>4, BootMove
    <2> QED
      BY <1>1, <1>4, <2>1, SameCounter DEF Active
  <1>5. ASSUME NEW to \in BootPc, BootGoto(b, to),
               to # "dec", boot[b].pc # "dec", UNCHANGED <<mem, running, stop>>
        PROVE  CounterExact'
    BY <1>3, <1>4, <1>5 DEF BootGoto
  <1>6. CASE BootRegisterEntry(b)
    <2>1. boot[b].pc = "insert" /\ running' = running + 1 /\ UNCHANGED stop
      BY <1>6 DEF BootRegisterEntry, BootStep
    <2>2. \A c \in BootReq : boot'[c].pc = "dec" <=> boot[c].pc = "dec"
      BY <1>3, <1>6, <2>1, BootMove DEF BootRegisterEntry, BootGoto, BootPc
    <2>3. ~Active(b)
      BY <1>1, <2>1 DEF Books, Fresh, Active
    <2>4. Active(b)' /\ \A o \in Obj : o # b => (Active(o)' <=> Active(o))
      BY <1>6 DEF BootRegisterEntry, Active, Typed, MemRec
    <2>5. ActiveObj' = ActiveObj \cup {b} /\ b \notin ActiveObj
      BY <2>3, <2>4 DEF ActiveObj
    <2>6. BootDec' = BootDec /\ StopDec' = StopDec
      BY <2>1, <2>2 DEF BootDec, StopDec
    <2>7. Cardinality(ActiveObj') = Cardinality(ActiveObj) + 1
      BY <2>5, OneMore, FiniteBooks
    <2>8. running' = Cardinality(ActiveObj') + Cardinality(BootDec') + Cardinality(StopDec')
      BY <1>2, <2>1, <2>6, <2>7, FiniteBooks
    <2> QED
      BY <2>8 DEF CounterExact, ActiveObj, BootDec, StopDec
  <1>7. CASE MarkRunning(b)
    <2>1. /\ boot[b].pc = "started" /\ boot[b].obj \in Obj
          /\ UNCHANGED <<running, stop>>
          /\ \E to \in {"reap", "replied"} : BootGoto(b, to)
      BY <1>7 DEF MarkRunning, BootStep, Typed, GoodBoot
    <2>2. \A c \in BootReq : boot'[c].pc = "dec" <=> boot[c].pc = "dec"
      BY <1>3, <2>1, BootMove DEF BootGoto, BootPc
    <2>3. mem[boot[b].obj].state \notin {"none", "error"}
      BY <1>1, <2>1, HolderAssumption DEF Books, Fresh, NotFailed
    <2>4. mem[boot[b].obj].state \in {"starting", "running", "stopped"}
      BY <2>1, <2>3 DEF Typed, MemRec, MemberState
    <2>5. \A o \in Obj : Active(o)' <=> Active(o)
      BY <1>7, <2>1, <2>4 DEF MarkRunning, Active, Typed
    <2> QED
      BY <1>1, <2>1, <2>2, <2>5, SameCounter
  <1>8. CASE MarkError(b)
    <2>1. boot[b].pc = "markError" /\ boot[b].obj \in Obj /\ UNCHANGED <<running, stop>>
      BY <1>8 DEF MarkError, BootStep, Typed, GoodBoot
    <2>7. PICK o \in Obj : o = boot[b].obj
      BY <2>1
    <2>2. ~Active(o)' /\ \A p \in Obj : p # o => (Active(p)' <=> Active(p))
      BY <1>8, <2>7 DEF MarkError, Active, Typed, MemRec
    <2>3. ActiveObj' = ActiveObj \ {o}
      BY <2>1, <2>2 DEF ActiveObj
    <2>4. b \notin BootDec /\ StopDec' = StopDec
      BY <2>1 DEF BootDec, StopDec
    <2>5. CASE Active(o)
      <3>1. BootGoto(b, "dec")
        BY <1>8, <2>7, <2>5 DEF MarkError
      <3>2. boot'[b].pc = "dec" /\ \A c \in BootReq : c # b => boot'[c] = boot[c]
        BY <1>3, <3>1, BootMove DEF BootGoto, BootPc
      <3>3. BootDec' = BootDec \cup {b}
        BY <3>2 DEF BootDec
      <3>4. Cardinality(BootDec') = Cardinality(BootDec) + 1
        BY <2>4, <3>3, OneMore, FiniteBooks
      <3>5. o \in ActiveObj
        BY <2>1, <2>5 DEF ActiveObj
      <3>6. Cardinality(ActiveObj') = Cardinality(ActiveObj) - 1
        BY <2>3, <3>5, OneLess, FiniteBooks
      <3>7. running' = Cardinality(ActiveObj') + Cardinality(BootDec') + Cardinality(StopDec')
        BY <1>2, <2>1, <2>4, <3>4, <3>6, FiniteBooks
      <3> QED
        BY <3>7 DEF CounterExact, ActiveObj, BootDec, StopDec
    <2>6. CASE ~Active(o)
      <3>1. BootGoto(b, "replied")
        BY <1>8, <2>7, <2>6 DEF MarkError
      <3>2. \A c \in BootReq : boot'[c].pc = "dec" <=> boot[c].pc = "dec"
        BY <1>3, <2>1, <3>1, BootMove DEF BootGoto, BootPc
      <3> QED
        BY <1>1, <2>1, <2>2, <2>6, <3>2, SameCounter
    <2> QED
      BY <2>5, <2>6
  <1>9. CASE BootDecRunning(b)
    <2>1. boot[b].pc = "dec" /\ running' = running - 1 /\ UNCHANGED <<mem, stop>>
      BY <1>9 DEF BootDecRunning, DecRunning, BootStep
    <2>2. boot'[b].pc = "replied" /\ \A c \in BootReq : c # b => boot'[c] = boot[c]
      BY <1>3, <1>9, BootMove DEF BootDecRunning, BootGoto, BootPc
    <2>3. BootDec' = BootDec \ {b} /\ b \in BootDec
      BY <2>1, <2>2 DEF BootDec
    <2>4. Cardinality(BootDec') = Cardinality(BootDec) - 1
      BY <2>3, OneLess, FiniteBooks
    <2>5. ActiveObj' = ActiveObj /\ StopDec' = StopDec
      BY <2>1 DEF ActiveObj, Active, StopDec
    <2>6. running' = Cardinality(ActiveObj') + Cardinality(BootDec') + Cardinality(StopDec')
      BY <1>2, <2>1, <2>4, <2>5, FiniteBooks
    <2> QED
      BY <2>6 DEF CounterExact, ActiveObj, BootDec, StopDec
  <1>10. CASE \E n \in Name : BootBegin(b, n)
    <2>1. boot[b].pc = "idle" /\ UNCHANGED <<mem, running, stop>>
      BY <1>10 DEF BootBegin, BootStep
    <2>2. \A c \in BootReq : boot'[c].pc = "dec" <=> boot[c].pc = "dec"
      BY <1>10, <2>1 DEF BootBegin, Typed
    <2> QED
      BY <1>1, <2>1, <2>2, SameCounter DEF Active
  <1>11. CASE BootFind(b)
    <2>1. /\ boot[b].pc = "find" /\ boot[b].name \in Name
          /\ UNCHANGED <<mem, running, stop>>
      BY <1>11 DEF BootFind, BootStep, Typed, GoodBoot
    <2>2. \E to \in {"replied", "check"}, o \in Obj \cup {None} : BootSet(b, to, o)
      BY <1>11, <2>1 DEF BootFind, Typed
    <2> QED
      BY <1>4, <2>1, <2>2 DEF BootPc
  <1>12. CASE \/ BootLookup(b) \/ BootRegisterFiles(b) \/ BootCheck(b) \/ BootCreate(b)
              \/ BootFail(b) \/ BootReap(b)
    <2>1. boot[b].pc # "dec" /\ UNCHANGED <<mem, running, stop>>
      BY <1>12 DEF BootLookup, BootRegisterFiles, BootCheck, BootCreate, BootFail, BootReap,
         BootStep
    <2>2. \E to \in {"register", "find", "insert", "replied", "create", "markError",
                     "started"} : BootGoto(b, to)
      BY <1>12 DEF BootLookup, BootRegisterFiles, BootCheck, BootCreate, BootFail, BootReap
    <2> QED
      BY <1>5, <2>1, <2>2 DEF BootPc
  <1> QED
    BY <1>6, <1>7, <1>8, <1>9, <1>10, <1>11, <1>12 DEF BootWork

\* What a move of one stop changes.
LEMMA StopMove ==
    ASSUME Typed, NEW s \in StopReq, NEW to, NEW o, NEW v, StopSet(s, to, o, v)
    PROVE  /\ stop'[s].pc = to
           /\ \A r \in StopReq : r # s => stop'[r] = stop[r]
  BY DEF StopSet, Typed

LEMMA StopCounter ==
    ASSUME Typed, CounterExact, NEW s \in StopReq,
           StopWork(s) \/ \E n \in Name : StopBegin(s, n)
    PROVE  CounterExact'
  <1>1. Alive
    BY DEF StopWork, StopBegin, StopLookup, StopReadVM, StopVM, MarkStopped, StopDecRunning,
       StopRetire, StopUnregister, StopStep
  <1>2. running = Cardinality(ActiveObj) + Cardinality(BootDec) + Cardinality(StopDec)
    BY <1>1, CounterBySets
  <1>3. CASE MarkStopped(s)
    <2>1. stop[s].pc = "mark" /\ stop[s].obj \in Obj /\ UNCHANGED <<running, boot>>
      BY <1>3 DEF MarkStopped, StopStep, Typed, GoodStop
    <2>7. PICK o \in Obj : o = stop[s].obj
      BY <2>1
    <2>2. ~Active(o)' /\ \A p \in Obj : p # o => (Active(p)' <=> Active(p))
      BY <1>3, <2>7 DEF MarkStopped, Active, Typed, MemRec
    <2>3. ActiveObj' = ActiveObj \ {o}
      BY <2>1, <2>2 DEF ActiveObj
    <2>4. s \notin StopDec /\ BootDec' = BootDec
      BY <2>1 DEF BootDec, StopDec
    <2>5. CASE Active(o)
      <3>1. StopSet(s, "dec", o, stop[s].vm)
        BY <1>3, <2>7, <2>5 DEF MarkStopped, StopGoto
      <3>2. stop'[s].pc = "dec" /\ \A r \in StopReq : r # s => stop'[r] = stop[r]
        BY <3>1, StopMove
      <3>3. StopDec' = StopDec \cup {s}
        BY <3>2 DEF StopDec
      <3>4. Cardinality(StopDec') = Cardinality(StopDec) + 1
        BY <2>4, <3>3, OneMore, FiniteBooks
      <3>5. o \in ActiveObj
        BY <2>1, <2>5 DEF ActiveObj
      <3>6. Cardinality(ActiveObj') = Cardinality(ActiveObj) - 1
        BY <2>3, <3>5, OneLess, FiniteBooks
      <3>7. running' = Cardinality(ActiveObj') + Cardinality(BootDec') + Cardinality(StopDec')
        BY <1>2, <2>1, <2>4, <3>4, <3>6, FiniteBooks
      <3> QED
        BY <3>7 DEF CounterExact, ActiveObj, BootDec, StopDec
    <2>6. CASE ~Active(o)
      <3>1. StopSet(s, "retire", o, stop[s].vm)
        BY <1>3, <2>7, <2>6 DEF MarkStopped, StopGoto
      <3>2. \A r \in StopReq : stop'[r].pc = "dec" <=> stop[r].pc = "dec"
        BY <2>1, <3>1, StopMove
      <3> QED
        BY <1>1, <2>1, <2>2, <2>6, <3>2, SameCounter
    <2> QED
      BY <2>5, <2>6
  <1>4. CASE StopDecRunning(s)
    <2>1. stop[s].pc = "dec" /\ running' = running - 1 /\ UNCHANGED <<mem, boot>>
      BY <1>4 DEF StopDecRunning, DecRunning, StopStep
    <2>2. stop'[s].pc = "retire" /\ \A r \in StopReq : r # s => stop'[r] = stop[r]
      BY <1>4, StopMove DEF StopDecRunning, StopGoto
    <2>3. StopDec' = StopDec \ {s} /\ s \in StopDec
      BY <2>1, <2>2 DEF StopDec
    <2>4. Cardinality(StopDec') = Cardinality(StopDec) - 1
      BY <2>3, OneLess, FiniteBooks
    <2>5. ActiveObj' = ActiveObj /\ BootDec' = BootDec
      BY <2>1 DEF ActiveObj, Active, BootDec
    <2>6. running' = Cardinality(ActiveObj') + Cardinality(BootDec') + Cardinality(StopDec')
      BY <1>2, <2>1, <2>4, <2>5, FiniteBooks
    <2> QED
      BY <2>6 DEF CounterExact, ActiveObj, BootDec, StopDec
  <1>5. CASE \/ StopLookup(s) \/ StopReadVM(s) \/ StopVM(s) \/ StopRetire(s)
             \/ StopUnregister(s) \/ \E n \in Name : StopBegin(s, n)
    <2>1. stop[s].pc # "dec" /\ UNCHANGED <<running, boot>>
      BY <1>5 DEF StopLookup, StopReadVM, StopVM, StopRetire, StopUnregister, StopBegin,
         StopStep, RetireFiles, RetireEntry
    <2>2. \A r \in StopReq : stop'[r].pc = "dec" <=> stop[r].pc = "dec"
      <3>1. CASE StopEnd(s) \/ \E n \in Name : StopBegin(s, n)
        BY <2>1, <3>1 DEF StopEnd, StopBegin, Typed
      <3>2. ASSUME NEW to \in {"read", "halt", "mark", "unregister"}, NEW o, NEW v,
                   StopSet(s, to, o, v)
            PROVE  \A r \in StopReq : stop'[r].pc = "dec" <=> stop[r].pc = "dec"
        BY <2>1, <3>2, StopMove
      <3> QED
        BY <1>5, <3>1, <3>2 DEF StopLookup, StopReadVM, StopVM, StopRetire, StopUnregister,
           StopGoto
    <2>3. \A o \in Obj : mem'[o].state = mem[o].state
      <3>1. CASE StopRetire(s) \/ StopUnregister(s)
        <4>1. stop[s].name \in Name /\ stop[s].obj \in Obj
          BY <3>1 DEF StopRetire, StopUnregister, StopStep, Typed, GoodStop
        <4> QED
          BY <3>1, <4>1, RetireKeepsState DEF StopRetire, StopUnregister
      <3>2. CASE UNCHANGED mem
        BY <3>2
      <3> QED
        BY <1>5, <3>1, <3>2 DEF StopLookup, StopReadVM, StopVM, StopBegin
    <2> QED
      BY <1>1, <2>1, <2>2, <2>3, SameCounter DEF Active
  <1> QED
    BY <1>3, <1>4, <1>5 DEF StopWork

LEMMA MainCounter ==
    ASSUME Typed, CounterExact, ShutDown \/ MainWork
    PROVE  CounterExact'
  <1>1. CASE Exit
    BY <1>1 DEF Exit, MainGoto, CounterExact, Alive, Typed, GoodMain, MainRec
  <1>2. CASE ~Exit
    <2>1. Alive /\ UNCHANGED <<boot, stop, running>>
      BY <1>2 DEF MainWork, ShutDown, MainReadVM, MainStopVM, MainRetire, MainUnregister,
         CloseNetwork, MainStep, Alive, RetireFiles, RetireEntry
    <2>2. \A o \in Obj : mem'[o].state = mem[o].state
      BY <1>2 DEF MainWork, ShutDown, MainReadVM, MainStopVM, MainRetire, MainUnregister,
         CloseNetwork, RetireFiles, RetireEntry, Typed, MemRec
    <2> QED
      BY <2>1, <2>2, SameCounter DEF Active
  <1> QED
    BY <1>1, <1>2

LEMMA NextCounter == NoRetry /\ Typed /\ Books /\ CounterExact /\ [Next]_vars => CounterExact'
  <1> SUFFICES ASSUME NoRetry, Typed, Books, CounterExact, [Next]_vars PROVE CounterExact'
    OBVIOUS
  <1>1. CASE \/ \E c \in NetReq : NetCheck(c) \/ NetCreate(c) \/ NetInstall(c)
             \/ \E n \in Name : Reserve(n)
    <2>1. Alive /\ UNCHANGED <<mem, running, boot, stop>>
      BY <1>1 DEF NetCheck, NetCreate, NetInstall, Reserve
    <2> QED
      BY <2>1, SameCounter DEF Active
  <1>2. CASE \E b \in BootReq : BootWork(b) \/ \E n \in Name : BootBegin(b, n)
    BY <1>2, BootCounter
  <1>3. CASE \E s \in StopReq : StopWork(s) \/ \E n \in Name : StopBegin(s, n)
    BY <1>3, StopCounter
  <1>4. CASE ShutDown \/ MainWork
    BY <1>4, MainCounter
  <1>5. CASE UNCHANGED vars
    BY <1>5 DEF vars, CounterExact, Alive, Active
  <1> QED
    BY <1>1, <1>2, <1>3, <1>4, <1>5 DEF Next, Gone

LEMMA InitCounter == Init => CounterExact
  <1> SUFFICES ASSUME Init PROVE CounterExact
    OBVIOUS
  <1>1. ActiveObj = SpawnName
    BY HolderAssumption DEF Init, ActiveObj, Active
  <1>2. BootDec = {} /\ StopDec = {}
    BY DEF Init, NoBoot, NoStop, BootDec, StopDec
  <1>3. Cardinality({}) = 0
    BY FS_EmptySet
  <1>4. Cardinality(SpawnName) \in Nat
    BY <1>1, FiniteBooks
  <1> QED
    BY <1>1, <1>2, <1>3, <1>4, CounterBySets DEF Init

\* The step that closes `done' takes the last pending decrement, so nothing
\* else is counted.
LEMMA DoneStep ==
    ASSUME Typed, CounterExact, [Next]_vars, ~done, done'
    PROVE  \A o \in Obj : ~Active(o)
  <1>1. \/ \E b \in BootReq : BootDecRunning(b)
        \/ \E s \in StopReq : StopDecRunning(s)
    BY DEF Next, BootWork, StopWork, MainWork, Gone, vars, NetCheck, NetCreate, NetInstall,
       Reserve, BootBegin, BootLookup, BootRegisterFiles, BootRegisterEntry, BootFind,
       BootCheck, BootCreate, BootFail, MarkRunning, BootReap, MarkError, StopBegin, StopLookup,
       StopReadVM, StopVM, MarkStopped, StopRetire, StopUnregister, ShutDown, MainReadVM,
       MainStopVM, MainRetire, MainUnregister, CloseNetwork, Exit, RetireFiles, RetireEntry
  <1>2. Alive /\ running = 1
    BY <1>1 DEF BootDecRunning, StopDecRunning, DecRunning, BootStep, StopStep
  <1>3. BootDec # {} \/ StopDec # {}
    BY <1>1 DEF BootDecRunning, StopDecRunning, BootStep, StopStep, BootDec, StopDec
  <1>4. Cardinality(BootDec) # 0 \/ Cardinality(StopDec) # 0
    BY <1>3, FiniteBooks, FS_EmptySet
  <1>5. Cardinality(ActiveObj) = 0
    BY <1>2, <1>4, FiniteBooks, CounterBySets
  <1>6. ActiveObj = {}
    BY <1>5, FiniteBooks, FS_EmptySet
  <1> QED
    BY <1>6 DEF ActiveObj

\* Without overlapping boots of one name and without a retry of a failed
\* member, h.running is exact however stops, shutdown and failures interleave.
THEOREM CounterCorrect == Serial /\ Spec => []CounterExact
  <1>1. Init => Typed /\ Books /\ CounterExact
    BY InitTyped, InitBooks, InitCounter
  <1>2. Serial /\ Typed /\ Books /\ CounterExact /\ [Next]_vars
          => (Typed /\ Books /\ CounterExact)'
    BY NextTyped, NextBooks, NextCounter DEF Serial
  <1>3. CASE Serial
    <2>1. Typed /\ Books /\ CounterExact /\ [Next]_vars => (Typed /\ Books /\ CounterExact)'
      BY <1>2, <1>3
    <2> QED
      BY <1>1, <2>1, PTL DEF Spec
  <1> QED
    BY <1>3

\* Under the same condition `done' is closed only when no member is up: the
\* process survives until the last one leaves.
THEOREM DoneCorrect == Serial /\ Spec => DoneOnlyWhenEmpty
  <1>1. Typed /\ CounterExact /\ [Next]_vars
          => [(~done /\ done') => \A o \in Obj : ~Active(o)]_vars
    BY DoneStep
  <1>2. CASE Serial
    <2>1. Spec => []CounterExact
      BY <1>2, CounterCorrect
    <2>2. Spec => []Typed
      BY InitTyped, NextTyped, PTL DEF Spec
    <2> QED
      BY <1>1, <2>1, <2>2, PTL DEF Spec, DoneOnlyWhenEmpty
  <1> QED
    BY <1>2

-----------------------------------------------------------------------------
(* createNetwork's double check.                                            *)

\* A network on the host has one owner, for all clients.
THEOREM NetworkCorrect == Spec => []NetworkOwned
  <1>1. Init => NetworkOwned
    BY DEF Init, NetworkOwned
  <1>2. Typed /\ NetworkOwned /\ [Next]_vars => NetworkOwned'
    <2> SUFFICES ASSUME Typed, NetworkOwned, [Next]_vars PROVE NetworkOwned'
      OBVIOUS
    <2>1. CASE \E c \in NetReq : NetCheck(c)
      BY <2>1 DEF NetCheck, NetworkOwned, Typed
    <2>2. CASE \E c \in NetReq : NetCreate(c)
      BY <2>2 DEF NetCreate, NetworkOwned, Typed
    <2>3. CASE \E c \in NetReq : NetInstall(c)
      BY <2>3, HolderAssumption DEF NetInstall, NetworkOwned, Typed
    <2>4. CASE CloseNetwork
      BY <2>4 DEF CloseNetwork, NetworkOwned
    <2>5. CASE UNCHANGED <<nets, network, netPc>>
      BY <2>5 DEF NetworkOwned
    <2> QED
      BY <2>1, <2>2, <2>3, <2>4, <2>5 DEF Next, BootWork, StopWork, MainWork, Gone, vars,
         Reserve, BootBegin, BootLookup, BootRegisterFiles, BootRegisterEntry, BootFind,
         BootCheck, BootCreate, BootFail, MarkRunning, BootReap, MarkError, BootDecRunning,
         StopBegin, StopLookup, StopReadVM, StopVM, MarkStopped, StopDecRunning, StopRetire,
         StopUnregister, ShutDown, MainReadVM, MainStopVM, MainRetire, MainUnregister, Exit,
         RetireFiles, RetireEntry
  <1>3. Spec => []Typed
    BY InitTyped, NextTyped, PTL DEF Spec
  <1> QED
    BY <1>1, <1>2, <1>3, PTL DEF Spec

-----------------------------------------------------------------------------
(* The socket and the pidfile of a registered member are its own, as long   *)
(* as no client boots a name twice at once.                                 *)

\* Program points at which stopMember holds a member object, and stopAll one.
Working == {"read", "halt", "mark", "dec", "retire", "unregister"}
Retiring == {"halt", "retire", "unregister"}

\* Whoever is to retire an object holds the registered one, until it is retired.
Claims ==
    /\ \A s \in StopReq : (stop[s].pc \in Working /\ mem[stop[s].obj].retired # "yes")
                             => members[stop[s].name] = stop[s].obj
    /\ \A n \in Name : (main.todo[n] # None /\ mem[main.todo[n]].retired # "yes")
                             => members[n] = main.todo[n]
    /\ (main.pc \in Retiring /\ mem[main.obj].retired # "yes") => members[main.name] = main.obj

\* retireOnce: one goroutine is between the files and the registry entry.
Unlinkers ==
    /\ \A s \in StopReq : stop[s].pc = "unregister" => mem[stop[s].obj].retired = "unlinked"
    /\ main.pc = "unregister" => mem[main.obj].retired = "unlinked"
    /\ \A r, s \in StopReq : (/\ stop[r].pc = "unregister" /\ stop[s].pc = "unregister"
                              /\ stop[r].obj = stop[s].obj) => r = s
    /\ \A s \in StopReq : ~(/\ stop[s].pc = "unregister" /\ main.pc = "unregister"
                            /\ stop[s].obj = main.obj)

\* register works on a name that nobody else registers meanwhile ...
Vacant ==
    \A b \in BootReq : boot[b].pc \in {"register", "insert"} => members[boot[b].name] = None

\* ... and whose files stay its own until the entry follows them.
Bound ==
    \A b \in BootReq : boot[b].pc = "insert" => /\ sock[boot[b].name] = b
                                                /\ boot[b].name \in pidfile

Served == SocketServesMember /\ (Alive => Claims /\ Unlinkers /\ Vacant /\ Bound)

LEMMA InitServed == Init => Served
  BY HolderAssumption DEF Init, NoBoot, NoStop, Served, SocketServesMember, Claims, Unlinkers,
     Vacant, Bound, Working, Retiring

\* What a handler holds is in the registry's domain.
LEMMA Handles ==
    ASSUME Typed
    PROVE  /\ \A s \in StopReq : stop[s].pc \in Working => stop[s].name \in Name /\ stop[s].obj \in Obj
           /\ \A n \in Name : main.todo[n] # None => main.todo[n] \in Obj
           /\ main.pc \in Retiring => main.name \in Name /\ main.obj \in Obj
           /\ \A n \in Name : members[n] # None => members[n] \in Obj
           /\ \A b \in BootReq : InFlight(b) => boot[b].name \in Name
  BY DEF Typed, GoodStop, GoodMain, MainRec, GoodBoot, Working, Retiring, InFlight

\* Steps that leave the registry, the files and the retiring alone: a boot may
\* find its name vacant, and a stop may find a registered member.
LEMMA FrameServed ==
    ASSUME Typed, Served, Alive, UNCHANGED <<members, sock, pidfile, main>>,
           \A o \in Obj : mem'[o].retired = mem[o].retired,
           \A b \in BootReq :
              \/ boot'[b].pc \notin {"register", "insert"}
              \/ boot'[b].pc = boot[b].pc /\ boot'[b].name = boot[b].name
              \/ boot'[b].pc = "register" /\ members[boot'[b].name] = None,
           \A s \in StopReq :
              \/ stop'[s].pc \notin Working
              \/ /\ stop[s].pc \in Working
                 /\ stop'[s].name = stop[s].name /\ stop'[s].obj = stop[s].obj
                 /\ stop'[s].pc = "unregister" => stop[s].pc = "unregister"
              \/ stop'[s].pc = "read" /\ stop'[s].obj = members[stop'[s].name]
    PROVE  Served'
  <1>1. SocketServesMember'
    BY Handles DEF Served, SocketServesMember
  <1>2. Claims'
    BY Handles DEF Served, Claims
  <1>3. Unlinkers'
    BY Handles DEF Served, Unlinkers, Working, Retiring
  <1>4. Vacant'
    BY DEF Served, Vacant
  <1>5. Bound'
    BY DEF Served, Bound
  <1> QED
    BY <1>1, <1>2, <1>3, <1>4, <1>5 DEF Served

LEMMA NetServed ==
    ASSUME Typed, Served, NEW c \in NetReq, NEW n \in Name,
           NetCheck(c) \/ NetCreate(c) \/ NetInstall(c) \/ Reserve(n)
    PROVE  Served'
  <1>1. Alive /\ UNCHANGED <<members, mem, sock, pidfile, boot, stop, main>>
    BY DEF NetCheck, NetCreate, NetInstall, Reserve
  <1> QED
    BY <1>1, FrameServed

\* markRunning and markError do not touch what retire has done.
LEMMA MarkKeepsRetired ==
    ASSUME Typed, NEW b \in BootReq, MarkRunning(b) \/ MarkError(b)
    PROVE  \A o \in Obj : mem'[o].retired = mem[o].retired
  <1> DEFINE o == boot[b].obj
  <1>1. o \in Obj
    BY DEF MarkRunning, MarkError, BootStep, Typed, GoodBoot
  <1>2. \/ UNCHANGED mem
        \/ mem' = [mem EXCEPT ![o] = [state |-> "running", vm |-> b, retired |-> mem[o].retired]]
        \/ mem' = [mem EXCEPT ![o].state = "error"]
    BY DEF MarkRunning, MarkError
  <1> HIDE DEF o
  <1> QED
    BY <1>1, <1>2 DEF Typed, MemRec

LEMMA BootServed ==
    ASSUME Single, Typed, Books, Served, NEW b \in BootReq,
           BootWork(b) \/ \E n \in Name : BootBegin(b, n)
    PROVE  Served'
  <1>1. CASE BootLookup(b)
    <2>1. /\ Alive /\ UNCHANGED <<members, mem, sock, pidfile, main, stop>>
          /\ boot[b].pc = "lookup"
      BY <1>1 DEF BootLookup, BootStep
    <2>2. \A c \in BootReq : \/ c # b /\ boot'[c] = boot[c]
                             \/ boot'[c].pc = "find"
                             \/ boot'[c].pc = "register" /\ members[boot'[c].name] = None
      BY <1>1, BootGotoMove, BootMove DEF BootLookup, BootPc
    <2> QED
      BY <2>1, <2>2, FrameServed
  <1>2. CASE BootRegisterFiles(b)
    <2>1. /\ Alive /\ UNCHANGED <<members, mem, main, stop>> /\ boot[b].pc = "register"
          /\ boot[b].name \in Name /\ InFlight(b)
      BY <1>2 DEF BootRegisterFiles, BootStep, InFlight, Typed, GoodBoot
    <2>2. /\ boot'[b].name = boot[b].name
          /\ \A c \in BootReq : c # b => boot'[c] = boot[c]
          /\ \/ /\ boot'[b].pc = "insert"
                /\ sock' = [sock EXCEPT ![boot[b].name] = b]
                /\ pidfile' = pidfile \cup {boot[b].name}
             \/ /\ boot'[b].pc = "replied"
                /\ sock' = [sock EXCEPT ![boot[b].name] = None]
                /\ UNCHANGED pidfile
      BY <1>2, BootGotoMove, BootMove DEF BootRegisterFiles, BootPc
    <2>3. members[boot[b].name] = None
      BY <2>1 DEF Served, Vacant
    <2>4. \A m \in Name : m # boot[b].name => /\ sock'[m] = sock[m]
                                              /\ m \in pidfile' <=> m \in pidfile
      BY <2>2 DEF Typed
    <2>5. SocketServesMember'
      BY <2>1, <2>3, <2>4 DEF Served, SocketServesMember
    <2>6. Claims' /\ Unlinkers'
      BY <2>1 DEF Served, Claims, Unlinkers
    <2>7. Vacant'
      BY <2>1, <2>2, <2>3 DEF Served, Vacant
    <2>8. Bound'
      <3>1. ASSUME NEW c \in BootReq, boot'[c].pc = "insert"
            PROVE  sock'[boot'[c].name] = c /\ boot'[c].name \in pidfile'
        <4>1. CASE c = b
          BY <3>1, <4>1, <2>1, <2>2 DEF Typed
        <4>2. CASE c # b
          <5>1. boot[c].pc = "insert" /\ InFlight(c)
            BY <3>1, <4>2, <2>2 DEF InFlight
          <5>2. boot[c].name \in Name /\ boot[c].name # boot[b].name
            BY <5>1, <4>2, <2>1, Handles DEF Books, OneBoot
          <5> QED
            BY <5>1, <5>2, <4>2, <2>1, <2>2, <2>4 DEF Served, Bound
        <4> QED
          BY <4>1, <4>2
      <3> QED
        BY <3>1 DEF Bound
    <2> QED
      BY <2>5, <2>6, <2>7, <2>8 DEF Served
  <1>3. CASE BootRegisterEntry(b)
    <2> DEFINE n == boot[b].name
    <2>1. /\ Alive /\ UNCHANGED <<sock, pidfile, main, stop>> /\ boot[b].pc = "insert"
          /\ n \in Name /\ InFlight(b)
      BY <1>3 DEF BootRegisterEntry, BootStep, InFlight, Typed, GoodBoot
    <2>2. /\ boot'[b].name = n /\ boot'[b].pc = "find"
          /\ \A c \in BootReq : c # b => boot'[c] = boot[c]
      BY <1>3, BootGotoMove, BootMove DEF BootRegisterEntry, BootPc
    <2>3. members[n] = None /\ sock[n] = b /\ n \in pidfile
      BY <2>1 DEF Served, Vacant, Bound
    <2>4. members'[n] = b /\ \A m \in Name : m # n => members'[m] = members[m]
      BY <1>3, <2>1 DEF BootRegisterEntry, Typed
    <2>5. \A o \in Obj : mem'[o].retired = mem[o].retired
      BY <1>3 DEF BootRegisterEntry, Typed, MemRec
    <2>6. SocketServesMember'
      BY <2>1, <2>3, <2>4, <2>5, Handles DEF Served, SocketServesMember
    <2>7. Claims'
      BY <2>1, <2>3, <2>4, <2>5, Handles, HolderAssumption DEF Served, Claims
    <2>8. Unlinkers'
      BY <2>1, <2>5, Handles DEF Served, Unlinkers, Working, Retiring
    <2>9. Vacant'
      <3>1. ASSUME NEW c \in BootReq, boot'[c].pc \in {"register", "insert"}
            PROVE  members'[boot'[c].name] = None
        <4>1. c # b /\ InFlight(c) /\ boot[c].pc \in {"register", "insert"} /\ boot'[c] = boot[c]
          BY <3>1, <2>2 DEF InFlight
        <4>2. boot[c].name \in Name /\ boot[c].name # n
          BY <4>1, <2>1, Handles DEF Books, OneBoot
        <4> QED
          BY <4>1, <4>2, <2>1, <2>4 DEF Served, Vacant
      <3> QED
        BY <3>1 DEF Vacant
    <2>10. Bound'
      BY <2>1, <2>2 DEF Served, Bound
    <2> QED
      BY <2>6, <2>7, <2>8, <2>9, <2>10 DEF Served
  <1>4. CASE BootFind(b)
    <2>1. /\ Alive /\ UNCHANGED <<members, mem, sock, pidfile, main, stop>>
          /\ boot[b].name \in Name
      BY <1>4 DEF BootFind, BootStep, Typed, GoodBoot
    <2>2. PICK to \in {"replied", "check"}, o \in Obj \cup {None} : BootSet(b, to, o)
      BY <1>4, <2>1 DEF BootFind, Typed
    <2>3. \A c \in BootReq : \/ c # b /\ boot'[c] = boot[c]
                             \/ boot'[c].pc \notin {"register", "insert"}
      BY <2>2, BootMove DEF BootPc
    <2> QED
      BY <2>1, <2>3, FrameServed
  <1>5. CASE \/ BootCheck(b) \/ BootCreate(b) \/ BootFail(b) \/ BootReap(b) \/ BootDecRunning(b)
             \/ MarkRunning(b) \/ MarkError(b)
    <2>1. /\ Alive /\ UNCHANGED <<members, sock, pidfile, main, stop>>
          /\ \E to \in {"replied", "create", "markError", "started", "reap", "dec"} : BootGoto(b, to)
      BY <1>5 DEF BootCheck, BootCreate, BootFail, BootReap, BootDecRunning, MarkRunning,
         MarkError, BootStep
    <2>2. \A o \in Obj : mem'[o].retired = mem[o].retired
      BY <1>5, MarkKeepsRetired DEF BootCheck, BootCreate, BootFail, BootReap, BootDecRunning
    <2>3. \A c \in BootReq : \/ c # b /\ boot'[c] = boot[c]
                             \/ boot'[c].pc \notin {"register", "insert"}
      BY <2>1, BootGotoMove, BootMove DEF BootPc
    <2> QED
      BY <2>1, <2>2, <2>3, FrameServed
  <1>6. CASE \E n \in Name : BootBegin(b, n)
    <2>1. Alive /\ UNCHANGED <<members, mem, sock, pidfile, main, stop>>
      BY <1>6 DEF BootBegin, BootStep
    <2>2. \A c \in BootReq : \/ c # b /\ boot'[c] = boot[c]
                             \/ boot'[c].pc \notin {"register", "insert"}
      BY <1>6 DEF BootBegin, Typed
    <2> QED
      BY <2>1, <2>2, FrameServed
  <1> QED
    BY <1>1, <1>2, <1>3, <1>4, <1>5, <1>6 DEF BootWork

\* What a move of one stop changes.
LEMMA StopEffect ==
    ASSUME Typed, NEW s \in StopReq, NEW to, NEW o, NEW v, StopSet(s, to, o, v)
    PROVE  /\ stop'[s].pc = to /\ stop'[s].name = stop[s].name
           /\ stop'[s].obj = o /\ stop'[s].vm = v
           /\ \A r \in StopReq : r # s => stop'[r] = stop[r]
  <1> DEFINE r == [pc |-> to, name |-> stop[s].name, conn |-> stop[s].conn, obj |-> o, vm |-> v]
  <1>1. stop' = [stop EXCEPT ![s] = r] /\ stop \in [StopReq -> GoodStop]
    BY DEF StopSet, Typed
  <1>2. r.pc = to /\ r.name = stop[s].name /\ r.obj = o /\ r.vm = v
    OBVIOUS
  <1> HIDE DEF r
  <1> QED
    BY <1>1, <1>2

LEMMA StopEndEffect ==
    ASSUME Typed, NEW s \in StopReq, StopEnd(s)
    PROVE  /\ stop'[s].pc = "replied"
           /\ \A r \in StopReq : r # s => stop'[r] = stop[r]
  BY DEF StopEnd, Typed

\* The first half of retire: the files go, the entry stays.
LEMMA FilesEffect ==
    ASSUME Typed, NEW n \in Name, NEW o \in Obj, RetireFiles(n, o)
    PROVE  /\ mem[o].retired = "no" /\ mem'[o].retired = "unlinked"
           /\ \A p \in Obj : p # o => mem'[p] = mem[p]
           /\ \A p \in Obj : mem'[p].state = mem[p].state /\ mem'[p].vm = mem[p].vm
           /\ sock'[n] = None /\ n \notin pidfile'
           /\ \A m \in Name : m # n => /\ sock'[m] = sock[m]
                                       /\ m \in pidfile' <=> m \in pidfile
           /\ UNCHANGED <<members, running, done, nets, live>>
  BY DEF RetireFiles, Typed, MemRec

\* The second half: the entry goes.
LEMMA EntryEffect ==
    ASSUME Typed, NEW n \in Name, NEW o \in Obj, RetireEntry(n, o)
    PROVE  /\ mem'[o].retired = "yes"
           /\ \A p \in Obj : p # o => mem'[p] = mem[p]
           /\ \A p \in Obj : mem'[p].state = mem[p].state /\ mem'[p].vm = mem[p].vm
           /\ members'[n] = None
           /\ \A m \in Name : m # n => members'[m] = members[m]
  BY DEF RetireEntry, Typed, MemRec

\* Removing the files of the registered member takes no other member's.
LEMMA FilesServed ==
    ASSUME Typed, Books, Served, Alive, UNCHANGED boot, NEW n \in Name, NEW o \in Obj,
           RetireFiles(n, o), members[n] = o
    PROVE  SocketServesMember' /\ Vacant' /\ Bound'
  <1>1. o # None
    BY HolderAssumption
  <1>2. \A m \in Name : members[m] = o => m = n
    BY <1>1, MadeForOne DEF Books, Named
  <1>3. SocketServesMember'
    BY <1>2, FilesEffect, Handles DEF Served, SocketServesMember
  <1>4. Vacant'
    BY FilesEffect DEF Served, Vacant
  <1>5. Bound'
    BY <1>1, FilesEffect, Handles DEF Served, Vacant, Bound, InFlight
  <1> QED
    BY <1>3, <1>4, <1>5

\* Removing its entry leaves the other names as they are.
LEMMA EntryServed ==
    ASSUME Typed, Served, Alive, UNCHANGED <<boot, sock, pidfile>>, NEW n \in Name, NEW o \in Obj,
           RetireEntry(n, o), members[n] = o
    PROVE  SocketServesMember' /\ Vacant' /\ Bound'
  <1>1. SocketServesMember'
    BY EntryEffect, Handles DEF Served, SocketServesMember
  <1>2. Vacant'
    BY EntryEffect, Handles DEF Served, Vacant, InFlight
  <1>3. Bound'
    BY DEF Served, Bound
  <1> QED
    BY <1>1, <1>2, <1>3

LEMMA StopServed ==
    ASSUME Typed, Books, Served, NEW s \in StopReq,
           StopWork(s) \/ \E n \in Name : StopBegin(s, n)
    PROVE  Served'
  <1> USE DEF StopStep
  <1>1. CASE StopLookup(s)
    <2>1. /\ Alive /\ UNCHANGED <<members, mem, sock, pidfile, main, boot>>
          /\ stop[s].name \in Name
      BY <1>1 DEF StopLookup, Typed, GoodStop
    <2>2. \A r \in StopReq : \/ r # s /\ stop'[r] = stop[r]
                             \/ stop'[r].pc = "replied"
                             \/ stop'[r].pc = "read" /\ stop'[r].obj = members[stop'[r].name]
      BY <1>1, StopEffect, StopEndEffect DEF StopLookup
    <2> QED
      BY <2>1, <2>2, FrameServed DEF Working
  <1>2. CASE StopReadVM(s) \/ StopVM(s) \/ MarkStopped(s) \/ StopDecRunning(s)
    <2>1. /\ Alive /\ UNCHANGED <<members, sock, pidfile, main, boot>>
          /\ stop[s].pc \in Working \ {"unregister"}
      BY <1>2 DEF StopReadVM, StopVM, MarkStopped, StopDecRunning, Working
    <2>2. \E to \in {"halt", "mark", "dec", "retire"} :
            \E v : StopSet(s, to, stop[s].obj, v)
      BY <1>2 DEF StopReadVM, StopVM, MarkStopped, StopDecRunning, StopGoto
    <2>3. \A o \in Obj : mem'[o].retired = mem[o].retired
      BY <1>2 DEF StopReadVM, StopVM, MarkStopped, StopDecRunning, Typed, MemRec
    <2>4. \A r \in StopReq : \/ r # s /\ stop'[r] = stop[r]
                             \/ /\ stop[r].pc \in Working
                                /\ stop'[r].name = stop[r].name /\ stop'[r].obj = stop[r].obj
                                /\ stop'[r].pc # "unregister"
      BY <2>1, <2>2, StopEffect
    <2> QED
      BY <2>1, <2>3, <2>4, FrameServed
  <1>3. CASE StopRetire(s) /\ StopEnd(s) /\ UNCHANGED <<registry, host>>
    <2>1. Alive /\ UNCHANGED <<members, mem, sock, pidfile, main, boot>>
      BY <1>3 DEF StopRetire
    <2> QED
      BY <1>3, <2>1, StopEndEffect, FrameServed DEF Working
  <1>4. CASE StopRetire(s) /\ RetireFiles(stop[s].name, stop[s].obj) /\ StopGoto(s, "unregister")
    <2> DEFINE n == stop[s].name
               o == stop[s].obj
    <2>1. /\ Alive /\ UNCHANGED <<main, boot>> /\ n \in Name /\ o \in Obj
          /\ stop[s].pc = "retire" /\ stop[s].pc \in Working
      BY <1>4 DEF StopRetire, Typed, GoodStop, Working
    <2>2. /\ stop'[s].pc = "unregister" /\ stop'[s].name = n /\ stop'[s].obj = o
          /\ \A r \in StopReq : r # s => stop'[r] = stop[r]
      BY <1>4, StopEffect DEF StopGoto
    <2>3. RetireFiles(n, o)
      BY <1>4
    <2> HIDE DEF n, o
    <2>4. /\ mem[o].retired = "no" /\ mem'[o].retired = "unlinked"
          /\ \A p \in Obj : p # o => mem'[p] = mem[p]
          /\ UNCHANGED members
      BY <2>1, <2>3, FilesEffect
    <2>5. members[n] = o
      BY <2>1, <2>4 DEF Served, Claims, n, o
    <2>6. SocketServesMember' /\ Vacant' /\ Bound'
      BY <2>1, <2>3, <2>5, FilesServed
    <2>7. Claims'
      BY <2>1, <2>2, <2>4, <2>5, Handles DEF Served, Claims
    <2>8. Unlinkers'
      BY <2>1, <2>2, <2>4, Handles DEF Served, Unlinkers, Working, Retiring
    <2> QED
      BY <2>6, <2>7, <2>8 DEF Served
  <1>5. CASE StopUnregister(s)
    <2> DEFINE n == stop[s].name
               o == stop[s].obj
    <2>1. /\ Alive /\ UNCHANGED <<main, boot, sock, pidfile>> /\ n \in Name /\ o \in Obj
          /\ stop[s].pc = "unregister" /\ stop[s].pc \in Working
      BY <1>5 DEF StopUnregister, Typed, GoodStop, Working
    <2>2. /\ stop'[s].pc = "replied"
          /\ \A r \in StopReq : r # s => stop'[r] = stop[r]
      BY <1>5, StopEndEffect DEF StopUnregister
    <2>3. RetireEntry(n, o)
      BY <1>5 DEF StopUnregister
    <2>4. members[n] = o /\ mem[o].retired = "unlinked"
      BY <2>1 DEF Served, Claims, Unlinkers
    <2>10. /\ \A r \in StopReq : stop[r].pc = "unregister" /\ stop[r].obj = o => r = s
           /\ ~(main.pc = "unregister" /\ main.obj = o)
      BY <2>1 DEF Served, Unlinkers
    <2> HIDE DEF n, o
    <2>5. /\ mem'[o].retired = "yes"
          /\ \A p \in Obj : p # o => mem'[p] = mem[p]
          /\ members'[n] = None
          /\ \A m \in Name : m # n => members'[m] = members[m]
      BY <2>1, <2>3, EntryEffect
    <2>6. SocketServesMember' /\ Vacant' /\ Bound'
      BY <2>1, <2>3, <2>4, EntryServed
    <2>7. Claims'
      BY <2>1, <2>2, <2>4, <2>5, Handles DEF Served, Claims, Working
    <2>8. Unlinkers'
      BY <2>1, <2>2, <2>5, <2>10, Handles DEF Served, Unlinkers, Working, Retiring
    <2> QED
      BY <2>6, <2>7, <2>8 DEF Served
  <1>6. CASE \E n \in Name : StopBegin(s, n)
    <2>1. Alive /\ UNCHANGED <<members, mem, sock, pidfile, main, boot>>
      BY <1>6 DEF StopBegin
    <2>2. \A r \in StopReq : \/ r # s /\ stop'[r] = stop[r]
                             \/ stop'[r].pc = "lookup"
      BY <1>6 DEF StopBegin, Typed
    <2> QED
      BY <2>1, <2>2, FrameServed DEF Working
  <1> QED
    BY <1>1, <1>2, <1>3, <1>4, <1>5, <1>6 DEF StopWork, StopRetire

LEMMA MainServed ==
    ASSUME Typed, Books, Served, ShutDown \/ MainWork
    PROVE  Served'
  <1>1. CASE ShutDown
    <2>1. /\ Alive /\ UNCHANGED <<members, mem, sock, pidfile, boot, stop>>
          /\ main'.pc = "stopAll" /\ main'.todo = members
      BY <1>1 DEF ShutDown, MainStep, Alive, Typed, GoodMain, MainRec
    <2>2. SocketServesMember' /\ Claims' /\ Unlinkers' /\ Vacant' /\ Bound'
      BY <2>1 DEF Served, SocketServesMember, Claims, Unlinkers, Vacant, Bound, Retiring
    <2> QED
      BY <2>2 DEF Served
  <1>2. CASE \E n \in Name : MainReadVM(n)
    <2>1. PICK n \in Name : MainReadVM(n)
      BY <1>2
    <2>2. /\ Alive /\ UNCHANGED <<members, mem, sock, pidfile, boot, stop>>
          /\ main'.pc = "halt" /\ main.todo[n] # None /\ main'.name = n
          /\ main'.obj = main.todo[n] /\ main'.todo = [main.todo EXCEPT ![n] = None]
          /\ main.todo \in [Name -> Obj \cup {None}]
      BY <2>1 DEF MainReadVM, MainStep, Alive, Typed, GoodMain, MainRec
    <2>3. SocketServesMember' /\ Vacant' /\ Bound'
      BY <2>2 DEF Served, SocketServesMember, Vacant, Bound
    <2>4. Claims'
      BY <2>2 DEF Served, Claims
    <2>5. Unlinkers'
      BY <2>2 DEF Served, Unlinkers
    <2> QED
      BY <2>3, <2>4, <2>5 DEF Served
  <1>3. CASE MainStopVM
    <2>1. /\ Alive /\ UNCHANGED <<members, mem, sock, pidfile, boot, stop>> /\ main.pc = "halt"
          /\ main'.pc = "retire" /\ main'.name = main.name
          /\ main'.obj = main.obj /\ main'.todo = main.todo
      BY <1>3 DEF MainStopVM, MainStep, MainGoto, Alive, Typed, GoodMain, MainRec
    <2>2. SocketServesMember' /\ Claims' /\ Unlinkers' /\ Vacant' /\ Bound'
      BY <2>1 DEF Served, SocketServesMember, Claims, Unlinkers, Vacant, Bound, Retiring
    <2> QED
      BY <2>2 DEF Served
  <1>4. CASE MainRetire /\ MainLoop /\ UNCHANGED <<registry, host>>
    <2>1. /\ Alive /\ UNCHANGED <<members, mem, sock, pidfile, boot, stop>>
          /\ main'.pc = "stopAll" /\ main'.todo = main.todo
      BY <1>4 DEF MainRetire, MainStep, MainLoop, Alive, Typed, GoodMain, MainRec
    <2>2. SocketServesMember' /\ Claims' /\ Unlinkers' /\ Vacant' /\ Bound'
      BY <2>1 DEF Served, SocketServesMember, Claims, Unlinkers, Vacant, Bound, Retiring
    <2> QED
      BY <2>2 DEF Served
  <1>5. CASE MainRetire /\ RetireFiles(main.name, main.obj) /\ MainGoto("unregister")
    <2> DEFINE n == main.name
               o == main.obj
    <2>1. /\ Alive /\ UNCHANGED <<boot, stop>> /\ n \in Name /\ o \in Obj /\ main.pc = "retire"
          /\ main'.pc = "unregister" /\ main'.name = n /\ main'.obj = o /\ main'.todo = main.todo
      BY <1>5 DEF MainRetire, MainStep, MainGoto, Alive, Typed, GoodMain, MainRec
    <2>2. RetireFiles(n, o)
      BY <1>5
    <2> HIDE DEF n, o
    <2>3. /\ mem[o].retired = "no" /\ mem'[o].retired = "unlinked"
          /\ \A p \in Obj : p # o => mem'[p] = mem[p]
          /\ UNCHANGED members
      BY <2>1, <2>2, FilesEffect
    <2>4. members[n] = o
      BY <2>1, <2>3 DEF Served, Claims, Retiring, n, o
    <2>5. SocketServesMember' /\ Vacant' /\ Bound'
      BY <2>1, <2>2, <2>4, FilesServed
    <2>6. Claims'
      BY <2>1, <2>3, <2>4, Handles DEF Served, Claims
    <2>7. Unlinkers'
      BY <2>1, <2>3, Handles DEF Served, Unlinkers, Working, Retiring
    <2> QED
      BY <2>5, <2>6, <2>7 DEF Served
  <1>6. CASE MainUnregister
    <2> DEFINE n == main.name
               o == main.obj
    <2>1. /\ Alive /\ UNCHANGED <<boot, stop, sock, pidfile>> /\ n \in Name /\ o \in Obj
          /\ main.pc = "unregister" /\ main'.pc = "stopAll" /\ main'.todo = main.todo
      BY <1>6 DEF MainUnregister, MainStep, MainLoop, Alive, Typed, GoodMain, MainRec
    <2>2. RetireEntry(n, o)
      BY <1>6 DEF MainUnregister
    <2>3. members[n] = o /\ mem[o].retired = "unlinked"
      BY <2>1 DEF Served, Claims, Unlinkers, Retiring
    <2>4. \A r \in StopReq : ~(stop[r].pc = "unregister" /\ stop[r].obj = o)
      BY <2>1 DEF Served, Unlinkers
    <2> HIDE DEF n, o
    <2>5. /\ mem'[o].retired = "yes"
          /\ \A p \in Obj : p # o => mem'[p] = mem[p]
          /\ members'[n] = None
          /\ \A m \in Name : m # n => members'[m] = members[m]
      BY <2>1, <2>2, EntryEffect
    <2>6. SocketServesMember' /\ Vacant' /\ Bound'
      BY <2>1, <2>2, <2>3, EntryServed
    <2>7. Claims'
      BY <2>1, <2>3, <2>5, Handles DEF Served, Claims, Retiring
    <2>8. Unlinkers'
      BY <2>1, <2>4, <2>5, Handles DEF Served, Unlinkers, Working
    <2> QED
      BY <2>6, <2>7, <2>8 DEF Served
  <1>7. CASE CloseNetwork
    <2>1. /\ Alive /\ UNCHANGED <<members, mem, sock, pidfile, boot, stop>>
          /\ main'.pc = "closed" /\ main'.todo = main.todo
      BY <1>7 DEF CloseNetwork, MainStep, MainGoto, Alive, Typed, GoodMain, MainRec
    <2>2. SocketServesMember' /\ Claims' /\ Unlinkers' /\ Vacant' /\ Bound'
      BY <2>1 DEF Served, SocketServesMember, Claims, Unlinkers, Vacant, Bound, Retiring
    <2> QED
      BY <2>2 DEF Served
  <1>8. CASE Exit
    <2>1. UNCHANGED <<members, mem, sock, pidfile>> /\ main'.pc = "exited"
      BY <1>8 DEF Exit, MainGoto, Typed, GoodMain, MainRec
    <2> QED
      BY <2>1 DEF Served, SocketServesMember, Alive
  <1> QED
    BY <1>1, <1>2, <1>3, <1>4, <1>5, <1>6, <1>7, <1>8 DEF MainWork, MainRetire

LEMMA NextServed == Single /\ Typed /\ Books /\ Served /\ [Next]_vars => Served'
  <1> SUFFICES ASSUME Single, Typed, Books, Served, [Next]_vars PROVE Served'
    OBVIOUS
  <1>1. CASE \E c \in NetReq : NetCheck(c) \/ NetCreate(c) \/ NetInstall(c)
    BY <1>1, NetServed, HolderAssumption
  <1>2. CASE \E n \in Name : Reserve(n)
    BY <1>2, FrameServed DEF Reserve
  <1>3. CASE \E b \in BootReq : BootWork(b) \/ \E n \in Name : BootBegin(b, n)
    BY <1>3, BootServed
  <1>4. CASE \E s \in StopReq : StopWork(s) \/ \E n \in Name : StopBegin(s, n)
    BY <1>4, StopServed
  <1>5. CASE ShutDown \/ MainWork
    BY <1>5, MainServed
  <1>6. CASE UNCHANGED vars
    BY <1>6 DEF vars, Served, SocketServesMember, Alive, Claims, Unlinkers, Vacant, Bound
  <1> QED
    BY <1>1, <1>2, <1>3, <1>4, <1>5, <1>6 DEF Next, Gone

\* A registered member's socket path leads to it and its pidfile is there, however
\* stops, rejoins, retries and the shutdown overlap: retire and register never take
\* away a successor's files (holder.go, retire and register).
THEOREM SocketCorrect == Single /\ Spec => []SocketServesMember
  <1>1. Init => Typed /\ Books /\ Served
    BY InitTyped, InitBooks, InitServed
  <1>2. CASE Single
    <2>1. Typed /\ Books /\ Served /\ [Next]_vars => (Typed /\ Books /\ Served)'
      BY <1>2, NextTyped, NextBooks, NextServed
    <2>2. Served => SocketServesMember
      BY DEF Served
    <2> QED
      BY <1>1, <2>1, <2>2, PTL DEF Spec
  <1> QED
    BY <1>2

-----------------------------------------------------------------------------
(* The VMs, when clients do not overlap a stop and a boot of one name and   *)
(* vm.Stop stops its VM.  Stops of one name may overlap, failed members may *)
(* be retried, and the process may shut down at any time.                   *)

Orderly == Lapses \subseteq {"dupStop", "retryError"}

StopInFlight(s) == stop[s].pc \notin {"idle", "replied"}

\* Program points of bootMember: before its object is registered; holding an
\* object; committed to a new VM; with that VM launched.
Early == {"idle", "lookup", "register", "insert"}
Bringing == {"check", "create", "started", "reap", "markError"}
Building == {"create", "started", "reap"}
Launched == {"started", "reap"}
\* Program points of stopMember after it stopped the VM.
Halting == {"mark", "dec", "retire", "unregister"}

\* The VMs that the properties speak of, and the names where a boot cannot have
\* lost its member to the shutdown.
Held == {b \in live : Kept(b)}
Guarded(n) == main.pc = "serving" \/ \E b \in Held : boot[b].name = n

\* What the clients' order gives: no boot beside a stop of its name.
Apart ==
    \A b \in BootReq, s \in StopReq :
        InFlight(b) /\ StopInFlight(s) => boot[b].name # stop[s].name

\* A registered member is not retired, or somebody is about to unregister it.
Registered ==
    \A n \in Name : members[n] # None =>
        \/ mem[members[n]].retired = "no"
        \/ /\ mem[members[n]].retired = "unlinked"
           /\ \/ \E s \in StopReq : stop[s].pc = "unregister" /\ stop[s].obj = members[n]
              \/ main.pc = "unregister" /\ main.obj = members[n]

\* An object that is still to be registered has no past.
Unborn ==
    \A b \in BootReq : boot[b].pc \in Early => mem[b].retired = "no" /\ mem[b].vm = None

\* A boot works on a member without a VM, the registered one of its name as long as
\* the shutdown has not taken that away.
BootKeeps ==
    \A b \in BootReq :
        /\ boot[b].pc \in Bringing /\ Guarded(boot[b].name)
             => members[boot[b].name] = boot[b].obj /\ mem[boot[b].obj].retired = "no"
        /\ boot[b].pc \in Building => mem[boot[b].obj].vm = None
        /\ boot[b].pc \in Launched => b \in live

\* A VM belongs to one member, once its boot is over.
VMOwner ==
    /\ \A o \in Obj : mem[o].vm # None => boot[mem[o].vm].pc = "replied"
    /\ \A o, p \in Obj : mem[o].vm # None /\ mem[o].vm = mem[p].vm => o = p

\* What was answered stays answered: the VMs that a stop is about to stop, and the
\* members made before those VMs were theirs.
Elders ==
    /\ main.before \subseteq Answered
    /\ \A o \in BootReq : mem[o].vm # None => boot[o].pc = "replied"
    /\ \A o \in BootReq : mem[o].vm \in main.before => o \in main.before
    /\ \A s \in StopReq : stop[s].pc = "halt" /\ stop[s].vm # None
                             => boot[stop[s].vm].pc = "replied"
    /\ main.pc = "halt" /\ main.vm # None => boot[main.vm].pc = "replied"

\* A VM that runs is being booted or is the registered member's.
LiveHeld ==
    /\ \A b \in live : boot[b].pc \in Launched \cup {"replied"}
    /\ \A b \in Held :
          \/ boot[b].pc \in Launched
          \/ /\ boot[b].pc = "replied" /\ boot[b].name \in Name
             /\ members[boot[b].name] # None /\ mem[members[boot[b].name]].vm = b

\* No boot that the shutdown overtook has launched a VM beside one of its name.
Sole ==
    main.pc # "serving"
      => \A b \in Held, c \in live : boot[b].name = boot[c].name => b = c

\* Whoever retires a member has stopped its VM, not an earlier one.
Halted ==
    /\ \A s \in StopReq :
          /\ stop[s].pc = "halt" /\ Kept(mem[stop[s].obj].vm)
               => stop[s].vm = mem[stop[s].obj].vm
          /\ stop[s].pc \in Halting => mem[stop[s].obj].vm \notin Held
    /\ main.pc = "halt" /\ Kept(mem[main.obj].vm) => main.vm = mem[main.obj].vm
    /\ main.pc \in {"retire", "unregister"} => mem[main.obj].vm \notin Held

Down == \A o \in Obj : mem[o].retired # "no" => mem[o].vm \notin Held

\* While the process serves, a registered member's VM runs until a stop of that
\* member stopped it.
Doomed(o) == \E s \in StopReq : stop[s].pc \in Halting /\ stop[s].obj = o
VMUp ==
    main.pc = "serving" =>
        \A n \in Name : (members[n] # None /\ mem[members[n]].vm # None)
                          => mem[members[n]].vm \in live \/ Doomed(members[n])

\* A socket or a pidfile is a registered member's or one that is being registered.
FilesOwned ==
    \A n \in Name : (sock[n] # None \/ n \in pidfile) =>
        \/ members[n] # None /\ mem[members[n]].retired = "no"
        \/ \E b \in BootReq : boot[b].pc = "insert" /\ boot[b].name = n

\* stopAll has every member still to be retired on its list, but for those that
\* were registered after it was drawn up.
Listed ==
    /\ main.pc # "serving" =>
          \A n \in Name : (members[n] # None /\ mem[members[n]].retired = "no") =>
              \/ main.todo[n] = members[n]
              \/ main.pc \in Retiring /\ main.name = n /\ main.obj = members[n]
              \/ members[n] \in BootReq \ main.before
    /\ main.pc = "closed" => \A n \in Name : main.todo[n] = None

\* The network is on the host from its creation to its close.
NetUp ==
    /\ \A c \in NetReq : netPc[c] = "install" => c \in nets
    /\ network # None => netPc[network] = "replied"
    /\ network # None /\ main.pc # "closed" => network \in nets
    /\ main.pc = "closed" => nets \cap main.before = {}

Settled ==
    Alive => /\ Apart /\ Registered /\ Unborn /\ BootKeeps /\ VMOwner /\ Elders /\ LiveHeld
             /\ Sole /\ Halted /\ Down /\ VMUp /\ FilesOwned /\ Listed /\ NetUp
Cleared == ~Alive => live = {} /\ CleanExit

LEMMA InitSettled == Init => Settled /\ Cleared
  <1> SUFFICES ASSUME Init PROVE Settled /\ Cleared
    OBVIOUS
  <1>1. Alive /\ main.pc = "serving" /\ main.before = {}
    BY DEF Init, Alive
  <1>2. \A s \in StopReq : stop[s] = NoStop
    BY DEF Init
  <1>3. \A b \in BootReq : boot[b] = NoBoot
    BY DEF Init
  <1>4. \A o \in Obj : mem[o].vm = None /\ mem[o].retired = "no"
    BY DEF Init
  <1>5. Apart /\ Registered /\ Unborn /\ BootKeeps /\ VMOwner
    BY <1>1, <1>2, <1>3, <1>4, HolderAssumption DEF Init, NoBoot, NoStop, Apart, Registered,
       Unborn, BootKeeps, VMOwner, InFlight, StopInFlight, Bringing, Building, Launched
  <1>6. LiveHeld /\ Sole /\ Halted /\ Down /\ VMUp
    BY <1>1, <1>2, <1>3, <1>4, HolderAssumption DEF Init, NoStop, LiveHeld, Sole, Halted, Down,
       VMUp, Halting, Held
  <1>7. Elders
    BY <1>1, <1>2, <1>4, HolderAssumption DEF NoStop, Elders, Obj
  <1>8. FilesOwned /\ Listed /\ NetUp
    BY <1>1, <1>4, HolderAssumption DEF Init, FilesOwned, Listed, NetUp
  <1> QED
    BY <1>1, <1>5, <1>6, <1>7, <1>8 DEF Settled, Cleared

\* The VM a member holds and the objects a boot holds are of their types.
LEMMA MoreHandles ==
    ASSUME Typed
    PROVE  /\ \A o \in Obj : mem[o].vm \in BootReq \cup {None}
           /\ \A b \in BootReq : boot[b].pc \in Bringing => boot[b].obj \in Obj /\ InFlight(b)
           /\ \A b \in BootReq : boot[b].pc \in Bringing => boot[b].name \in Name
           /\ None \notin live /\ None \notin nets /\ None \notin main.before
           /\ \A s \in StopReq : stop[s].vm \in BootReq \cup {None}
           /\ main.vm \in BootReq \cup {None} /\ main.before \subseteq BootReq \cup NetReq
  BY HolderAssumption DEF Typed, MemRec, GoodBoot, Bringing, InFlight, GoodStop, StopRec,
     GoodMain, MainRec

\* A request that is not answered has not been answered before the shutdown.
LEMMA NotBefore ==
    ASSUME Settled, Alive
    PROVE  /\ \A b \in BootReq : b \in main.before => boot[b].pc = "replied"
           /\ \A c \in NetReq : c \in main.before => netPc[c] = "replied"
  BY HolderAssumption DEF Settled, Elders, Answered

\* While only a boot that is not answered moves, the VMs held stay.
LEMMA HeldStays ==
    ASSUME Typed, Settled, Alive, main.pc # "serving", main' = main,
           NEW b \in BootReq, boot[b].pc # "replied", live' \subseteq live \cup {b},
           live \subseteq live' \cup {b}
    PROVE  Held' = Held /\ b \notin Held
  BY NotBefore DEF Held, Kept

\* Two names never share a registered object.
LEMMA OneName ==
    ASSUME Typed, Books, Alive, NEW n \in Name, NEW m \in Name, members[n] # None,
           members[n] = members[m]
    PROVE  n = m
  BY MadeForOne DEF Books, Named

LEMMA NetSettled ==
    ASSUME Orderly, Typed, Settled, Cleared, NEW c \in NetReq, NEW n \in Name,
           NetCheck(c) \/ NetCreate(c) \/ NetInstall(c) \/ Reserve(n)
    PROVE  Settled' /\ Cleared'
  <1>1. Alive /\ UNCHANGED <<members, mem, live, sock, pidfile, boot, stop, main>>
    BY DEF NetCheck, NetCreate, NetInstall, Reserve
  <1>2. \A d \in NetReq : netPc[d] = "replied" => netPc'[d] = "replied"
    BY DEF NetCheck, NetCreate, NetInstall, Reserve, Typed
  <1>3. Apart' /\ Registered' /\ Unborn' /\ BootKeeps' /\ VMOwner' /\ LiveHeld' /\ Sole' /\ Halted'
        /\ Down'
    BY <1>1 DEF Settled, Apart, InFlight, StopInFlight, Registered, Unborn, BootKeeps, Guarded,
       VMOwner, LiveHeld, Sole, Halted, Down, Held, Kept
  <1>4. VMUp' /\ FilesOwned' /\ Listed'
    BY <1>1 DEF Settled, VMUp, Doomed, FilesOwned, Listed
  <1>5. Elders'
    BY <1>1, <1>2 DEF Settled, Elders, Answered
  <1>6. NetUp'
    <2>1. CASE NetCheck(c)
      BY <1>1, <2>1 DEF NetCheck, Settled, NetUp, Typed
    <2>2. CASE NetCreate(c)
      BY <1>1, <2>2, MoreHandles, NotBefore DEF NetCreate, Settled, NetUp, Typed
    <2>3. CASE NetInstall(c)
      BY <1>1, <2>3, MoreHandles DEF NetInstall, Settled, NetUp, Typed
    <2>4. CASE Reserve(n)
      BY <1>1, <2>4 DEF Reserve, Settled, NetUp
    <2> QED
      BY <2>1, <2>2, <2>3, <2>4
  <1> QED
    BY <1>1, <1>3, <1>4, <1>5, <1>6 DEF Settled, Cleared, Alive

\* A boot that moves on and touches neither registry nor files: what must hold of
\* its new place for everything else to stay as it is.
LEMMA FrameBoot ==
    ASSUME Typed, Typed', Books, Settled, Alive,
           UNCHANGED <<members, sock, pidfile, stop, main, nets, network, netPc>>,
           \A o \in Obj : mem'[o].vm = mem[o].vm /\ mem'[o].retired = mem[o].retired,
           NEW b \in BootReq, boot[b].pc # "replied", boot[b].pc # "insert",
           \A c \in BootReq : c # b => boot'[c] = boot[c],
           InFlight(b)' => \A s \in StopReq : StopInFlight(s) => boot'[b].name # stop[s].name,
           boot'[b].pc # "insert",
           boot'[b].pc \in Early => boot[b].pc \in Early,
           boot'[b].pc \in Bringing /\ Guarded(boot'[b].name)
              => members[boot'[b].name] = boot'[b].obj /\ mem[boot'[b].obj].retired = "no",
           boot'[b].pc \in Building => mem[boot'[b].obj].vm = None,
           IF boot'[b].pc \in Launched THEN live' = live \cup {b} ELSE live' = live \ {b}
    PROVE  Settled'
  <1>1. \A c \in live' : c # b => c \in live
    OBVIOUS
  <1>2. \A c \in BootReq : c # b => (c \in live' <=> c \in live)
    OBVIOUS
  <1>3. \A o \in Obj : mem[o].vm # b
    BY HolderAssumption DEF Settled, VMOwner
  <1>4. \A o \in Obj : mem[o].vm \in live' <=> mem[o].vm \in live
    BY <1>2, <1>3, MoreHandles, HolderAssumption DEF Typed
  <1>16. main.pc # "serving" => Held' = Held /\ b \notin Held
    BY HeldStays
  <1>17. \A n : Guarded(n)' <=> Guarded(n)
    <2>1. CASE main.pc = "serving"
      BY <2>1 DEF Guarded
    <2>2. CASE main.pc # "serving"
      <3>1. \A c \in Held : c \in BootReq /\ c # b /\ boot'[c] = boot[c]
        BY <2>2, <1>16 DEF Held, Typed
      <3> QED
        BY <2>2, <3>1, <1>16 DEF Guarded
    <2> QED
      BY <2>1, <2>2
  <1>5. Apart'
    BY DEF Settled, Apart, InFlight, StopInFlight
  <1>6. Registered'
    BY Handles DEF Settled, Registered
  <1>7. Unborn'
    BY DEF Settled, Unborn
  <1>8. BootKeeps'
    <2>1. ASSUME NEW c \in BootReq
          PROVE  /\ boot'[c].pc \in Bringing /\ Guarded(boot'[c].name)
                      => /\ members'[boot'[c].name] = boot'[c].obj
                         /\ mem'[boot'[c].obj].retired = "no"
                 /\ boot'[c].pc \in Building => mem'[boot'[c].obj].vm = None
                 /\ boot'[c].pc \in Launched => c \in live'
      <3>1. boot'[c].pc \in Bringing => boot'[c].obj \in Obj
        BY DEF Typed, GoodBoot, Bringing
      <3>2. CASE c = b
        BY <2>1, <3>1, <3>2 DEF Building, Bringing
      <3>3. CASE c # b
        BY <2>1, <3>1, <3>3, <1>2 DEF Settled, BootKeeps, Building, Bringing
      <3> QED
        BY <3>2, <3>3
    <2>2. \A c \in BootReq : Guarded(boot[c].name)' => Guarded(boot'[c].name)
      BY <1>17 DEF Guarded
    <2> QED
      BY <2>1, <2>2 DEF BootKeeps
  <1>9. VMOwner'
    BY <1>3, MoreHandles DEF Settled, VMOwner
  <1>18. Elders'
    <2>1. \A c \in BootReq : boot[c].pc = "replied" => boot'[c].pc = "replied"
      OBVIOUS
    <2>2. main'.before \subseteq Answered'
      BY <2>1 DEF Settled, Elders, Answered
    <2> QED
      BY <2>1, <2>2, MoreHandles DEF Settled, Elders
  <1>19. \A c \in Held' : c # b => c \in Held
    BY <1>1 DEF Held, Kept
  <1>20. Sole'
    <2>1. SUFFICES ASSUME main.pc # "serving", NEW c \in Held, NEW d \in live',
                          boot'[c].name = boot'[d].name, c # d
                   PROVE  FALSE
      BY <1>16 DEF Sole
    <2>2. c \in BootReq /\ c # b /\ boot'[c] = boot[c] /\ c \in live
      BY <2>1, <1>16 DEF Held, Typed
    <2>3. d = b
      BY <2>1, <2>2, <1>1 DEF Settled, Sole, Typed
    <2>4. boot'[b].pc \in Launched
      BY <2>1, <2>3
    <2>5. /\ members[boot'[b].name] = boot'[b].obj /\ mem[boot'[b].obj].vm = None
      BY <2>1, <2>2, <2>3, <2>4 DEF Guarded, Launched, Bringing, Building
    <2>6. boot[c].pc \notin Launched
      BY <2>1, <2>2, NotBefore DEF Held, Kept, Launched
    <2>7. mem[members[boot[c].name]].vm = c
      BY <2>1, <2>6 DEF Settled, LiveHeld
    <2> QED
      BY <2>1, <2>2, <2>3, <2>5, <2>7, HolderAssumption
  <1>10. LiveHeld'
    <2>1. ASSUME NEW c \in Held', c # b
          PROVE  \/ boot'[c].pc \in Launched
                 \/ /\ boot'[c].pc = "replied" /\ boot'[c].name \in Name
                    /\ members'[boot'[c].name] # None /\ mem'[members'[boot'[c].name]].vm = c
      <3>1. c \in Held /\ c \in BootReq /\ boot'[c] = boot[c]
        BY <2>1, <1>19 DEF Held, Typed
      <3> QED
        BY <3>1, Handles DEF Settled, LiveHeld
    <2>2. b \in live' => boot'[b].pc \in Launched
      OBVIOUS
    <2>3. \A c \in live' : c # b => boot'[c].pc \in Launched \cup {"replied"}
      BY <1>1 DEF Settled, LiveHeld, Typed
    <2> QED
      BY <2>1, <2>2, <2>3 DEF LiveHeld, Held
  <1>21. \A o \in Obj : mem[o].vm \in Held' => mem[o].vm \in Held
    BY <1>3, <1>19
  <1>11. Halted'
    BY <1>21, Handles DEF Settled, Halted, Halting, Working, Retiring, Kept
  <1>12. Down'
    BY <1>21 DEF Settled, Down
  <1>13. VMUp'
    BY <1>4, Handles DEF Settled, VMUp, Doomed
  <1>14. FilesOwned'
    BY Handles DEF Settled, FilesOwned
  <1>15. Listed' /\ NetUp'
    BY Handles DEF Settled, Listed, NetUp
  <1> QED
    BY <1>5, <1>6, <1>7, <1>8, <1>9, <1>10, <1>11, <1>12, <1>13, <1>14, <1>15,
       <1>18, <1>20 DEF Settled

\* What a step of one boot does to its record: it keeps its name, and its object
\* unless it ends.
LEMMA GotoEffect ==
    ASSUME Typed, NEW b \in BootReq, NEW to \in BootPc, BootGoto(b, to)
    PROVE  /\ boot'[b].pc = to /\ boot'[b].name = boot[b].name
           /\ to # "replied" => boot'[b].obj = boot[b].obj
           /\ \A c \in BootReq : c # b => boot'[c] = boot[c]
  <1>1. PICK o \in {boot[b].obj, None} \cap (Obj \cup {None}) :
              BootSet(b, to, o) /\ (to # "replied" => o = boot[b].obj)
    BY BootGotoMove
  <1> QED
    BY <1>1, BootMove

\* A boot that is not launched runs no VM.
LEMMA NoVMYet ==
    ASSUME Settled, Alive, NEW b \in BootReq, boot[b].pc \notin Launched, boot[b].pc # "replied"
    PROVE  b \notin live
  BY DEF Settled, LiveHeld

\* Steps of a boot that call nothing and change only its place.
LEMMA QuietBoot ==
    ASSUME Typed, Typed', Books, Settled, Alive,
           UNCHANGED <<members, sock, pidfile, stop, main, nets, network, netPc, live>>,
           \A o \in Obj : mem'[o].vm = mem[o].vm /\ mem'[o].retired = mem[o].retired,
           NEW b \in BootReq, InFlight(b), boot[b].pc # "insert", boot[b].pc \notin Launched,
           NEW to \in BootPc, BootGoto(b, to), to \notin Launched \cup {"insert", "idle"},
           to \in Early => boot[b].pc \in Early,
           to \in Bringing => boot[b].pc \in Bringing,
           to \in Building => mem[boot[b].obj].vm = None
    PROVE  Settled'
  <1>1. /\ boot'[b].pc = to /\ boot'[b].name = boot[b].name
        /\ to # "replied" => boot'[b].obj = boot[b].obj
        /\ \A c \in BootReq : c # b => boot'[c] = boot[c]
    BY GotoEffect
  <1>2. boot[b].pc # "replied" /\ boot[b].pc # "idle"
    BY DEF InFlight
  <1>3. live' = live \ {b}
    BY <1>2, NoVMYet
  <1>4. \A s \in StopReq : StopInFlight(s) => boot'[b].name # stop[s].name
    BY <1>1 DEF Settled, Apart
  <1>5. boot'[b].pc \in Bringing /\ Guarded(boot'[b].name)
           => members[boot'[b].name] = boot'[b].obj /\ mem[boot'[b].obj].retired = "no"
    BY <1>1 DEF Settled, BootKeeps, Bringing
  <1>6. boot'[b].pc \in Building => mem[boot'[b].obj].vm = None
    BY <1>1 DEF Building
  <1> QED
    BY <1>1, <1>2, <1>3, <1>4, <1>5, <1>6, FrameBoot

\* A boot that begins finds no stop of its name.
LEMMA BeginSettled ==
    ASSUME Orderly, Typed, Typed', Books, Settled, NEW b \in BootReq, NEW n \in Name,
           BootBegin(b, n)
    PROVE  Settled'
  <1>1. /\ Alive /\ boot[b].pc = "idle"
        /\ UNCHANGED <<members, mem, sock, pidfile, stop, main, nets, network, netPc, live>>
    BY DEF BootBegin, BootStep
  <1>2. StopsOf(n) = {}
    BY DEF BootBegin, MayBoot, Allowed, Orderly
  <1>3. PICK to \in {"lookup", "replied"} :
            boot' = [boot EXCEPT ![b] = [pc |-> to, name |-> n, obj |-> None]]
    BY DEF BootBegin
  <1>4. /\ boot'[b].pc = to /\ boot'[b].name = n
        /\ \A c \in BootReq : c # b => boot'[c] = boot[c]
    BY <1>3 DEF Typed
  <1>5. live' = live \ {b}
    BY <1>1, NoVMYet DEF Launched
  <1>6. \A s \in StopReq : StopInFlight(s) => boot'[b].name # stop[s].name
    BY <1>2, <1>4 DEF StopsOf, StopInFlight
  <1>7. boot'[b].pc \notin Bringing \cup Building \cup Launched /\ boot'[b].pc # "insert"
    BY <1>4 DEF Bringing, Building, Launched
  <1>8. boot[b].pc \in Early
    BY <1>1 DEF Early
  <1> QED
    BY <1>1, <1>2, <1>4, <1>5, <1>6, <1>7, <1>8, FrameBoot

\* find returns a member that nobody is retiring, or that has no VM running.
LEMMA FindSettled ==
    ASSUME Typed, Typed', Books, Served, Settled, NEW b \in BootReq, BootFind(b)
    PROVE  Settled'
  <1> DEFINE n == boot[b].name
             o == members[n]
  <1>1. /\ Alive /\ boot[b].pc = "find" /\ InFlight(b) /\ n \in Name
        /\ UNCHANGED <<members, mem, sock, pidfile, stop, main, nets, network, netPc, live>>
    BY DEF BootFind, BootStep, InFlight, Typed, GoodBoot
  <1>2. /\ boot'[b].pc = (IF o = None THEN "replied" ELSE "check")
        /\ boot'[b].name = n /\ boot'[b].obj = o
        /\ \A c \in BootReq : c # b => boot'[c] = boot[c]
    <2>1. o \in Obj \cup {None}
      BY <1>1 DEF Typed
    <2>2. PICK to \in {"replied", "check"} :
              BootSet(b, to, o) /\ to = (IF o = None THEN "replied" ELSE "check")
      BY DEF BootFind
    <2> QED
      BY <2>1, <2>2, BootMove DEF BootPc
  <1>3. \A s \in StopReq : StopInFlight(s) => boot'[b].name # stop[s].name
    BY <1>1, <1>2 DEF Settled, Apart
  <1>4. o # None /\ main.pc = "serving" => mem[o].retired = "no"
    <2>1. SUFFICES ASSUME o # None, main.pc = "serving", mem[o].retired # "no" PROVE FALSE
      OBVIOUS
    <2>2. /\ mem[o].retired = "unlinked"
          /\ \/ \E s \in StopReq : stop[s].pc = "unregister" /\ stop[s].obj = o
             \/ main.pc = "unregister" /\ main.obj = o
      BY <2>1, <1>1 DEF Settled, Registered
    <2>3. PICK s \in StopReq : stop[s].pc = "unregister" /\ stop[s].obj = o
      BY <2>1, <2>2
    <2>4. stop[s].name \in Name /\ members[stop[s].name] = o
      BY <2>2, <2>3, <1>1, Handles DEF Served, Claims, Working
    <2>5. stop[s].name = n
      BY <2>1, <2>4, <1>1, OneName
    <2> QED
      BY <2>3, <2>5, <1>2, <1>3 DEF StopInFlight
  <1>10. o # None /\ main.pc # "serving" /\ Guarded(n) => mem[o].retired = "no"
    <2>1. SUFFICES ASSUME o # None, main.pc # "serving", NEW c \in Held, boot[c].name = n
                   PROVE  mem[o].retired = "no"
      BY DEF Guarded
    <2>2. c \in BootReq /\ boot[c].pc \notin Launched
      BY <2>1, <1>1, NotBefore DEF Held, Kept, Launched, Typed
    <2>3. mem[o].vm = c
      BY <2>1, <2>2, <1>1 DEF Settled, LiveHeld
    <2> QED
      BY <2>1, <2>3, <1>1, Handles DEF Settled, Down
  <1>5. live' = live \ {b}
    BY <1>1, NoVMYet DEF Launched
  <1>6. boot'[b].pc \notin Building \cup Launched \cup Early
    BY <1>2 DEF Building, Launched, Early
  <1>7. boot'[b].pc \in Bringing => o # None
    BY <1>2 DEF Bringing
  <1>8. boot'[b].pc \in Bringing /\ Guarded(boot'[b].name)
           => members[boot'[b].name] = boot'[b].obj /\ mem[boot'[b].obj].retired = "no"
    BY <1>2, <1>4, <1>7, <1>10
  <1>9. boot'[b].pc # "insert"
    BY <1>2
  <1> HIDE DEF n, o
  <1> QED
    BY <1>1, <1>2, <1>3, <1>5, <1>6, <1>8, <1>9, FrameBoot

\* vm.Stop stops its VM.
LEMMA OneWay == ASSUME Orderly, NEW v PROVE AfterStop(v) = {live \ {v}}
  BY DEF Orderly, AfterStop, Allowed

\* The launch and the end of a VM: Create and Start, the stop of a partial VM,
\* and of one whose member was stopped meanwhile.
LEMMA LaunchSettled ==
    ASSUME Orderly, Typed, Typed', Books, Settled, NEW b \in BootReq,
           BootCreate(b) \/ BootFail(b) \/ BootReap(b)
    PROVE  Settled'
  <1>1. /\ Alive /\ boot[b].pc \in Building /\ InFlight(b)
        /\ UNCHANGED <<members, mem, sock, pidfile, stop, main, nets, network, netPc>>
    BY DEF BootCreate, BootFail, BootReap, BootStep, InFlight, Building
  <1>2. PICK to \in {"started", "markError", "replied"} :
            /\ BootGoto(b, to)
            /\ to = "started" => live' = live \cup {b}
            /\ to # "started" => (UNCHANGED live /\ boot[b].pc = "create") \/ live' = live \ {b}
    <2>1. AfterStop(b) = {live \ {b}}
      BY OneWay
    <2> QED
      BY <2>1 DEF BootCreate, BootFail, BootReap, BootStep
  <1>3. /\ boot'[b].pc = to /\ boot'[b].name = boot[b].name
        /\ to # "replied" => boot'[b].obj = boot[b].obj
        /\ \A c \in BootReq : c # b => boot'[c] = boot[c]
    BY <1>2, GotoEffect DEF BootPc
  <1>4. to # "started" => live' = live \ {b}
    BY <1>1, <1>2, NoVMYet DEF Launched
  <1>5. \A s \in StopReq : StopInFlight(s) => boot'[b].name # stop[s].name
    BY <1>1, <1>3 DEF Settled, Apart
  <1>6. /\ Guarded(boot[b].name)
             => members[boot[b].name] = boot[b].obj /\ mem[boot[b].obj].retired = "no"
        /\ mem[boot[b].obj].vm = None
    BY <1>1 DEF Settled, BootKeeps, Building, Bringing
  <1>7. boot'[b].pc \in Bringing => to # "replied"
    BY <1>3 DEF Bringing
  <1>8. boot'[b].pc \notin Early /\ (boot'[b].pc \in Building => to = "started")
    BY <1>3 DEF Early, Building
  <1>9. IF boot'[b].pc \in Launched THEN live' = live \cup {b} ELSE live' = live \ {b}
    BY <1>2, <1>3, <1>4 DEF Launched
  <1>10. boot[b].pc # "replied" /\ boot[b].pc # "insert" /\ boot'[b].pc # "insert"
    BY <1>1, <1>3 DEF Building
  <1> QED
    BY <1>1, <1>3, <1>5, <1>6, <1>7, <1>8, <1>9, <1>10, FrameBoot

\* register, up to the pidfile: the name has no files, and gets the boot's own.
LEMMA RegisterFilesSettled ==
    ASSUME Typed, Typed', Books, Served, Settled, NEW b \in BootReq, BootRegisterFiles(b)
    PROVE  Settled'
  <1> DEFINE n == boot[b].name
  <1>1. /\ Alive /\ boot[b].pc = "register" /\ InFlight(b) /\ n \in Name
        /\ UNCHANGED <<members, mem, live, stop, main, nets, network, netPc>>
    BY DEF BootRegisterFiles, BootStep, InFlight, Typed, GoodBoot
  <1>2. /\ boot'[b].name = n
        /\ \A c \in BootReq : c # b => boot'[c] = boot[c]
        /\ \/ boot'[b].pc = "insert"
           \/ boot'[b].pc = "replied" /\ sock'[n] = None /\ UNCHANGED pidfile
        /\ \A m \in Name : m # n => sock'[m] = sock[m] /\ (m \in pidfile' <=> m \in pidfile)
    BY <1>1, GotoEffect DEF BootRegisterFiles, BootPc, Typed
  <1>3. members[n] = None /\ b \notin live
    BY <1>1, NoVMYet DEF Served, Vacant, Launched
  <1>4. \A c \in BootReq : InFlight(c) /\ boot[c].name = n => c = b
    BY <1>1 DEF Books, OneBoot
  <1>5. Apart'
    BY <1>1, <1>2 DEF Settled, Apart, InFlight, StopInFlight
  <1>6. Registered' /\ VMUp' /\ Listed' /\ NetUp' /\ Down' /\ Halted'
    BY <1>1 DEF Settled, Registered, VMUp, Doomed, Listed, NetUp, Down, Halted, Held, Kept
  <1>7. Unborn'
    BY <1>1, <1>2 DEF Settled, Unborn, Early
  <1>8. BootKeeps'
    <2>1. \A c \in Held : c # b /\ c \in BootReq
      BY <1>3 DEF Held, Typed
    <2>2. \A m : Guarded(m)' => Guarded(m)
      BY <1>1, <1>2, <2>1 DEF Guarded, Held, Kept
    <2>3. \A c \in BootReq : boot'[c].pc \in Bringing => c # b /\ boot'[c] = boot[c]
      BY <1>1, <1>2 DEF Bringing
    <2>4. \A c \in BootReq : c # b /\ Guarded(boot[c].name)' => Guarded(boot[c].name)
      BY <1>1, <1>2, <2>1 DEF Guarded, Held, Kept
    <2> QED
      BY <1>1, <2>3, <2>4 DEF Settled, BootKeeps, Bringing, Building, Launched
  <1>9. VMOwner'
    BY <1>1, <1>2, MoreHandles DEF Settled, VMOwner
  <1>10. LiveHeld' /\ Sole'
    BY <1>1, <1>2, <1>3 DEF Settled, LiveHeld, Sole, Typed, Held, Kept
  <1>12. Elders'
    <2>1. main'.before \subseteq Answered'
      BY <1>1, <1>2 DEF Settled, Elders, Answered, InFlight
    <2> QED
      BY <1>1, <1>2, <2>1, MoreHandles DEF Settled, Elders
  <1>11. FilesOwned'
    <2>1. ASSUME NEW m \in Name, sock'[m] # None \/ m \in pidfile'
          PROVE  \/ members'[m] # None /\ mem'[members'[m]].retired = "no"
                 \/ \E c \in BootReq : boot'[c].pc = "insert" /\ boot'[c].name = m
      <3>1. CASE m = n
        <4>1. CASE boot'[b].pc = "insert"
          BY <3>1, <4>1, <1>2
        <4>2. CASE boot'[b].pc # "insert"
          <5>1. m \in pidfile
            BY <2>1, <3>1, <4>2, <1>2
          <5>2. PICK c \in BootReq : boot[c].pc = "insert" /\ boot[c].name = n
            BY <3>1, <5>1, <1>1, <1>3 DEF Settled, FilesOwned
          <5> QED
            BY <5>2, <1>1, <1>4 DEF InFlight
        <4> QED
          BY <4>1, <4>2
      <3>2. CASE m # n
        <4>1. \/ members[m] # None /\ mem[members[m]].retired = "no"
              \/ \E c \in BootReq : boot[c].pc = "insert" /\ boot[c].name = m
          BY <2>1, <3>2, <1>1, <1>2 DEF Settled, FilesOwned
        <4> QED
          BY <4>1, <3>2, <1>1, <1>2
      <3> QED
        BY <3>1, <3>2
    <2> QED
      BY <2>1 DEF FilesOwned
  <1> QED
    BY <1>1, <1>5, <1>6, <1>7, <1>8, <1>9, <1>10, <1>11, <1>12 DEF Settled

\* register, the entry: a new object without a past.
LEMMA RegisterEntrySettled ==
    ASSUME Typed, Typed', Books, Served, Settled, NEW b \in BootReq, BootRegisterEntry(b)
    PROVE  Settled'
  <1> DEFINE n == boot[b].name
  <1>1. /\ Alive /\ boot[b].pc = "insert" /\ InFlight(b) /\ n \in Name
        /\ UNCHANGED <<sock, pidfile, live, stop, main, nets, network, netPc>>
    BY DEF BootRegisterEntry, BootStep, InFlight, Typed, GoodBoot
  <1>2. /\ boot'[b].name = n /\ boot'[b].pc = "find"
        /\ \A c \in BootReq : c # b => boot'[c] = boot[c]
    BY GotoEffect DEF BootRegisterEntry, BootPc
  <1>3. members'[n] = b /\ \A m \in Name : m # n => members'[m] = members[m]
    BY <1>1 DEF BootRegisterEntry, Typed
  <1>4. \A o \in Obj : mem'[o].vm = mem[o].vm /\ mem'[o].retired = mem[o].retired
    BY DEF BootRegisterEntry, Typed, MemRec
  <1>5. /\ members[n] = None /\ b \notin live /\ b # None
        /\ mem[b].retired = "no" /\ mem[b].vm = None
    BY <1>1, NoVMYet, HolderAssumption DEF Served, Vacant, Launched, Settled, Unborn, Early
  <1>6. \A c \in BootReq : InFlight(c) /\ boot[c].name = n => c = b
    BY <1>1 DEF Books, OneBoot
  <1>7. b \notin main.before
    BY <1>1, NotBefore
  <1>8. Apart'
    BY <1>1, <1>2 DEF Settled, Apart, InFlight, StopInFlight
  <1>9. Registered'
    BY <1>1, <1>3, <1>4, <1>5, Handles DEF Settled, Registered
  <1>10. Unborn'
    BY <1>1, <1>2, <1>4 DEF Settled, Unborn, Early
  <1>11. BootKeeps'
    <2>1. ASSUME NEW c \in BootReq, boot'[c].pc \in Bringing
          PROVE  /\ Guarded(boot[c].name)' => /\ members'[boot'[c].name] = boot'[c].obj
                                               /\ mem'[boot'[c].obj].retired = "no"
                 /\ boot'[c].pc \in Building => mem'[boot'[c].obj].vm = None
                 /\ boot'[c].pc \in Launched => c \in live'
      <3>1. c # b /\ boot'[c] = boot[c]
        BY <2>1, <1>2 DEF Bringing
      <3>2. /\ boot[c].name \in Name /\ boot[c].name # n /\ boot[c].obj \in Obj
        BY <2>1, <3>1, <1>6, MoreHandles
      <3>3. \A d \in Held : d # b /\ d \in BootReq
        BY <1>5 DEF Held, Typed
      <3>4. Guarded(boot[c].name)' => Guarded(boot[c].name)
        BY <1>1, <1>2, <3>1, <3>3 DEF Guarded, Held, Kept
      <3> QED
        BY <2>1, <3>1, <3>2, <3>4, <1>1, <1>3, <1>4 DEF Settled, BootKeeps
    <2> QED
      BY <2>1 DEF BootKeeps, Building, Launched, Bringing
  <1>12. VMOwner'
    BY <1>1, <1>2, <1>4, MoreHandles, HolderAssumption DEF Settled, VMOwner
  <1>20. Held' = Held /\ (Held \subseteq live) /\ \A c \in live : c \in BootReq /\ c # b
    BY <1>1, <1>5 DEF Held, Kept, Typed
  <1>13. LiveHeld'
    <2>1. \A c \in live : boot'[c].pc \in Launched \cup {"replied"}
      BY <1>1, <1>2, <1>20 DEF Settled, LiveHeld
    <2>2. ASSUME NEW c \in Held, boot[c].pc \notin Launched
          PROVE  /\ boot'[c].pc = "replied" /\ boot'[c].name \in Name
                 /\ members'[boot'[c].name] # None /\ mem'[members'[boot'[c].name]].vm = c
      <3>1. /\ boot[c].pc = "replied" /\ boot[c].name \in Name /\ boot'[c] = boot[c]
            /\ members[boot[c].name] # None /\ mem[members[boot[c].name]].vm = c
        BY <2>2, <1>1, <1>2, <1>20 DEF Settled, LiveHeld
      <3>2. members'[boot[c].name] = members[boot[c].name] /\ members[boot[c].name] \in Obj
        BY <3>1, <1>3, <1>5, Handles
      <3> QED
        BY <3>1, <3>2, <1>4
    <2>3. \A c \in Held : boot'[c] = boot[c]
      BY <1>2, <1>20
    <2> QED
      BY <2>1, <2>2, <2>3, <1>1, <1>20 DEF LiveHeld
  <1>21. Sole'
    <2>1. \A c \in live : boot'[c].name = boot[c].name
      BY <1>2, <1>20
    <2> QED
      BY <2>1, <1>1, <1>20 DEF Settled, Sole
  <1>19. Elders'
    <2>1. main'.before \subseteq Answered'
      BY <1>1, <1>2 DEF Settled, Elders, Answered, InFlight
    <2> QED
      BY <1>1, <1>2, <1>4, <2>1, MoreHandles DEF Settled, Elders
  <1>14. Halted'
    BY <1>1, <1>4, Handles DEF Settled, Halted, Halting, Working, Retiring, Held, Kept
  <1>15. Down'
    BY <1>1, <1>4 DEF Settled, Down, Held, Kept
  <1>16. VMUp'
    BY <1>1, <1>3, <1>4, <1>5, Handles DEF Settled, VMUp, Doomed
  <1>17. FilesOwned'
    <2>1. ASSUME NEW m \in Name, sock'[m] # None \/ m \in pidfile'
          PROVE  \/ members'[m] # None /\ mem'[members'[m]].retired = "no"
                 \/ \E c \in BootReq : boot'[c].pc = "insert" /\ boot'[c].name = m
      <3>1. CASE m = n
        BY <3>1, <1>3, <1>4, <1>5
      <3>2. CASE m # n
        <4>1. \/ members[m] # None /\ mem[members[m]].retired = "no"
              \/ \E c \in BootReq : boot[c].pc = "insert" /\ boot[c].name = m
          BY <2>1, <1>1 DEF Settled, FilesOwned
        <4>2. members[m] # None => members[m] \in Obj
          BY Handles
        <4> QED
          BY <4>1, <4>2, <3>2, <1>2, <1>3, <1>4
      <3> QED
        BY <3>1, <3>2
    <2> QED
      BY <2>1 DEF FilesOwned
  <1>18. Listed' /\ NetUp'
    BY <1>1, <1>3, <1>4, <1>7, Handles DEF Settled, Listed, NetUp
  <1> QED
    BY <1>1, <1>8, <1>9, <1>10, <1>11, <1>12, <1>13, <1>14, <1>15, <1>16, <1>17, <1>18,
       <1>19, <1>21 DEF Settled

\* markRunning: the VM goes to the member the boot holds, which has none.
LEMMA RunningSettled ==
    ASSUME Typed, Typed', Books, Served, Settled, NEW b \in BootReq, MarkRunning(b),
           mem[boot[b].obj].state # "stopped"
    PROVE  Settled'
  <1> DEFINE n == boot[b].name
             o == boot[b].obj
  <1>1. /\ Alive /\ boot[b].pc = "started" /\ InFlight(b) /\ n \in Name /\ o \in Obj
        /\ UNCHANGED <<members, sock, pidfile, live, stop, main, nets, network, netPc>>
    BY DEF MarkRunning, BootStep, InFlight, Typed, GoodBoot
  <1>2. /\ boot'[b].name = n /\ boot'[b].pc = "replied"
        /\ \A c \in BootReq : c # b => boot'[c] = boot[c]
    BY GotoEffect DEF MarkRunning, BootPc
  <1>3. /\ mem'[o].vm = b /\ \A p \in Obj : p # o => mem'[p] = mem[p]
        /\ \A p \in Obj : mem'[p].retired = mem[p].retired
    BY <1>1 DEF MarkRunning, Typed, MemRec
  <1>4. /\ Guarded(n) => members[n] = o /\ mem[o].retired = "no"
        /\ mem[o].vm = None /\ b \in live
    BY <1>1 DEF Settled, BootKeeps, Bringing, Building, Launched
  <1>5. o # None /\ b # None /\ \A p \in Obj : mem[p].vm # b
    BY <1>1, HolderAssumption DEF Settled, VMOwner
  <1>6. \A s \in StopReq : StopInFlight(s) => stop[s].name # n
    BY <1>1 DEF Settled, Apart
  <1>20. main.pc = "serving" => members[n] = o /\ mem[o].retired = "no"
    BY <1>4 DEF Guarded
  <1>21. main.pc # "serving" => b \notin main.before
    BY <1>1, NotBefore DEF InFlight
  <1>7. main.pc = "serving" => \A s \in StopReq : stop[s].pc \in Working => stop[s].obj # o
    BY <1>20, <1>1, <1>3, <1>4, <1>5, <1>6, Handles, OneName DEF Served, Claims, StopInFlight, Working
  <1>8. \A c \in BootReq : c # b /\ boot[c].pc \in Bringing => boot[c].obj # o
    <2>1. SUFFICES ASSUME NEW c \in BootReq, c # b, boot[c].pc \in Bringing, boot[c].obj = o
                   PROVE  FALSE
      OBVIOUS
    <2>2. boot[c].name \in Name /\ MadeFor(o, boot[c].name) /\ MadeFor(o, n) /\ InFlight(c)
      BY <2>1, <1>1, <1>5, MoreHandles DEF Books, Named
    <2>3. boot[c].name = n
      BY <2>2, <1>1, MadeForOne
    <2> QED
      BY <2>1, <2>2, <2>3, <1>1 DEF Books, OneBoot
  <1>22. o \in BootReq => boot'[o].pc = "replied"
    <2>1. SUFFICES ASSUME o \in BootReq, o # b PROVE boot[o].pc = "replied"
      BY <1>2
    <2>2. boot[o].pc # "idle"
      BY <2>1, <1>1, <1>5 DEF Books, Fresh
    <2>3. MadeFor(o, n)
      BY <1>1, <1>5 DEF Books, Named
    <2>4. boot[o].name = n
      BY <2>1, <2>3, <1>1, HolderAssumption DEF MadeFor
    <2> QED
      BY <2>1, <2>2, <2>4, <1>1 DEF Books, OneBoot, InFlight
  <1>23. \A m : Guarded(m)' => Guarded(m)
    BY <1>1, <1>2, <1>21 DEF Guarded, Held, Kept, Typed
  <1>24. \A c \in BootReq : Guarded(boot[c].name)' => Guarded(boot[c].name)
    <2>1. \A c \in BootReq : boot'[c].name = boot[c].name
      BY <1>2
    <2> QED
      BY <2>1, <1>1 DEF Guarded, Held, Kept, Typed
  <1> HIDE DEF n, o
  <1>9. Apart'
    BY <1>1, <1>2 DEF Settled, Apart, InFlight, StopInFlight
  <1>10. Registered'
    BY <1>1, <1>3, Handles DEF Settled, Registered
  <1>11. Unborn'
    <2>1. o \in BootReq => boot[o].pc \notin Early
      BY <1>1, <1>5, HolderAssumption DEF Books, Fresh, Early, o
    <2> QED
      BY <1>1, <1>2, <1>3, <2>1 DEF Settled, Unborn, Early
  <1>12. BootKeeps'
    <2>1. ASSUME NEW c \in BootReq, boot'[c].pc \in Bringing
          PROVE  /\ Guarded(boot[c].name)' => /\ members'[boot'[c].name] = boot'[c].obj
                                               /\ mem'[boot'[c].obj].retired = "no"
                 /\ boot'[c].pc \in Building => mem'[boot'[c].obj].vm = None
                 /\ boot'[c].pc \in Launched => c \in live'
      <3>1. c # b /\ boot'[c] = boot[c]
        BY <2>1, <1>2 DEF Bringing
      <3>2. boot[c].obj \in Obj /\ boot[c].obj # o
        BY <2>1, <3>1, <1>8, MoreHandles
      <3> QED
        BY <2>1, <3>1, <3>2, <1>1, <1>3, <1>24 DEF Settled, BootKeeps
    <2> QED
      BY <2>1 DEF BootKeeps, Building, Launched, Bringing
  <1>13. VMOwner'
    BY <1>1, <1>2, <1>3, <1>5, MoreHandles DEF Settled, VMOwner
  <1>14. LiveHeld'
    <2>1. ASSUME NEW c \in Held, c # b, boot[c].pc \notin Launched
          PROVE  /\ boot'[c].pc = "replied" /\ boot'[c].name \in Name
                 /\ members'[boot'[c].name] # None /\ mem'[members'[boot'[c].name]].vm = c
      <3>1. c \in BootReq /\ boot'[c] = boot[c]
        BY <2>1, <1>2 DEF Typed, Held
      <3>2. /\ boot[c].pc = "replied" /\ boot[c].name \in Name
            /\ members[boot[c].name] # None /\ mem[members[boot[c].name]].vm = c
        BY <2>1, <1>1 DEF Settled, LiveHeld
      <3>3. members[boot[c].name] \in Obj /\ members[boot[c].name] # o
        BY <2>1, <3>1, <3>2, <1>4, Handles, HolderAssumption
      <3> QED
        BY <3>1, <3>2, <3>3, <1>1, <1>3
    <2>2. main.pc = "serving" =>
             /\ boot'[b].pc = "replied" /\ boot'[b].name \in Name
             /\ members'[boot'[b].name] # None /\ mem'[members'[boot'[b].name]].vm = b
      BY <1>1, <1>2, <1>3, <1>20, <1>5
    <2>3. \A c \in live : c # b => c \in BootReq /\ boot'[c] = boot[c]
      BY <1>2 DEF Typed
    <2>4. \A c \in live : boot'[c].pc \in Launched \cup {"replied"}
      <3>1. \A c \in live : c # b => boot'[c].pc \in Launched \cup {"replied"}
        BY <2>3, <1>1 DEF Settled, LiveHeld
      <3> QED
        BY <3>1, <1>2
    <2>5. Held' = Held /\ Held \subseteq live
      BY <1>1 DEF Held, Kept
    <2>6. b \in Held => main.pc = "serving"
      BY <1>21 DEF Held, Kept
    <2> QED
      BY <2>1, <2>2, <2>3, <2>4, <2>5, <2>6, <1>1 DEF LiveHeld
  <1>25. Sole'
    <2>1. \A c \in live : boot'[c].name = boot[c].name
      BY <1>2 DEF Typed, n
    <2>2. Held' = Held /\ Held \subseteq live
      BY <1>1 DEF Held, Kept
    <2> QED
      BY <2>1, <2>2, <1>1 DEF Settled, Sole
  <1>26. Elders'
    <2>1. main'.before \subseteq Answered'
      BY <1>1, <1>2 DEF Settled, Elders, Answered
    <2>2. \A p \in BootReq : mem'[p].vm # None => boot'[p].pc = "replied"
      <3>1. ASSUME NEW p \in BootReq, mem'[p].vm # None PROVE boot'[p].pc = "replied"
        <4>1. CASE p = o
          BY <4>1, <1>22
        <4>2. CASE p # o
          BY <4>2, <3>1, <1>1, <1>2, <1>3 DEF Settled, Elders
        <4> QED
          BY <4>1, <4>2
      <3> QED
        BY <3>1
    <2>3. \A p \in BootReq : mem'[p].vm \in main.before => p \in main.before
      <3>1. ASSUME NEW p \in BootReq, mem'[p].vm \in main.before PROVE p \in main.before
        <4>1. CASE p = o
          BY <4>1, <3>1, <1>3, <1>1, NotBefore
        <4>2. CASE p # o
          BY <4>2, <3>1, <1>1, <1>3 DEF Settled, Elders
        <4> QED
          BY <4>1, <4>2
      <3> QED
        BY <3>1
    <2> QED
      BY <2>1, <2>2, <2>3, <1>1, <1>2, MoreHandles DEF Settled, Elders
  <1>15. Halted'
    <2>1. ASSUME NEW p \in Obj, Kept(mem'[p].vm), p = o
          PROVE  main.pc = "serving"
      BY <2>1, <1>3, <1>21 DEF Kept
    <2>2. ASSUME NEW s \in StopReq
          PROVE  /\ stop[s].pc = "halt" /\ Kept(mem'[stop[s].obj].vm)
                      => stop[s].vm = mem'[stop[s].obj].vm
                 /\ stop[s].pc \in Halting => mem'[stop[s].obj].vm \notin Held
      <3>1. stop[s].pc \in Halting \cup {"halt"} => stop[s].obj \in Obj /\ stop[s].pc \in Working
        BY Handles DEF Halting, Working
      <3>2. CASE stop[s].obj = o
        BY <2>1, <3>1, <3>2, <1>7, <1>3, <1>21 DEF Held, Kept
      <3>3. CASE stop[s].obj # o
        BY <3>1, <3>3, <1>1, <1>3 DEF Settled, Halted
      <3> QED
        BY <3>2, <3>3
    <2>3. main.pc = "halt" /\ Kept(mem'[main.obj].vm) => main.vm = mem'[main.obj].vm
      <3>1. main.pc = "halt" => main.obj \in Obj
        BY Handles DEF Retiring
      <3> QED
        BY <2>1, <3>1, <1>1, <1>3 DEF Settled, Halted
    <2>4. main.pc \in {"retire", "unregister"} => mem'[main.obj].vm \notin Held
      <3>1. main.pc \in {"retire", "unregister"} => main.obj \in Obj
        BY Handles DEF Retiring
      <3> QED
        BY <3>1, <1>1, <1>3, <1>21 DEF Settled, Halted, Held, Kept
    <2> QED
      BY <2>2, <2>3, <2>4, <1>1 DEF Halted, Held, Kept
  <1>16. Down'
    BY <1>1, <1>3, <1>20, <1>21 DEF Settled, Down, Held, Kept
  <1>17. VMUp'
    <2>1. ASSUME NEW m \in Name, members[m] # None, mem'[members[m]].vm # None,
                 main.pc = "serving"
          PROVE  mem'[members[m]].vm \in live \/ Doomed(members[m])
      <3>1. CASE members[m] = o
        BY <3>1, <1>3, <1>4
      <3>2. CASE members[m] # o
        BY <2>1, <3>2, <1>1, <1>3, Handles DEF Settled, VMUp
      <3> QED
        BY <3>1, <3>2
    <2> QED
      BY <2>1, <1>1 DEF VMUp, Doomed
  <1>18. FilesOwned'
    <2>1. \A c \in BootReq : boot[c].pc = "insert" => boot'[c] = boot[c]
      BY <1>1, <1>2
    <2> QED
      BY <1>1, <1>3, <2>1, Handles DEF Settled, FilesOwned
  <1>19. Listed' /\ NetUp'
    BY <1>1, <1>3, Handles DEF Settled, Listed, NetUp
  <1> QED
    BY <1>1, <1>9, <1>10, <1>11, <1>12, <1>13, <1>14, <1>15, <1>16, <1>17, <1>18, <1>19,
       <1>25, <1>26 DEF Settled

\* A boot of a member that was stopped meanwhile goes on to reap its VM.
LEMMA StoppedSettled ==
    ASSUME Typed, Typed', Books, Settled, NEW b \in BootReq, MarkRunning(b),
           mem[boot[b].obj].state = "stopped"
    PROVE  Settled'
  <1>1. /\ Alive /\ boot[b].pc = "started" /\ InFlight(b)
        /\ UNCHANGED <<members, mem, sock, pidfile, stop, main, nets, network, netPc, live>>
        /\ BootGoto(b, "reap")
    BY DEF MarkRunning, BootStep, InFlight
  <1>2. /\ boot'[b].pc = "reap" /\ boot'[b].name = boot[b].name /\ boot'[b].obj = boot[b].obj
        /\ \A c \in BootReq : c # b => boot'[c] = boot[c]
    BY <1>1, GotoEffect DEF BootPc
  <1>3. /\ Guarded(boot[b].name)
             => members[boot[b].name] = boot[b].obj /\ mem[boot[b].obj].retired = "no"
        /\ mem[boot[b].obj].vm = None /\ b \in live
    BY <1>1 DEF Settled, BootKeeps, Bringing, Building, Launched
  <1>4. \A s \in StopReq : StopInFlight(s) => boot'[b].name # stop[s].name
    BY <1>1, <1>2 DEF Settled, Apart
  <1>5. /\ boot'[b].pc \in Launched /\ boot'[b].pc \notin Early /\ live' = live \cup {b}
        /\ boot[b].pc # "replied" /\ boot[b].pc # "insert" /\ boot'[b].pc # "insert"
    BY <1>1, <1>2, <1>3 DEF Launched, Early
  <1> QED
    BY <1>1, <1>2, <1>3, <1>4, <1>5, FrameBoot

LEMMA BootSettled ==
    ASSUME Orderly, Typed, Typed', Books, Served, Settled, Cleared, NEW b \in BootReq,
           BootWork(b) \/ \E n \in Name : BootBegin(b, n)
    PROVE  Settled' /\ Cleared'
  <1>1. Alive /\ UNCHANGED main
    BY DEF BootWork, BootBegin, BootLookup, BootRegisterFiles, BootRegisterEntry, BootFind,
       BootCheck, BootCreate, BootFail, MarkRunning, BootReap, MarkError, BootDecRunning, BootStep
  <1>2. CASE BootLookup(b) \/ BootCheck(b)
    <2>1. PICK to \in {"register", "find", "replied", "create"} :
              /\ BootGoto(b, to)
              /\ to = "create" => mem[boot[b].obj].vm = None /\ boot[b].pc = "check"
              /\ to = "register" => boot[b].pc = "lookup"
      BY <1>2 DEF BootLookup, BootCheck, BootStep
    <2>2. /\ InFlight(b) /\ boot[b].pc # "insert" /\ boot[b].pc \notin Launched
          /\ UNCHANGED <<members, mem, sock, pidfile, stop, nets, network, netPc, live>>
      BY <1>2 DEF BootLookup, BootCheck, BootStep, InFlight, Launched
    <2>3. /\ to \in Early => boot[b].pc \in Early
          /\ to \in Bringing => boot[b].pc \in Bringing
          /\ to \in Building => mem[boot[b].obj].vm = None
          /\ to \in BootPc /\ to \notin Launched \cup {"insert", "idle"}
      BY <2>1 DEF Early, Bringing, Building, BootPc, Launched
    <2> QED
      BY <2>1, <2>2, <2>3, <1>1, QuietBoot DEF Cleared, Alive
  <1>3. CASE MarkError(b) \/ BootDecRunning(b)
    <2>1. PICK to \in {"dec", "replied"} : BootGoto(b, to)
      BY <1>3 DEF MarkError, BootDecRunning
    <2>2. /\ InFlight(b) /\ boot[b].pc # "insert" /\ boot[b].pc \notin Launched
          /\ UNCHANGED <<members, sock, pidfile, stop, nets, network, netPc, live>>
      BY <1>3 DEF MarkError, BootDecRunning, BootStep, InFlight, Launched
    <2>3. /\ to \notin Early \cup Bringing \cup Building \cup Launched \cup {"insert", "idle"}
          /\ to \in BootPc
      BY <2>1 DEF Early, Bringing, Building, BootPc, Launched
    <2>4. \A o \in Obj : mem'[o].vm = mem[o].vm /\ mem'[o].retired = mem[o].retired
      BY <1>3 DEF MarkError, BootDecRunning, Typed, MemRec
    <2> QED
      BY <2>1, <2>2, <2>3, <2>4, <1>1, QuietBoot DEF Cleared, Alive
  <1>4. CASE BootRegisterFiles(b) \/ BootRegisterEntry(b) \/ BootFind(b)
    BY <1>1, <1>4, RegisterFilesSettled, RegisterEntrySettled, FindSettled DEF Cleared, Alive
  <1>5. CASE BootCreate(b) \/ BootFail(b) \/ BootReap(b)
    BY <1>1, <1>5, LaunchSettled DEF Cleared, Alive
  <1>6. CASE MarkRunning(b)
    BY <1>1, <1>6, RunningSettled, StoppedSettled DEF Cleared, Alive
  <1>7. CASE \E n \in Name : BootBegin(b, n)
    BY <1>1, <1>7, BeginSettled DEF Cleared, Alive
  <1> QED
    BY <1>2, <1>3, <1>4, <1>5, <1>6, <1>7 DEF BootWork

\* A stop that moves on and retires nothing: what must hold of its new place.
LEMMA FrameStop ==
    ASSUME Typed, Typed', Books, Settled, Alive,
           UNCHANGED <<members, sock, pidfile, boot, main, nets, network, netPc>>,
           \A o \in Obj : mem'[o].vm = mem[o].vm /\ mem'[o].retired = mem[o].retired,
           NEW s \in StopReq, stop[s].pc # "unregister", stop'[s].pc # "unregister",
           \A r \in StopReq : r # s => stop'[r] = stop[r],
           StopInFlight(s)' => \A b \in BootReq : InFlight(b) => boot[b].name # stop'[s].name,
           stop'[s].pc = "halt" => stop'[s].vm = mem[stop'[s].obj].vm,
           stop'[s].pc \in Halting => mem[stop'[s].obj].vm \notin Held',
           stop[s].pc \in Halting => \/ stop'[s].pc \in Halting /\ stop'[s].obj = stop[s].obj
                                     \/ mem[stop[s].obj].retired = "yes",
           \/ UNCHANGED live
           \/ /\ live' = live \ {stop[s].vm} /\ stop[s].pc = "halt" /\ stop[s].obj \in Obj
              /\ stop'[s].pc = "mark" /\ stop'[s].obj = stop[s].obj
    PROVE  Settled'
  <1>1. live' \subseteq live
    OBVIOUS
  <1>2. \A b \in BootReq : boot[b].pc \in Launched => (b \in live' <=> b \in live)
    BY HolderAssumption DEF Settled, Elders, Launched
  <1>14. Held' \subseteq Held /\ Held \subseteq live
    BY <1>1 DEF Held, Kept
  <1>15. \A b \in BootReq : Guarded(boot[b].name)' => Guarded(boot[b].name)
    BY <1>14 DEF Guarded
  <1>3. Apart'
    BY DEF Settled, Apart, InFlight, StopInFlight
  <1>4. Registered'
    BY Handles DEF Settled, Registered
  <1>5. Unborn'
    BY DEF Settled, Unborn
  <1>6. BootKeeps'
    <2>1. \A b \in BootReq : boot[b].pc \in Bringing => boot[b].obj \in Obj
      BY MoreHandles
    <2> QED
      BY <1>2, <1>15, <2>1 DEF Settled, BootKeeps, Bringing, Building
  <1>7. VMOwner'
    BY DEF Settled, VMOwner
  <1>8. LiveHeld'
    BY <1>1, <1>14, Handles DEF Settled, LiveHeld
  <1>16. Sole'
    BY <1>1, <1>14 DEF Settled, Sole
  <1>17. Elders'
    <2>1. main'.before \subseteq Answered'
      BY DEF Settled, Elders, Answered
    <2>2. ASSUME NEW r \in StopReq, stop'[r].pc = "halt", stop'[r].vm # None
          PROVE  boot[stop'[r].vm].pc = "replied"
      <3>1. CASE r = s
        <4>1. stop'[s].obj \in Obj
          BY <2>2, <3>1 DEF Typed, GoodStop
        <4> QED
          BY <2>2, <3>1, <4>1 DEF Settled, VMOwner
      <3>2. CASE r # s
        BY <2>2, <3>2 DEF Settled, Elders
      <3> QED
        BY <3>1, <3>2
    <2> QED
      BY <2>1, <2>2, MoreHandles DEF Settled, Elders
  <1>9. Halted'
    <2>1. ASSUME NEW r \in StopReq
          PROVE  /\ stop'[r].pc = "halt" /\ Kept(mem'[stop'[r].obj].vm)
                      => stop'[r].vm = mem'[stop'[r].obj].vm
                 /\ stop'[r].pc \in Halting => mem'[stop'[r].obj].vm \notin Held'
      <3>1. stop'[r].pc \in Halting \cup {"halt"} => stop'[r].obj \in Obj
        BY DEF Typed, GoodStop, Halting
      <3>2. CASE r = s
        BY <3>1, <3>2
      <3>3. CASE r # s
        BY <3>1, <3>3, <1>14 DEF Settled, Halted
      <3> QED
        BY <3>2, <3>3
    <2>2. /\ main'.pc = "halt" /\ Kept(mem'[main'.obj].vm) => main'.vm = mem'[main'.obj].vm
          /\ main'.pc \in {"retire", "unregister"} => mem'[main'.obj].vm \notin Held'
      BY <1>14, Handles DEF Settled, Halted, Retiring
    <2> QED
      BY <2>1, <2>2 DEF Halted, Kept
  <1>10. Down'
    BY <1>14 DEF Settled, Down
  <1>11. VMUp'
    <2>1. ASSUME NEW n \in Name, members[n] # None, mem[members[n]].vm # None,
                 mem[members[n]].vm \notin live', main.pc = "serving"
          PROVE  Doomed(members[n])'
      <3>1. members[n] \in Obj /\ mem[members[n]].retired # "yes"
        BY <2>1, Handles DEF Settled, Registered
      <3>2. CASE mem[members[n]].vm \in live
        <4>1. mem[members[n]].vm = mem[stop[s].obj].vm /\ stop[s].obj \in Obj
          BY <2>1, <3>2 DEF Settled, Halted, Kept
        <4>2. members[n] = stop[s].obj
          BY <2>1, <3>1, <4>1 DEF Settled, VMOwner
        <4>3. stop'[s].pc = "mark" /\ stop'[s].obj = stop[s].obj
          BY <2>1, <3>2
        <4> QED
          BY <4>2, <4>3 DEF Doomed, Halting
      <3>3. CASE mem[members[n]].vm \notin live
        <4>1. Doomed(members[n])
          BY <2>1, <3>3 DEF Settled, VMUp
        <4>2. PICK r \in StopReq : stop[r].pc \in Halting /\ stop[r].obj = members[n]
          BY <4>1 DEF Doomed
        <4>3. stop'[r].pc \in Halting /\ stop'[r].obj = members[n]
          BY <4>2, <3>1
        <4> QED
          BY <4>3 DEF Doomed
      <3> QED
        BY <3>2, <3>3
    <2>2. \A n \in Name : members[n] # None => members[n] \in Obj
      BY Handles
    <2> QED
      BY <2>1, <2>2 DEF VMUp
  <1>12. FilesOwned'
    BY Handles DEF Settled, FilesOwned
  <1>13. Listed' /\ NetUp'
    BY Handles DEF Settled, Listed, NetUp
  <1> QED
    BY <1>3, <1>4, <1>5, <1>6, <1>7, <1>8, <1>9, <1>10, <1>11, <1>12, <1>13,
       <1>16, <1>17 DEF Settled

\* The object that is being retired, by stopMember or stopAll: it is the registered
\* one, its birth is past, and while the process serves no boot holds it.
LEMMA RetireeAlone ==
    ASSUME Typed, Books, Served, Settled, Alive, NEW n \in Name, NEW o \in Obj,
           members[n] = o,
           main.pc # "serving" \/ \E s \in StopReq : StopInFlight(s) /\ stop[s].name = n
    PROVE  /\ main.pc = "serving"
                => \A b \in BootReq : boot[b].pc \in Bringing => boot[b].obj # o
           /\ \A b \in BootReq : boot[b].pc \in Early => b # o
           /\ \A m \in Name : m # n => members[m] # o
           /\ \A b \in BootReq : boot[b].pc = "insert" => boot[b].name # n
           /\ o # None
  <1>1. o # None
    BY HolderAssumption
  <1>2. \A m \in Name : m # n => members[m] # o
    BY <1>1, OneName
  <1>3. main.pc = "serving" => \A b \in BootReq : InFlight(b) => boot[b].name # n
    BY DEF Settled, Apart
  <1>4. main.pc = "serving"
           => \A b \in BootReq : boot[b].pc \in Bringing => boot[b].obj # o
    BY <1>2, <1>3, MoreHandles DEF Settled, BootKeeps, Guarded
  <1>5. \A b \in BootReq : boot[b].pc \in Early => b # o
    BY <1>1 DEF Books, Fresh, Early
  <1>6. \A b \in BootReq : boot[b].pc = "insert" => boot[b].name # n
    BY <1>1 DEF Served, Vacant
  <1> QED
    BY <1>1, <1>2, <1>4, <1>5, <1>6

\* Both halves of retire leave the boots, the VMs and the other members alone.
LEMMA RetireSettled ==
    ASSUME Typed, Typed', Books, Served, Settled, Alive,
           UNCHANGED <<boot, live, nets, network, netPc>>,
           NEW n \in Name, NEW o \in Obj, members[n] = o, mem[o].vm \notin Held,
           main'.before = main.before, main'.pc = "serving" <=> main.pc = "serving",
           \A s \in StopReq : stop'[s].pc = "halt" => stop'[s] = stop[s],
           main'.pc = "halt" => main' = main,
           main.pc # "serving" \/ \E s \in StopReq : StopInFlight(s) /\ stop[s].name = n,
           \/ RetireFiles(n, o)
           \/ RetireEntry(n, o) /\ mem[o].retired = "unlinked" /\ UNCHANGED <<sock, pidfile>>
    PROVE  /\ Unborn' /\ BootKeeps' /\ VMOwner' /\ Elders' /\ LiveHeld' /\ Sole' /\ Down'
           /\ FilesOwned'
  <1>1. /\ main.pc = "serving"
             => \A b \in BootReq : boot[b].pc \in Bringing => boot[b].obj # o
        /\ \A b \in BootReq : boot[b].pc \in Early => b # o
        /\ \A m \in Name : m # n => members[m] # o
        /\ \A b \in BootReq : boot[b].pc = "insert" => boot[b].name # n
        /\ o # None
    BY RetireeAlone
  <1>2. /\ \A p \in Obj : p # o => mem'[p] = mem[p]
        /\ \A p \in Obj : mem'[p].vm = mem[p].vm
        /\ mem'[o].retired # "no"
        /\ \A m \in Name : m # n => /\ members'[m] = members[m] /\ sock'[m] = sock[m]
                                    /\ m \in pidfile' <=> m \in pidfile
        /\ \/ members'[n] = o /\ sock'[n] = None /\ n \notin pidfile'
           \/ /\ members'[n] = None /\ UNCHANGED <<sock, pidfile>>
              /\ mem[o].retired = "unlinked"
    BY FilesEffect, EntryEffect
  <1>3. Unborn'
    BY <1>1, <1>2 DEF Settled, Unborn
  <1>9. Held' = Held /\ Held \subseteq live
    BY DEF Held, Kept
  <1>10. \A b \in BootReq : Guarded(boot[b].name)' => Guarded(boot[b].name)
    BY <1>9 DEF Guarded
  <1>4. BootKeeps'
    <2>1. ASSUME NEW b \in BootReq, boot[b].pc \in Bringing, Guarded(boot[b].name)
          PROVE  members'[boot[b].name] = boot[b].obj /\ mem'[boot[b].obj].retired = "no"
      <3>1. /\ boot[b].obj \in Obj /\ boot[b].name \in Name
            /\ members[boot[b].name] = boot[b].obj /\ mem[boot[b].obj].retired = "no"
        BY <2>1, MoreHandles DEF Settled, BootKeeps
      <3>2. boot[b].obj # o
        <4>1. CASE main.pc = "serving"
          BY <4>1, <2>1, <1>1
        <4>2. CASE main.pc # "serving"
          <5>1. PICK c \in Held : boot[c].name = boot[b].name
            BY <2>1, <4>2 DEF Guarded
          <5>2. c \in BootReq /\ boot[c].pc \notin Launched
            BY <5>1, <4>2, NotBefore DEF Held, Kept, Launched, Typed
          <5>3. mem[boot[b].obj].vm = c
            BY <3>1, <5>1, <5>2 DEF Settled, LiveHeld
          <5> QED
            BY <5>1, <5>3
        <4> QED
          BY <4>1, <4>2
      <3> QED
        BY <3>1, <3>2, <1>1, <1>2
    <2>2. ASSUME NEW b \in BootReq, boot[b].pc \in Building
          PROVE  mem'[boot[b].obj].vm = None
      <3>1. boot[b].obj \in Obj /\ mem[boot[b].obj].vm = None
        BY <2>2, MoreHandles DEF Settled, BootKeeps, Building, Bringing
      <3> QED
        BY <3>1, <1>2
    <2> QED
      BY <2>1, <2>2, <1>10 DEF Settled, BootKeeps
  <1>5. VMOwner'
    BY <1>2 DEF Settled, VMOwner
  <1>11. Elders'
    <2>1. main'.before \subseteq Answered'
      BY DEF Settled, Elders, Answered
    <2>2. \A b \in BootReq : mem'[b].vm = mem[b].vm
      BY <1>2 DEF Obj
    <2>3. \A s \in StopReq : stop'[s].pc = "halt" /\ stop'[s].vm # None
             => boot[stop'[s].vm].pc = "replied"
      BY DEF Settled, Elders
    <2> QED
      BY <2>1, <2>2, <2>3 DEF Settled, Elders
  <1>12. Sole'
    BY <1>9 DEF Settled, Sole
  <1>6. LiveHeld'
    <2>1. ASSUME NEW b \in Held, boot[b].pc \notin Launched
          PROVE  /\ boot[b].pc = "replied" /\ boot[b].name \in Name
                 /\ members'[boot[b].name] # None /\ mem'[members'[boot[b].name]].vm = b
      <3>1. /\ boot[b].pc = "replied" /\ boot[b].name \in Name
            /\ members[boot[b].name] # None /\ mem[members[boot[b].name]].vm = b
        BY <2>1 DEF Settled, LiveHeld
      <3>2. boot[b].name # n /\ members[boot[b].name] \in Obj
        BY <3>1, <2>1, Handles
      <3> QED
        BY <3>1, <3>2, <1>2
    <2> QED
      BY <2>1, <1>9 DEF Settled, LiveHeld
  <1>7. Down'
    BY <1>2, <1>9 DEF Settled, Down
  <1>8. FilesOwned'
    <2>1. ASSUME NEW m \in Name, sock'[m] # None \/ m \in pidfile'
          PROVE  \/ members'[m] # None /\ mem'[members'[m]].retired = "no"
                 \/ \E b \in BootReq : boot[b].pc = "insert" /\ boot[b].name = m
      <3>1. CASE m = n
        <4>1. \/ members[n] # None /\ mem[members[n]].retired = "no"
              \/ \E b \in BootReq : boot[b].pc = "insert" /\ boot[b].name = n
          BY <2>1, <3>1, <1>2 DEF Settled, FilesOwned
        <4> QED
          BY <2>1, <3>1, <4>1, <1>1, <1>2
      <3>2. CASE m # n
        <4>1. members[m] # None => members[m] \in Obj
          BY Handles
        <4> QED
          BY <2>1, <3>2, <4>1, <1>1, <1>2 DEF Settled, FilesOwned
      <3> QED
        BY <3>1, <3>2
    <2> QED
      BY <2>1 DEF FilesOwned
  <1> QED
    BY <1>3, <1>4, <1>5, <1>6, <1>7, <1>8, <1>11, <1>12

LEMMA StopRetireSettled ==
    ASSUME Typed, Typed', Books, Served, Settled, NEW s \in StopReq, StopRetire(s),
           RetireFiles(stop[s].name, stop[s].obj), StopGoto(s, "unregister")
    PROVE  Settled'
  <1> DEFINE n == stop[s].name
             o == stop[s].obj
  <1>1. /\ Alive /\ UNCHANGED <<main, boot, network, netPc>>
        /\ n \in Name /\ o \in Obj /\ stop[s].pc = "retire"
    BY DEF StopRetire, StopStep, Typed, GoodStop
  <1>2. /\ stop'[s].pc = "unregister" /\ stop'[s].name = n /\ stop'[s].obj = o
        /\ \A r \in StopReq : r # s => stop'[r] = stop[r]
    BY StopEffect DEF StopGoto
  <1>3. RetireFiles(n, o)
    OBVIOUS
  <1>4. /\ mem[o].retired = "no" /\ mem'[o].retired = "unlinked"
        /\ \A p \in Obj : p # o => mem'[p] = mem[p]
        /\ \A p \in Obj : mem'[p].vm = mem[p].vm
        /\ UNCHANGED <<members, nets, live>>
    BY <1>1, <1>3, FilesEffect
  <1>5. members[n] = o /\ mem[o].vm \notin Held
    BY <1>1, <1>4 DEF Served, Claims, Working, Settled, Halted, Halting
  <1>6. \E r \in StopReq : StopInFlight(r) /\ stop[r].name = n
    BY <1>1 DEF StopInFlight
  <1> HIDE DEF n, o
  <1>7. /\ Unborn' /\ BootKeeps' /\ VMOwner' /\ Elders' /\ LiveHeld' /\ Sole' /\ Down'
        /\ FilesOwned'
    <2>1. \A r \in StopReq : stop'[r].pc = "halt" => stop'[r] = stop[r]
      BY <1>2
    <2> QED
      BY <2>1, <1>1, <1>3, <1>4, <1>5, <1>6, RetireSettled
  <1>8. Apart'
    BY <1>1, <1>2 DEF Settled, Apart, InFlight, StopInFlight, n
  <1>9. Registered'
    BY <1>1, <1>2, <1>4, <1>5, Handles DEF Settled, Registered
  <1>10. Halted'
    BY <1>1, <1>2, <1>4, <1>5, Handles
    DEF Settled, Halted, Halting, Working, Retiring, Held, Kept
  <1>11. VMUp'
    BY <1>1, <1>2, <1>4, Handles DEF Settled, VMUp, Doomed, Halting, o
  <1>12. Listed' /\ NetUp'
    BY <1>1, <1>4, Handles DEF Settled, Listed, NetUp
  <1> QED
    BY <1>7, <1>8, <1>9, <1>10, <1>11, <1>12 DEF Settled

LEMMA StopUnregisterSettled ==
    ASSUME Typed, Typed', Books, Served, Settled, NEW s \in StopReq, StopUnregister(s)
    PROVE  Settled'
  <1> DEFINE n == stop[s].name
             o == stop[s].obj
  <1>1. /\ Alive /\ UNCHANGED <<main, boot, sock, pidfile, network, netPc, nets, live>>
        /\ n \in Name /\ o \in Obj /\ stop[s].pc = "unregister"
    BY DEF StopUnregister, StopStep, Typed, GoodStop
  <1>2. /\ stop'[s].pc = "replied"
        /\ \A r \in StopReq : r # s => stop'[r] = stop[r]
    BY StopEndEffect DEF StopUnregister
  <1>3. RetireEntry(n, o)
    BY DEF StopUnregister
  <1>4. /\ mem[o].retired = "unlinked" /\ members[n] = o /\ mem[o].vm \notin Held
    BY <1>1 DEF Served, Claims, Unlinkers, Working, Settled, Halted, Halting
  <1>5. /\ mem'[o].retired = "yes"
        /\ \A p \in Obj : p # o => mem'[p] = mem[p]
        /\ \A p \in Obj : mem'[p].vm = mem[p].vm
        /\ members'[n] = None
        /\ \A m \in Name : m # n => members'[m] = members[m]
    BY <1>1, <1>3, EntryEffect
  <1>6. \E r \in StopReq : StopInFlight(r) /\ stop[r].name = n
    BY <1>1 DEF StopInFlight
  <1>7. \A m \in Name : m # n => members[m] # o
    BY <1>1, <1>4, <1>6, RetireeAlone
  <1> HIDE DEF n, o
  <1>8. /\ Unborn' /\ BootKeeps' /\ VMOwner' /\ Elders' /\ LiveHeld' /\ Sole' /\ Down'
        /\ FilesOwned'
    <2>1. \A r \in StopReq : stop'[r].pc = "halt" => stop'[r] = stop[r]
      BY <1>2
    <2> QED
      BY <2>1, <1>1, <1>3, <1>4, <1>6, RetireSettled
  <1>9. Apart'
    BY <1>1, <1>2 DEF Settled, Apart, InFlight, StopInFlight
  <1>10. Registered'
    BY <1>1, <1>2, <1>5, <1>7, Handles DEF Settled, Registered, o
  <1>11. Halted'
    BY <1>1, <1>2, <1>5, Handles DEF Settled, Halted, Halting, Working, Retiring, Held, Kept
  <1>12. VMUp'
    BY <1>1, <1>2, <1>5, <1>7, Handles DEF Settled, VMUp, Doomed, o
  <1>13. Listed'
    <2>1. \A m \in Name : (members'[m] # None /\ mem'[members'[m]].retired = "no")
             => members'[m] = members[m] /\ members[m] \in Obj /\ mem[members[m]].retired = "no"
      BY <1>5, <1>7, Handles
    <2> QED
      BY <1>1, <2>1 DEF Settled, Listed
  <1>14. NetUp'
    BY <1>1 DEF Settled, NetUp
  <1> QED
    BY <1>8, <1>9, <1>10, <1>11, <1>12, <1>13, <1>14 DEF Settled

LEMMA StopSettled ==
    ASSUME Orderly, Typed, Typed', Books, Served, Settled, Cleared, NEW s \in StopReq,
           StopWork(s) \/ \E n \in Name : StopBegin(s, n)
    PROVE  Settled' /\ Cleared'
  <1>1. Alive /\ UNCHANGED <<main, boot>>
    BY DEF StopWork, StopBegin, StopLookup, StopReadVM, StopVM, MarkStopped, StopDecRunning,
       StopRetire, StopUnregister, StopStep
  <1>2. Cleared'
    BY <1>1 DEF Cleared, Alive
  <1>3. CASE \E n \in Name : StopBegin(s, n)
    <2>1. PICK n \in Name : StopBegin(s, n)
      BY <1>3
    <2>2. /\ UNCHANGED <<members, mem, sock, pidfile, live, nets, network, netPc>>
          /\ stop[s].pc = "idle" /\ stop'[s].pc = "lookup" /\ stop'[s].name = n
          /\ \A r \in StopReq : r # s => stop'[r] = stop[r]
      BY <2>1 DEF StopBegin, StopStep, Typed
    <2>3. \A b \in BootReq : InFlight(b) => boot[b].name # n
      BY <2>1 DEF StopBegin, MayStop, Allowed, Orderly, BootsOf, InFlight
    <2>4. stop'[s].pc \notin Halting /\ stop[s].pc \notin Halting
      BY <2>2 DEF Halting
    <2> QED
      BY <1>1, <1>2, <2>2, <2>3, <2>4, FrameStop
  <1>4. CASE StopLookup(s)
    <2>1. /\ UNCHANGED <<members, mem, sock, pidfile, live, nets, network, netPc>>
          /\ stop[s].pc = "lookup"
      BY <1>4 DEF StopLookup, StopStep
    <2>2. /\ stop'[s].pc = "replied" \/ (stop'[s].pc = "read" /\ stop'[s].name = stop[s].name)
          /\ \A r \in StopReq : r # s => stop'[r] = stop[r]
      BY <1>4, StopEffect, StopEndEffect DEF StopLookup
    <2>3. stop'[s].pc \notin Halting /\ stop[s].pc \notin Halting
      BY <2>1, <2>2 DEF Halting
    <2>4. StopInFlight(s)' => \A b \in BootReq : InFlight(b) => boot[b].name # stop'[s].name
      BY <1>1, <2>1, <2>2 DEF Settled, Apart, StopInFlight
    <2> QED
      BY <1>1, <1>2, <2>1, <2>2, <2>3, <2>4, FrameStop
  <1>5. CASE StopReadVM(s)
    <2>1. /\ UNCHANGED <<members, mem, sock, pidfile, live, nets, network, netPc>>
          /\ stop[s].pc = "read"
      BY <1>5 DEF StopReadVM, StopStep
    <2>2. /\ stop'[s].pc = "halt" /\ stop'[s].name = stop[s].name /\ stop'[s].obj = stop[s].obj
          /\ stop'[s].vm = mem[stop[s].obj].vm
          /\ \A r \in StopReq : r # s => stop'[r] = stop[r]
      BY <1>5, StopEffect DEF StopReadVM
    <2>3. stop'[s].pc \notin Halting /\ stop[s].pc \notin Halting
      BY <2>1, <2>2 DEF Halting
    <2>4. StopInFlight(s)' => \A b \in BootReq : InFlight(b) => boot[b].name # stop'[s].name
      BY <1>1, <2>1, <2>2 DEF Settled, Apart, StopInFlight
    <2> QED
      BY <1>1, <1>2, <2>1, <2>2, <2>3, <2>4, FrameStop
  <1>6. CASE StopVM(s)
    <2>1. /\ UNCHANGED <<members, mem, sock, pidfile, nets, network, netPc>>
          /\ stop[s].pc = "halt" /\ stop[s].obj \in Obj
      BY <1>6 DEF StopVM, StopStep, Typed, GoodStop
    <2>2. /\ stop'[s].pc = "mark" /\ stop'[s].name = stop[s].name /\ stop'[s].obj = stop[s].obj
          /\ \A r \in StopReq : r # s => stop'[r] = stop[r]
      BY <1>6, StopEffect DEF StopVM, StopGoto
    <2>3. live' = live \ {stop[s].vm}
      BY <1>6, OneWay DEF StopVM
    <2>6. mem[stop[s].obj].vm \notin Held'
      BY <1>1, <2>1, <2>3 DEF Settled, Halted, Held, Kept
    <2>4. StopInFlight(s)' => \A b \in BootReq : InFlight(b) => boot[b].name # stop'[s].name
      BY <1>1, <2>1, <2>2 DEF Settled, Apart, StopInFlight
    <2>5. stop[s].pc \notin Halting
      BY <2>1 DEF Halting
    <2> QED
      BY <1>1, <1>2, <2>1, <2>2, <2>3, <2>4, <2>5, <2>6, FrameStop
  <1>7. CASE MarkStopped(s) \/ StopDecRunning(s)
    <2>1. /\ UNCHANGED <<members, sock, pidfile, live, nets, network, netPc>>
          /\ stop[s].pc \in {"mark", "dec"}
      BY <1>7 DEF MarkStopped, StopDecRunning, StopStep
    <2>2. /\ stop'[s].pc \in {"dec", "retire"} /\ stop'[s].name = stop[s].name
          /\ stop'[s].obj = stop[s].obj
          /\ \A r \in StopReq : r # s => stop'[r] = stop[r]
      BY <1>7, StopEffect DEF MarkStopped, StopDecRunning, StopGoto
    <2>3. \A o \in Obj : mem'[o].vm = mem[o].vm /\ mem'[o].retired = mem[o].retired
      BY <1>7 DEF MarkStopped, StopDecRunning, Typed, MemRec
    <2>4. StopInFlight(s)' => \A b \in BootReq : InFlight(b) => boot[b].name # stop'[s].name
      BY <1>1, <2>1, <2>2 DEF Settled, Apart, StopInFlight
    <2>5. /\ stop[s].pc \in Halting /\ stop'[s].pc \in Halting
          /\ mem[stop'[s].obj].vm \notin Held'
      BY <1>1, <2>1, <2>2 DEF Halting, Settled, Halted, Held, Kept
    <2> QED
      BY <1>1, <1>2, <2>1, <2>2, <2>3, <2>4, <2>5, FrameStop
  <1>8. CASE StopRetire(s) /\ mem[stop[s].obj].retired = "yes" /\ StopEnd(s)
             /\ UNCHANGED <<registry, host>>
    <2>1. /\ UNCHANGED <<network, netPc>> /\ stop[s].pc = "retire"
      BY <1>8 DEF StopRetire, StopStep
    <2>2. /\ stop'[s].pc = "replied"
          /\ \A r \in StopReq : r # s => stop'[r] = stop[r]
      BY <1>8, StopEndEffect
    <2>3. stop'[s].pc \notin Halting
      BY <2>2 DEF Halting
    <2>4. ~StopInFlight(s)'
      BY <2>2 DEF StopInFlight
    <2> QED
      BY <1>1, <1>2, <1>8, <2>1, <2>2, <2>3, <2>4, FrameStop
  <1>9. CASE StopRetire(s) /\ RetireFiles(stop[s].name, stop[s].obj) /\ StopGoto(s, "unregister")
    BY <1>2, <1>9, StopRetireSettled
  <1>10. CASE StopUnregister(s)
    BY <1>2, <1>10, StopUnregisterSettled
  <1> QED
    BY <1>3, <1>4, <1>5, <1>6, <1>7, <1>8, <1>9, <1>10 DEF StopWork, StopRetire

\* The main goroutine between two halves of retire: it changes no member.
LEMMA FrameMain ==
    ASSUME Typed, Typed', Settled, Alive, Alive',
           UNCHANGED <<members, mem, sock, pidfile, boot, stop, network, netPc>>,
           main.pc # "serving", main'.pc # "serving", main'.before = main.before,
           main'.pc # "unregister", main.pc # "unregister",
           live' \subseteq live,
           \A b \in BootReq : boot[b].pc \in Launched => b \in live',
           Listed', NetUp',
           main'.pc = "halt" => main'.vm = mem[main'.obj].vm /\ main'.obj \in Obj,
           main'.pc = "retire" => mem[main'.obj].vm \notin Held'
    PROVE  Settled'
  <1>1. Registered' /\ Unborn' /\ VMOwner' /\ FilesOwned' /\ VMUp'
    BY DEF Settled, Registered, Unborn, VMOwner, FilesOwned, VMUp
  <1>2. Apart'
    BY DEF Settled, Apart, InFlight, StopInFlight
  <1>3. (Held' \subseteq Held) /\ (Held \subseteq live) /\ (\A v : Kept(v)' <=> Kept(v))
    BY DEF Held, Kept
  <1>4. \A b \in BootReq : Guarded(boot[b].name)' => Guarded(boot[b].name)
    BY <1>3 DEF Guarded
  <1>5. BootKeeps'
    BY <1>4 DEF Settled, BootKeeps
  <1>6. LiveHeld' /\ Sole' /\ Down'
    BY <1>3 DEF Settled, LiveHeld, Sole, Down
  <1>7. Elders'
    <2>1. main'.before \subseteq Answered'
      BY DEF Settled, Elders, Answered
    <2>2. main'.pc = "halt" /\ main'.vm # None => boot[main'.vm].pc = "replied"
      BY DEF Settled, VMOwner
    <2> QED
      BY <2>1, <2>2 DEF Settled, Elders
  <1>8. Halted'
    <2>1. \A s \in StopReq :
             /\ stop[s].pc = "halt" /\ Kept(mem[stop[s].obj].vm)'
                  => stop[s].vm = mem[stop[s].obj].vm
             /\ stop[s].pc \in Halting => mem[stop[s].obj].vm \notin Held'
      BY <1>3 DEF Settled, Halted, Kept
    <2> QED
      BY <2>1 DEF Halted
  <1> QED
    BY <1>1, <1>2, <1>5, <1>6, <1>7, <1>8 DEF Settled

\* While the process serves, no two VMs of one name run.
LEMMA ServingSole ==
    ASSUME Typed, Books, Settled, main.pc = "serving", NEW b \in live, NEW c \in live,
           boot[b].name = boot[c].name, b # c
    PROVE  FALSE
  <1>1. Alive /\ b \in BootReq /\ c \in BootReq /\ live = Held /\ \A n : Guarded(n)
    BY DEF Alive, Typed, Held, Kept, Guarded
  <1>2. ASSUME NEW d \in live, NEW e \in live, boot[d].name = boot[e].name, d # e,
               d \in BootReq, e \in BootReq, boot[d].pc \in Launched
        PROVE  FALSE
    <2>1. boot[e].pc \notin Launched
      BY <1>1, <1>2 DEF Books, OneBoot, InFlight, Launched
    <2>2. mem[members[boot[e].name]].vm = e /\ e # None
      BY <1>1, <1>2, <2>1, HolderAssumption DEF Settled, LiveHeld
    <2>3. mem[members[boot[d].name]].vm = None
      BY <1>1, <1>2 DEF Settled, BootKeeps, Launched, Bringing, Building
    <2> QED
      BY <1>2, <2>2, <2>3
  <1>3. CASE boot[b].pc \in Launched \/ boot[c].pc \in Launched
    BY <1>1, <1>2, <1>3
  <1>4. CASE boot[b].pc \notin Launched /\ boot[c].pc \notin Launched
    BY <1>1, <1>4 DEF Settled, LiveHeld
  <1> QED
    BY <1>3, <1>4

\* The shutdown begins: what has been answered is kept, whatever is in flight.
LEMMA ShutDownSettled ==
    ASSUME Typed, Typed', Books, Settled, ShutDown
    PROVE  Settled'
  <1>1. /\ Alive /\ Alive' /\ main.pc = "serving"
        /\ main'.pc = "stopAll" /\ main'.todo = members /\ main'.before = Answered
        /\ UNCHANGED <<members, mem, sock, pidfile, boot, stop, network, netPc, nets, live>>
    BY DEF ShutDown, MainStep, Alive, Typed, GoodMain, MainRec
  <1>2. (Held' \subseteq Held) /\ (Held = live) /\ (\A v : Kept(v)) /\ (\A n : Guarded(n))
    BY <1>1 DEF Held, Kept, Guarded
  <1>3. Apart' /\ Registered' /\ Unborn' /\ VMOwner' /\ FilesOwned' /\ VMUp'
    BY <1>1 DEF Settled, Apart, Registered, Unborn, VMOwner, FilesOwned, VMUp, InFlight,
       StopInFlight
  <1>4. Listed' /\ NetUp'
    BY <1>1 DEF Settled, Listed, NetUp
  <1>5. BootKeeps'
    BY <1>1, <1>2 DEF Settled, BootKeeps
  <1>6. LiveHeld' /\ Down'
    BY <1>1, <1>2 DEF Settled, LiveHeld, Down
  <1>7. Sole'
    <2>1. SUFFICES ASSUME NEW b \in Held', NEW c \in live, boot[b].name = boot[c].name, b # c
                   PROVE  FALSE
      BY <1>1 DEF Sole
    <2> QED
      BY <2>1, <1>1, <1>2, ServingSole
  <1>8. Elders'
    <2>1. Answered' = Answered
      BY <1>1 DEF Answered
    <2>2. \A o \in BootReq : mem[o].vm # None => boot[o].pc = "replied"
      BY <1>1 DEF Settled, Elders
    <2>3. None \notin Answered
      BY HolderAssumption DEF Answered
    <2>4. \A o \in BootReq : mem[o].vm \in Answered => o \in Answered
      BY <2>2, <2>3 DEF Answered
    <2> QED
      BY <1>1, <2>1, <2>4 DEF Settled, Elders
  <1>9. Halted'
    <2>1. \A s \in StopReq :
             /\ stop[s].pc = "halt" => stop[s].vm = mem[stop[s].obj].vm
             /\ stop[s].pc \in Halting => mem[stop[s].obj].vm \notin Held'
      BY <1>1, <1>2 DEF Settled, Halted
    <2> QED
      BY <2>1, <1>1 DEF Halted
  <1> QED
    BY <1>1, <1>3, <1>4, <1>5, <1>6, <1>7, <1>8, <1>9 DEF Settled

LEMMA MainReadSettled ==
    ASSUME Typed, Typed', Settled, NEW n \in Name, MainReadVM(n)
    PROVE  Settled'
  <1>1. /\ Alive /\ Alive' /\ main.pc = "stopAll" /\ main'.pc = "halt" /\ main.todo[n] # None
        /\ main'.before = main.before /\ main'.obj \in Obj
        /\ main'.name = n /\ main'.obj = main.todo[n] /\ main'.vm = mem[main.todo[n]].vm
        /\ \A m \in Name : m # n => main'.todo[m] = main.todo[m]
        /\ UNCHANGED <<members, mem, sock, pidfile, boot, stop, network, netPc, nets, live>>
    BY DEF MainReadVM, MainStep, Alive, Typed, GoodMain, MainRec
  <1>3. Listed' /\ NetUp'
    BY <1>1 DEF Settled, Listed, NetUp, Retiring
  <1>5. \A b \in BootReq : boot[b].pc \in Launched => b \in live'
    BY <1>1 DEF Settled, BootKeeps
  <1> QED
    BY <1>1, <1>3, <1>5, FrameMain

LEMMA MainStopSettled ==
    ASSUME Orderly, Typed, Typed', Settled, MainStopVM
    PROVE  Settled'
  <1> DEFINE o == main.obj
  <1>1. /\ Alive /\ Alive' /\ main.pc = "halt" /\ main'.pc = "retire" /\ o \in Obj
        /\ main'.before = main.before /\ main'.name = main.name /\ main'.obj = o /\ main'.todo = main.todo
        /\ UNCHANGED <<members, mem, sock, pidfile, boot, stop, network, netPc, nets>>
        /\ live' = live \ {main.vm}
    BY OneWay DEF MainStopVM, MainStep, MainGoto, Alive, Typed, GoodMain, MainRec
  <1>2. mem[o].vm \notin Held'
    BY <1>1 DEF Settled, Halted, Held, Kept
  <1>4. Listed' /\ NetUp'
    BY <1>1 DEF Settled, Listed, NetUp, Retiring
  <1>6. \A b \in BootReq : boot[b].pc \in Launched => b \in live'
    <2>1. \A b \in BootReq : boot[b].pc \in Launched => main.vm # b
      BY <1>1, HolderAssumption DEF Settled, Elders, Launched
    <2> QED
      BY <1>1, <2>1 DEF Settled, BootKeeps
  <1> QED
    BY <1>1, <1>2, <1>4, <1>6, FrameMain

LEMMA MainSkipSettled ==
    ASSUME Typed, Typed', Settled, MainRetire, mem[main.obj].retired = "yes", MainLoop,
           UNCHANGED <<registry, host>>
    PROVE  Settled'
  <1>1. /\ Alive /\ Alive' /\ main.pc = "retire" /\ main'.pc = "stopAll" /\ main.obj \in Obj
        /\ main'.before = main.before /\ main'.todo = main.todo
        /\ UNCHANGED <<members, mem, sock, pidfile, boot, stop, network, netPc, nets, live>>
    BY DEF MainRetire, MainLoop, MainStep, Alive, Typed, GoodMain, MainRec
  <1>2. \A n \in Name : members[n] # None => members[n] # main.obj
    BY <1>1 DEF Settled, Registered
  <1>4. Listed' /\ NetUp'
    BY <1>1, <1>2 DEF Settled, Listed, NetUp
  <1>6. \A b \in BootReq : boot[b].pc \in Launched => b \in live'
    BY <1>1 DEF Settled, BootKeeps
  <1> QED
    BY <1>1, <1>4, <1>6, FrameMain

LEMMA MainRetireSettled ==
    ASSUME Typed, Typed', Books, Served, Settled, MainRetire, RetireFiles(main.name, main.obj),
           MainGoto("unregister")
    PROVE  Settled'
  <1> DEFINE n == main.name
             o == main.obj
  <1>1. /\ Alive /\ UNCHANGED <<stop, boot, network, netPc>>
        /\ n \in Name /\ o \in Obj /\ main.pc = "retire"
        /\ main'.before = main.before
        /\ main'.pc = "unregister" /\ main'.name = n /\ main'.obj = o /\ main'.todo = main.todo
    BY DEF MainRetire, MainGoto, MainStep, Alive, Typed, GoodMain, MainRec
  <1>2. RetireFiles(n, o)
    OBVIOUS
  <1>3. /\ mem[o].retired = "no" /\ mem'[o].retired = "unlinked"
        /\ \A p \in Obj : p # o => mem'[p] = mem[p]
        /\ \A p \in Obj : mem'[p].vm = mem[p].vm
        /\ UNCHANGED <<members, nets, live>>
    BY <1>1, <1>2, FilesEffect
  <1>4. members[n] = o /\ mem[o].vm \notin Held
    BY <1>1, <1>3 DEF Served, Claims, Retiring, Settled, Halted
  <1> HIDE DEF n, o
  <1>5. /\ Unborn' /\ BootKeeps' /\ VMOwner' /\ Elders' /\ LiveHeld' /\ Sole' /\ Down'
        /\ FilesOwned'
    BY <1>1, <1>2, <1>3, <1>4, RetireSettled
  <1>6. Apart'
    BY <1>1 DEF Settled, Apart, InFlight, StopInFlight
  <1>7. Registered'
    BY <1>1, <1>3, <1>4, Handles DEF Settled, Registered
  <1>8. Halted'
    BY <1>1, <1>3, <1>4, Handles DEF Settled, Halted, Halting, Working, Held, Kept
  <1>9. VMUp'
    BY <1>1 DEF VMUp
  <1>10. Listed'
    <2>1. \A m \in Name : (members'[m] # None /\ mem'[members'[m]].retired = "no")
             => members[m] \in Obj /\ members[m] # o /\ mem[members[m]].retired = "no"
      BY <1>3, Handles
    <2> QED
      BY <1>1, <1>3, <2>1 DEF Settled, Listed, o
  <1>11. NetUp'
    BY <1>1, <1>3 DEF Settled, NetUp
  <1> QED
    BY <1>5, <1>6, <1>7, <1>8, <1>9, <1>10, <1>11 DEF Settled

LEMMA MainUnregisterSettled ==
    ASSUME Typed, Typed', Books, Served, Settled, MainUnregister
    PROVE  Settled'
  <1> DEFINE n == main.name
             o == main.obj
  <1>1. /\ Alive /\ UNCHANGED <<stop, boot, sock, pidfile, network, netPc, nets, live>>
        /\ n \in Name /\ o \in Obj /\ main.pc = "unregister"
        /\ main'.before = main.before /\ main'.pc = "stopAll" /\ main'.todo = main.todo
    BY DEF MainUnregister, MainLoop, MainStep, Alive, Typed, GoodMain, MainRec
  <1>2. RetireEntry(n, o)
    BY DEF MainUnregister
  <1>3. /\ mem[o].retired = "unlinked" /\ members[n] = o /\ mem[o].vm \notin Held
    BY <1>1 DEF Served, Claims, Unlinkers, Retiring, Settled, Halted
  <1>4. /\ mem'[o].retired = "yes"
        /\ \A p \in Obj : p # o => mem'[p] = mem[p]
        /\ \A p \in Obj : mem'[p].vm = mem[p].vm
        /\ members'[n] = None
        /\ \A m \in Name : m # n => members'[m] = members[m]
    BY <1>1, <1>2, EntryEffect
  <1>5. \A m \in Name : m # n => members[m] # o
    BY <1>1, <1>3, RetireeAlone
  <1> HIDE DEF n, o
  <1>6. /\ Unborn' /\ BootKeeps' /\ VMOwner' /\ Elders' /\ LiveHeld' /\ Sole' /\ Down'
        /\ FilesOwned'
    BY <1>1, <1>2, <1>3, RetireSettled
  <1>7. Apart'
    BY <1>1 DEF Settled, Apart, InFlight, StopInFlight
  <1>8. Registered'
    BY <1>1, <1>4, <1>5, Handles DEF Settled, Registered, o
  <1>9. Halted'
    BY <1>1, <1>4, Handles DEF Settled, Halted, Halting, Working, Held, Kept
  <1>10. VMUp'
    BY <1>1 DEF VMUp
  <1>11. Listed'
    <2>1. \A m \in Name : (members'[m] # None /\ mem'[members'[m]].retired = "no")
             => /\ members'[m] = members[m] /\ members[m] \in Obj
                /\ mem[members[m]].retired = "no" /\ m # n
      BY <1>4, <1>5, Handles
    <2> QED
      BY <1>1, <2>1 DEF Settled, Listed, n
  <1>12. NetUp'
    BY <1>1 DEF Settled, NetUp
  <1> QED
    BY <1>6, <1>7, <1>8, <1>9, <1>10, <1>11, <1>12 DEF Settled

\* The network is closed when the list is empty: any other network that is there is
\* in the hands of a handler that the shutdown overtook.
LEMMA CloseSettled ==
    ASSUME Typed, Typed', Settled, NetworkOwned, CloseNetwork
    PROVE  Settled'
  <1>1. /\ Alive /\ Alive' /\ main.pc = "stopAll" /\ main'.pc = "closed" /\ main'.todo = main.todo
        /\ main'.before = main.before
        /\ UNCHANGED <<members, mem, sock, pidfile, boot, stop, network, netPc, live>>
        /\ nets' = nets \ {network} /\ \A n \in Name : main.todo[n] = None
    BY DEF CloseNetwork, MainStep, MainGoto, Alive, Typed, GoodMain, MainRec
  <1>3. Listed'
    BY <1>1 DEF Settled, Listed, Retiring
  <1>4. nets' \cap main.before = {}
    BY <1>1, NotBefore DEF NetworkOwned, Typed
  <1>5. NetUp'
    <2>1. \A c \in NetReq : netPc'[c] = "install" => c \in nets'
      <3> SUFFICES ASSUME NEW c \in NetReq, netPc[c] = "install"
                   PROVE  c \in nets'
        BY <1>1
      <3>1. c \in nets
        BY <1>1 DEF Settled, NetUp
      <3>2. c # network
        BY <1>1, MoreHandles DEF Settled, NetUp
      <3> QED
        BY <1>1, <3>1, <3>2
    <2>2. network' # None => netPc'[network'] = "replied"
      BY <1>1 DEF Settled, NetUp
    <2> QED
      BY <1>1, <1>4, <2>1, <2>2 DEF NetUp
  <1>7. \A b \in BootReq : boot[b].pc \in Launched => b \in live'
    BY <1>1 DEF Settled, BootKeeps
  <1> QED
    BY <1>1, <1>3, <1>5, <1>7, FrameMain

LEMMA ExitCleared ==
    ASSUME Typed, Served, Settled, Exit
    PROVE  Settled' /\ Cleared'
  <1>1. /\ Alive /\ ~Alive' /\ main.pc = "closed" /\ live' = {} /\ main'.before = main.before
        /\ UNCHANGED <<members, mem, sock, pidfile, nets>>
    BY DEF Exit, MainStep, MainGoto, Alive, Typed, GoodMain, MainRec
  <1>2. \A n \in Name : members[n] # None /\ mem[members[n]].retired = "no"
           => members[n] \in BootReq \ main.before
    BY <1>1 DEF Settled, Listed, Retiring
  <1>3. ASSUME NEW n \in Name, sock[n] # None \/ n \in pidfile
        PROVE  sock[n] \in BootReq \ main.before
    <2>1. CASE members[n] # None /\ mem[members[n]].retired = "no"
      BY <2>1, <1>2 DEF Served, SocketServesMember
    <2>2. CASE \E b \in BootReq : boot[b].pc = "insert" /\ boot[b].name = n
      BY <2>2, <1>1, NotBefore DEF Served, Bound
    <2> QED
      BY <2>1, <2>2, <1>1, <1>3 DEF Settled, FilesOwned
  <1>4. nets \cap main.before = {}
    BY <1>1 DEF Settled, NetUp
  <1> QED
    BY <1>1, <1>3, <1>4 DEF Settled, Cleared, CleanExit

LEMMA MainSettled ==
    ASSUME Orderly, Typed, Typed', Books, Served, NetworkOwned, Settled, Cleared,
           ShutDown \/ MainWork
    PROVE  Settled' /\ Cleared'
  <1>1. CASE Exit
    BY <1>1, ExitCleared
  <1>2. CASE ~Exit
    <2>1. Alive'
      <3>1. main \in GoodMain
        BY DEF Typed
      <3>2. ASSUME NEW to \in MainPc, MainGoto(to), to # "exited"
            PROVE  Alive'
        BY <3>1, <3>2 DEF MainGoto, GoodMain, MainRec, Alive
      <3>3. MainLoop => Alive'
        BY <3>1 DEF MainLoop, GoodMain, MainRec, Alive
      <3>4. CASE ShutDown
        BY <3>1, <3>4 DEF ShutDown, GoodMain, MainRec, Alive
      <3>5. CASE \E n \in Name : MainReadVM(n)
        BY <3>5 DEF MainReadVM, Alive
      <3>6. CASE MainStopVM \/ MainUnregister \/ CloseNetwork \/ MainRetire
        BY <3>2, <3>3, <3>6
        DEF MainStopVM, MainUnregister, CloseNetwork, MainRetire, MainPc
      <3> QED
        BY <1>2, <3>4, <3>5, <3>6 DEF MainWork
    <2>2. Cleared'
      BY <2>1 DEF Cleared
    <2>3. CASE ShutDown \/ \E n \in Name : MainReadVM(n)
      BY <2>2, <2>3, ShutDownSettled, MainReadSettled
    <2>4. CASE MainStopVM \/ MainUnregister \/ CloseNetwork
      BY <2>2, <2>4, MainStopSettled, MainUnregisterSettled, CloseSettled
    <2>5. CASE MainRetire
      BY <2>2, <2>5, MainRetireSettled, MainSkipSettled DEF MainRetire
    <2> QED
      BY <1>2, <2>3, <2>4, <2>5 DEF MainWork
  <1> QED
    BY <1>1, <1>2

LEMMA NextSettled ==
    /\ Orderly /\ Typed /\ Typed' /\ Books /\ Served /\ NetworkOwned /\ Settled /\ Cleared
    /\ [Next]_vars
    => Settled' /\ Cleared'
  <1> SUFFICES ASSUME Orderly, Typed, Typed', Books, Served, NetworkOwned, Settled, Cleared,
                      [Next]_vars
               PROVE  Settled' /\ Cleared'
    OBVIOUS
  <1>1. CASE \E c \in NetReq : NetCheck(c) \/ NetCreate(c) \/ NetInstall(c)
    BY <1>1, NetSettled, HolderAssumption
  <1>2. CASE \E n \in Name : Reserve(n)
    <2>1. /\ Alive
          /\ UNCHANGED <<members, mem, live, sock, pidfile, boot, stop, main, nets, network, netPc>>
      BY <1>2 DEF Reserve
    <2>2. Settled'
      BY <2>1 DEF Settled, Apart, Registered, Unborn, BootKeeps, VMOwner, Elders, Answered,
         LiveHeld, Sole, Held, Kept, Guarded, Halted, Down, VMUp, Doomed, FilesOwned, Listed, NetUp, InFlight, StopInFlight
    <2> QED
      BY <2>1, <2>2 DEF Cleared, Alive
  <1>3. CASE \E b \in BootReq : BootWork(b) \/ \E n \in Name : BootBegin(b, n)
    BY <1>3, BootSettled
  <1>4. CASE \E s \in StopReq : StopWork(s) \/ \E n \in Name : StopBegin(s, n)
    BY <1>4, StopSettled
  <1>5. CASE ShutDown \/ MainWork
    BY <1>5, MainSettled
  <1>6. CASE UNCHANGED vars
    BY <1>6 DEF vars, Settled, Cleared, CleanExit, Alive, Apart, Registered, Unborn, BootKeeps,
       VMOwner, Elders, Answered, LiveHeld, Sole, Held, Kept, Guarded, Halted, Down, VMUp, Doomed, FilesOwned, Listed, NetUp, InFlight,
       StopInFlight
  <1> QED
    BY <1>1, <1>2, <1>3, <1>4, <1>5, <1>6 DEF Next, Gone

Sound == Typed /\ Books /\ Served /\ NetworkOwned /\ Settled /\ Cleared

\* The invariant on which the five theorems rest.
LEMMA OrderlySound == Orderly /\ Spec => []Sound
  <1>1. Init => Typed /\ Books /\ Served /\ Settled /\ Cleared
    BY InitTyped, InitBooks, InitServed, InitSettled
  <1>2. Spec => []NetworkOwned
    BY NetworkCorrect
  <1>3. CASE Orderly
    <2>1. Single
      BY <1>3 DEF Orderly, Single
    <2>2. NetworkOwned /\ Typed /\ Books /\ Served /\ Settled /\ Cleared /\ [Next]_vars
            => (Typed /\ Books /\ Served /\ Settled /\ Cleared)'
      BY <1>3, <2>1, NextTyped, NextBooks, NextServed, NextSettled
    <2>3. Spec => [](Typed /\ Books /\ Served /\ Settled /\ Cleared)
      BY <1>1, <1>2, <2>2, PTL DEF Spec
    <2> QED
      BY <1>2, <2>3, PTL DEF Sound
  <1> QED
    BY <1>3

\* No two VMs of one name, that is, on one disk, run at a time, whenever the process
\* shuts down: bootMember refuses a name with a VM, and stopMember and stopAll
\* unregister a member only after the VM they stopped.
THEOREM OneVMCorrect == Orderly /\ Spec => []OneVMPerName
  <1>1. Sound => OneVMPerName
    <2> SUFFICES ASSUME Sound, NEW b \in live, NEW c \in live, Kept(b),
                        boot[b].name = boot[c].name, b # c
                 PROVE  FALSE
      BY DEF OneVMPerName
    <2>1. Alive /\ b \in Held
      BY DEF Sound, Cleared, Held
    <2>2. CASE main.pc = "serving"
      BY <2>2, ServingSole DEF Sound
    <2>3. CASE main.pc # "serving"
      BY <2>1, <2>3 DEF Sound, Settled, Sole
    <2> QED
      BY <2>2, <2>3
  <1> QED
    BY <1>1, OrderlySound, PTL

\* When the pidfile of a name is gone no VM of it runs, but for one that a boot
\* launched after the shutdown began: control.Stop reports the end of a stop by the
\* pidfile, and its caller may then delete the disk.
THEOREM StopCorrect == Orderly /\ Spec => []StopMeansDown
  <1>1. Sound => StopMeansDown
    <2> SUFFICES ASSUME Sound, NEW b \in live, Kept(b)
                 PROVE  boot[b].name \in pidfile
      BY DEF StopMeansDown
    <2>1. Alive /\ b \in BootReq /\ b \in Held
      BY DEF Sound, Cleared, Typed, Held
    <2>2. CASE boot[b].pc \in Launched
      <3>1. /\ members[boot[b].name] = boot[b].obj /\ mem[boot[b].obj].retired = "no"
            /\ boot[b].name \in Name /\ boot[b].obj \in Obj
        BY <2>1, <2>2, MoreHandles DEF Sound, Settled, BootKeeps, Launched, Bringing, Guarded
      <3> QED
        BY <3>1, HolderAssumption DEF Sound, Served, SocketServesMember
    <2>3. CASE boot[b].pc \notin Launched
      <3>1. /\ boot[b].name \in Name /\ members[boot[b].name] # None
            /\ mem[members[boot[b].name]].vm = b
        BY <2>1, <2>3 DEF Sound, Settled, LiveHeld
      <3>2. mem[members[boot[b].name]].retired = "no"
        BY <2>1, <3>1, Handles DEF Sound, Settled, Down
      <3> QED
        BY <3>1, <3>2 DEF Sound, Served, SocketServesMember
    <2> QED
      BY <2>2, <2>3
  <1> QED
    BY <1>1, OrderlySound, PTL

\* b.Create is called with a network, and h.network is never unset.
Powered == live # {} => network # None

LEMMA AlwaysPowered == Spec => []Powered
  <1>1. Init => Powered
    BY DEF Init, Powered
  <1>2. Typed /\ Powered /\ [Next]_vars => Powered'
    <2> SUFFICES ASSUME Typed, Powered, [Next]_vars
                 PROVE  Powered'
      OBVIOUS
    <2>1. network # None => network' # None
      BY HolderAssumption
      DEF vars, Next, NetCheck, NetCreate, NetInstall, Reserve, BootWork, BootBegin, BootLookup,
          BootRegisterFiles, BootRegisterEntry, BootFind, BootCheck, BootCreate, BootFail,
          MarkRunning, BootReap, MarkError, BootDecRunning, StopWork, StopBegin, StopLookup,
          StopReadVM, StopVM, MarkStopped, StopDecRunning, StopRetire, StopUnregister, ShutDown,
          MainWork, MainReadVM, MainStopVM, MainRetire, MainUnregister, CloseNetwork, Exit, Gone
    <2>2. CASE \E c \in NetReq : NetCheck(c) \/ NetCreate(c) \/ NetInstall(c)
      BY <2>1, <2>2 DEF NetCheck, NetCreate, NetInstall, Powered, registry, host
    <2>3. CASE \E n \in Name : Reserve(n)
      BY <2>1, <2>3 DEF Reserve, Powered, registry, host
    <2>4. ASSUME NEW b \in BootReq, BootWork(b) \/ \E n \in Name : BootBegin(b, n)
          PROVE  Powered'
      <3>1. CASE BootCreate(b)
        BY <3>1, MoreHandles DEF BootCreate, Powered
      <3>2. CASE BootFail(b)
        BY <2>1, <3>2, StopShrinks DEF BootFail, Powered
      <3>3. CASE BootReap(b)
        BY <2>1, <3>3, StopShrinks DEF BootReap, Powered
      <3>4. CASE \/ BootLookup(b) \/ BootRegisterFiles(b) \/ BootRegisterEntry(b) \/ BootFind(b)
                 \/ BootCheck(b) \/ MarkRunning(b) \/ MarkError(b) \/ BootDecRunning(b)
                 \/ \E n \in Name : BootBegin(b, n)
        BY <2>1, <3>4 DEF BootLookup, BootRegisterFiles, BootRegisterEntry, BootFind, BootCheck,
             MarkRunning, MarkError, BootDecRunning, BootBegin, Powered, registry, host
      <3> QED
        BY <2>4, <3>1, <3>2, <3>3, <3>4 DEF BootWork
    <2>5. ASSUME NEW s \in StopReq, StopWork(s) \/ \E n \in Name : StopBegin(s, n)
          PROVE  Powered'
      <3>1. CASE StopVM(s)
        BY <2>1, <3>1, StopShrinks DEF StopVM, Powered
      <3>2. CASE \/ StopLookup(s) \/ StopReadVM(s) \/ MarkStopped(s) \/ StopDecRunning(s)
                 \/ StopRetire(s) \/ StopUnregister(s) \/ \E n \in Name : StopBegin(s, n)
        BY <2>1, <3>2 DEF StopLookup, StopReadVM, MarkStopped, StopDecRunning, StopRetire,
             StopUnregister, StopBegin, RetireFiles, RetireEntry, Powered, registry, host
      <3> QED
        BY <2>5, <3>1, <3>2 DEF StopWork
    <2>6. CASE MainStopVM
      BY <2>1, <2>6, StopShrinks DEF MainStopVM, Powered
    <2>7. CASE \/ ShutDown \/ Gone \/ (\E n \in Name : MainReadVM(n))
               \/ MainRetire \/ MainUnregister \/ CloseNetwork \/ Exit
      BY <2>1, <2>7 DEF ShutDown, MainReadVM, MainRetire, MainUnregister, CloseNetwork, Exit, Gone,
           RetireFiles, RetireEntry, Powered, registry, host, vars
    <2>8. CASE UNCHANGED vars
      BY <2>8 DEF vars, Powered
    <2> QED
      BY <2>2, <2>3, <2>4, <2>5, <2>6, <2>7, <2>8 DEF Next, MainWork
  <1>3. Spec => []Typed
    BY InitTyped, NextTyped, PTL DEF Spec
  <1> QED
    BY <1>1, <1>2, <1>3, PTL DEF Spec

\* The network is closed after the last VM that was up when the shutdown began,
\* with boots in flight or without (Run's deferred network.Close comes after stopAll).
THEOREM ClosedLastCorrect == Orderly /\ Spec => []NetworkClosedLast
  <1>1. Sound /\ Powered => NetworkClosedLast
    <2> SUFFICES ASSUME Sound, Powered, NEW b \in live, Kept(b)
                 PROVE  network \in nets
      BY DEF NetworkClosedLast
    <2>1. Alive /\ b \in BootReq /\ b \in Held /\ network # None
      BY DEF Sound, Cleared, Typed, Powered, Held
    <2>2. main.pc # "closed"
      <3>1. SUFFICES ASSUME main.pc = "closed" PROVE FALSE
        OBVIOUS
      <3>2. b \in main.before /\ boot[b].pc \notin Launched
        BY <2>1, <3>1, NotBefore DEF Sound, Kept, Launched
      <3>3. /\ boot[b].name \in Name /\ members[boot[b].name] # None
            /\ mem[members[boot[b].name]].vm = b
        BY <2>1, <3>2 DEF Sound, Settled, LiveHeld
      <3>4. mem[members[boot[b].name]].retired = "no"
        BY <2>1, <3>3, Handles DEF Sound, Settled, Down
      <3>5. members[boot[b].name] \in BootReq \ main.before
        BY <2>1, <3>1, <3>3, <3>4 DEF Sound, Settled, Listed, Retiring
      <3> QED
        BY <2>1, <3>2, <3>3, <3>5 DEF Sound, Settled, Elders
    <2> QED
      BY <2>1, <2>2 DEF Sound, Settled, NetUp
  <1> QED
    BY <1>1, OrderlySound, AlwaysPowered, PTL

\* A clean exit leaves no network, socket or pidfile behind, but what requests that
\* the shutdown overtook made after it: stopAll's list has every member that was
\* registered when it was drawn up.
THEOREM ExitCorrect == Orderly /\ Spec => []CleanExit
  <1>1. Sound => CleanExit
    BY DEF Sound, Cleared, CleanExit, Alive
  <1> QED
    BY <1>1, OrderlySound, PTL

\* bootMember's "already running" is true when a process that serves says it: the VM
\* of the member it found runs, and is not being stopped.
THEOREM RefusalCorrect == Orderly /\ Spec => RefusalMeansRunning
  <1>1. Sound /\ [Next]_vars
          => [\A b \in BootReq :
                (main.pc = "serving" /\ boot[b].pc = "check" /\ boot'[b].pc = "replied")
                  => mem[boot[b].obj].vm \in live]_vars
    <2> SUFFICES ASSUME Sound, Next, NEW b \in BootReq, main.pc = "serving",
                        boot[b].pc = "check", boot'[b].pc = "replied"
                 PROVE  mem[boot[b].obj].vm \in live
      OBVIOUS
    <2>1. Alive /\ mem[boot[b].obj].vm # None
      <3>1. Exit => boot'[b].pc = "idle"
        BY DEF Exit, NoBoot
      <3>2. UNCHANGED boot => FALSE
        OBVIOUS
      <3>3. PICK c \in BootReq : BootWork(c) \/ \E n \in Name : BootBegin(c, n)
        BY <3>1, <3>2
        DEF Next, NetCheck, NetCreate, NetInstall, Reserve, StopWork, StopBegin, StopLookup,
            StopReadVM, StopVM, MarkStopped, StopDecRunning, StopRetire, StopUnregister, ShutDown,
            MainWork, MainReadVM, MainStopVM, MainRetire, MainUnregister, CloseNetwork, Gone, vars
      <3>4. c = b
        <4> SUFFICES ASSUME c # b PROVE boot'[b] = boot[b]
          OBVIOUS
        <4> QED
          BY <3>3
          DEF BootWork, BootBegin, BootLookup, BootRegisterFiles, BootRegisterEntry, BootFind,
              BootCheck, BootCreate, BootFail, MarkRunning, BootReap, MarkError, BootDecRunning,
              BootGoto, BootSet, Sound, Typed
      <3>5. BootCheck(b)
        BY <3>3, <3>4
        DEF BootWork, BootBegin, BootLookup, BootRegisterFiles, BootRegisterEntry, BootFind,
            BootCreate, BootFail, MarkRunning, BootReap, MarkError, BootDecRunning, BootStep
      <3> QED
        BY <3>5 DEF BootCheck, BootStep, BootGoto, BootSet, Sound, Typed
    <2>3. /\ members[boot[b].name] = boot[b].obj /\ boot[b].name \in Name /\ boot[b].obj \in Obj
          /\ InFlight(b)
      BY <2>1, MoreHandles DEF Sound, Settled, BootKeeps, Bringing, Guarded
    <2>4. ~Doomed(boot[b].obj)
      <3>1. mem[boot[b].obj].retired = "no"
        BY <2>1 DEF Sound, Settled, BootKeeps, Bringing, Guarded
      <3>2. ASSUME NEW s \in StopReq, stop[s].pc \in Halting, stop[s].obj = boot[b].obj
            PROVE  FALSE
        <4>1. stop[s].name \in Name /\ members[stop[s].name] = boot[b].obj
          BY <2>1, <3>1, <3>2, Handles DEF Sound, Served, Claims, Working, Halting
        <4>2. stop[s].name = boot[b].name
          BY <2>1, <2>3, <4>1, OneName, HolderAssumption DEF Sound
        <4> QED
          BY <2>1, <2>3, <3>2, <4>2 DEF Sound, Settled, Apart, StopInFlight, Halting
      <3> QED
        BY <2>3, <3>2 DEF Doomed
    <2> QED
      BY <2>1, <2>3, <2>4, HolderAssumption DEF Sound, Settled, VMUp
  <1> QED
    BY <1>1, OrderlySound, PTL DEF Spec, RefusalMeansRunning

=============================================================================
