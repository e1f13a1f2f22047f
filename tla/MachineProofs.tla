---------------------------- MODULE MachineProofs ----------------------------
(***************************************************************************)
(* One VM, for any number of handlers that stop it and every set of faults: *)
(* its tap outlives it, nothing of it is left, and it keeps the contract    *)
(* the holder relies on.                                                   *)
(*                                                                         *)
(* All of it rests on Gone: a handler of cloud-hypervisor that is past its *)
(* waits has seen the exit that the wait goroutine published (ExitSeen), or *)
(* found no process, and none is started after that (StartsFirst).         *)
(***************************************************************************)
EXTENDS Machine, TLAPS

PastPc == {"takeTap", "deleteTap", "socket", "ok"}
BeforePc == {"create", "start", "unmade"}

\* A stop of the adopted VM follows its boot, and a boot that failed had no other.
StartsFirst ==
    /\ \A c \in Stopper : pc[c] # "idle" => pc[Booter] = "up"
    /\ \A c \in Stopper : pc[c] \notin BootPc
    /\ pc[Booter] \in BeforePc => vm = "none"
    /\ pc[Booter] \in BootPc \ BeforePc => vm # "none"
    /\ pc[Booter] # "idle"

ExitSeen == obs.exited => vm = "off"

Gone == kind = "ch" /\ "stuck" \notin hit => \A c \in Caller : pc[c] \in PastPc => ~Runs

\* The tap is there from Create until one handler takes it, who alone deletes it.
TapHeld ==
    kind = "ch" =>
        /\ res.tap = "held" <=>
              /\ pc[Booter] \notin {"create", "unmade"}
              /\ \A c \in Caller : pc[c] \notin {"deleteTap", "socket", "ok"}
        /\ res.tap = "taken" => \E c \in Caller : pc[c] = "deleteTap"
        /\ res.tap = "kept" <=> "tapKept" \in hit
        /\ pc[Booter] \in {"create", "unmade"} => res.tap = "none"
        /\ \A c \in Caller : pc[c] = "deleteTap" => res.tap = "taken"
        /\ \A c, d \in Caller : pc[c] = "deleteTap" /\ pc[d] = "deleteTap" => c = d

\* What only one of the backends has, and what is gone when a stop has returned.
OnlyOfKind ==
    /\ kind = "ch" => ~res.serial /\ \A c \in Caller : pc[c] # "err"
    /\ kind = "vz" => res.tap = "none" /\ ~res.socket /\ "tapKept" \notin hit
    /\ "serial" \in hit => kind = "vz" /\ pc[Booter] = "unmade" /\ res.serial
    /\ pc[Booter] \in {"create", "unmade"} => (res.serial <=> "serial" \in hit)
    /\ pc[Booter] \in BeforePc => ~res.socket
    /\ \A c \in Caller : Returned(c) => ~res.socket /\ ~res.serial
    /\ \A c \in Caller : kind = "vz" => pc[c] \notin {"takeTap", "deleteTap", "socket"}

Inv == TypeOK /\ StartsFirst /\ ExitSeen /\ Gone /\ TapHeld /\ OnlyOfKind

-----------------------------------------------------------------------------

USE MachineAssumption
USE DEF Runs, Goto, Happens, Ask, Returned, Stopping, Caller
USE DEF BootPc, StopPc, PastPc, BeforePc, TapState

LEMMA InitInv == Init => Inv
<1> SUFFICES ASSUME Init PROVE Inv
  OBVIOUS
<1>1. TypeOK
  BY DEF Init, TypeOK
<1>2. StartsFirst /\ ExitSeen /\ Gone /\ OnlyOfKind
  BY DEF Init, StartsFirst, ExitSeen, Gone, OnlyOfKind
<1>3. TapHeld
  BY DEF Init, TapHeld
<1> QED
  BY <1>1, <1>2, <1>3 DEF Inv

LEMMA BootInv ==
    ASSUME Inv, BootWork
    PROVE  Inv'
<1>0. TypeOK
  BY DEF Inv
<1>1. CASE CreateCH
  <2>1. TypeOK'
    BY <1>0, <1>1 DEF TypeOK, CreateCH
  <2> QED
    BY <1>1, <2>1
    DEF CreateCH, Inv, TypeOK, StartsFirst, ExitSeen, Gone, TapHeld, OnlyOfKind
<1>2. CASE CreateVZ
  <2>1. TypeOK'
    <3>1. hit' \subseteq Fault
      BY <1>0, <1>2 DEF TypeOK, CreateVZ, Fault
    <3>2. pc' \in [Caller -> BootPc \cup StopPc \cup {"idle", "ok", "err"}]
      BY <1>0, <1>2 DEF TypeOK, CreateVZ
    <3>3. res' \in {res, [res EXCEPT !.serial = TRUE]}
      BY <1>2 DEF CreateVZ
    <3>4. res' \in [tap : TapState, socket : BOOLEAN, serial : BOOLEAN]
      BY <1>0, <3>3 DEF TypeOK
    <3> QED
      BY <1>0, <1>2, <3>1, <3>2, <3>4 DEF TypeOK, CreateVZ
  <2> QED
    BY <1>2, <2>1
    DEF CreateVZ, Inv, TypeOK, StartsFirst, ExitSeen, Gone, TapHeld, OnlyOfKind
<1>3. CASE Start
  <2>1. TypeOK'
    <3>1. vm' \in {"none", "starting", "on", "off", "error"} /\ hit' \subseteq Fault
      BY <1>0, <1>3 DEF TypeOK, Start
    <3>2. obs' \in {obs, [state |-> "running", exited |-> FALSE]}
      BY <1>0, <1>3 DEF TypeOK, Start
    <3>3. [state |-> "running", exited |-> FALSE]
             \in [state : {"stopped", "running"}, exited : BOOLEAN]
      OBVIOUS
    <3>4. pc' \in [Caller -> BootPc \cup StopPc \cup {"idle", "ok", "err"}]
      BY <1>0, <1>3 DEF TypeOK, Start
    <3> QED
      BY <1>0, <1>3, <3>1, <3>2, <3>3, <3>4 DEF TypeOK, Start
  <2> QED
    BY <1>3, <2>1
    DEF Start, Inv, TypeOK, StartsFirst, ExitSeen, Gone, TapHeld, OnlyOfKind
<1>4. CASE Ready
  <2>1. TypeOK'
    <3>1. asked' \subseteq {"shutdown", "term", "kill"} /\ hit' \subseteq Fault
      BY <1>0, <1>4 DEF TypeOK, Ready, SeesEnd, Fault
    <3>2. pc' \in [Caller -> BootPc \cup StopPc \cup {"idle", "ok", "err"}]
      BY <1>0, <1>4 DEF TypeOK, Ready, SeesEnd
    <3>3. res' \in {res, [res EXCEPT !.socket = (kind = "ch")]}
      BY <1>4 DEF Ready, SeesEnd
    <3>4. res' \in [tap : TapState, socket : BOOLEAN, serial : BOOLEAN]
      BY <1>0, <3>3 DEF TypeOK
    <3> QED
      BY <1>0, <1>4, <3>1, <3>2, <3>4 DEF TypeOK, Ready
  <2> QED
    BY <1>4, <2>1
    DEF Ready, SeesEnd, Inv, TypeOK, StartsFirst, ExitSeen, Gone, TapHeld, OnlyOfKind
<1>5. CASE WaitForIP
  <2>1. TypeOK'
    <3>1. hit' \subseteq Fault
      BY <1>0, <1>5 DEF TypeOK, WaitForIP, Fault
    <3>2. pc' \in [Caller -> BootPc \cup StopPc \cup {"idle", "ok", "err"}]
      BY <1>0, <1>5 DEF TypeOK, WaitForIP
    <3> QED
      BY <1>0, <1>5, <3>1, <3>2 DEF TypeOK, WaitForIP
  <2> QED
    BY <1>5, <2>1
    DEF WaitForIP, SeesEnd, Inv, TypeOK, StartsFirst, ExitSeen, Gone, TapHeld, OnlyOfKind
<1>6. CASE Adopt
  <2>1. TypeOK'
    BY <1>0, <1>6 DEF TypeOK, Adopt
  <2> QED
    BY <1>6, <2>1
    DEF Adopt, Inv, TypeOK, StartsFirst, ExitSeen, Gone, TapHeld, OnlyOfKind
<1> QED
  BY <1>1, <1>2, <1>3, <1>4, <1>5, <1>6 DEF BootWork

LEMMA StopInv ==
    ASSUME Inv, NEW c \in Caller, StopWork(c)
    PROVE  Inv'
<1>0. TypeOK
  BY DEF Inv
<1>1. CASE RequestCH(c)
  <2>1. TypeOK'
    <3>1. asked' \subseteq {"shutdown", "term", "kill"} /\ hit' \subseteq Fault
      BY <1>0, <1>1 DEF TypeOK, RequestCH, Fault
    <3>2. pc' \in [Caller -> BootPc \cup StopPc \cup {"idle", "ok", "err"}]
      BY <1>0, <1>1 DEF TypeOK, RequestCH
    <3> QED
      BY <1>0, <1>1, <3>1, <3>2 DEF TypeOK, RequestCH
  <2> QED
    BY <1>1, <2>1
    DEF RequestCH, Inv, TypeOK, StartsFirst, ExitSeen, Gone, TapHeld, OnlyOfKind
<1>2. CASE Escalate(c)
  <2>1. TypeOK'
    <3>1. asked' \subseteq {"shutdown", "term", "kill"} /\ hit' \subseteq Fault
      BY <1>0, <1>2 DEF TypeOK, Escalate, Fault
    <3>2. pc' \in [Caller -> BootPc \cup StopPc \cup {"idle", "ok", "err"}]
      BY <1>0, <1>2 DEF TypeOK, Escalate
    <3>3. res' = res
      BY <1>2 DEF Escalate
    <3> QED
      BY <1>0, <1>2, <3>1, <3>2, <3>3 DEF TypeOK, Escalate
  <2> QED
    BY <1>2, <2>1
    DEF Escalate, Inv, TypeOK, StartsFirst, ExitSeen, Gone, TapHeld, OnlyOfKind
<1>3. CASE Exited(c)
  <2>1. TypeOK'
    BY <1>0, <1>3 DEF TypeOK, Exited
  <2> QED
    BY <1>3, <2>1
    DEF Exited, Inv, TypeOK, StartsFirst, ExitSeen, Gone, TapHeld, OnlyOfKind
<1>4. CASE TakeTap(c)
  <2>1. TypeOK'
    BY <1>0, <1>4 DEF TypeOK, TakeTap
  <2> QED
    BY <1>4, <2>1
    DEF TakeTap, Inv, TypeOK, StartsFirst, ExitSeen, Gone, TapHeld, OnlyOfKind
<1>5. CASE DeleteTap(c)
  <2>1. TypeOK'
    <3>1. hit' \subseteq Fault
      BY <1>0, <1>5 DEF TypeOK, DeleteTap, Fault
    <3>2. pc' \in [Caller -> BootPc \cup StopPc \cup {"idle", "ok", "err"}]
      BY <1>0, <1>5 DEF TypeOK, DeleteTap
    <3>3. res' \in {[res EXCEPT !.tap = "none"], [res EXCEPT !.tap = "kept"]}
      BY <1>5 DEF DeleteTap
    <3>4. res' \in [tap : TapState, socket : BOOLEAN, serial : BOOLEAN]
      BY <1>0, <3>3 DEF TypeOK
    <3> QED
      BY <1>0, <1>5, <3>1, <3>2, <3>4 DEF TypeOK, DeleteTap
  <2> QED
    BY <1>5, <2>1
    DEF DeleteTap, Inv, TypeOK, StartsFirst, ExitSeen, Gone, TapHeld, OnlyOfKind
<1>6. CASE RemoveSocket(c)
  <2>1. TypeOK'
    BY <1>0, <1>6 DEF TypeOK, RemoveSocket
  <2> QED
    BY <1>6, <2>1
    DEF RemoveSocket, Inv, TypeOK, StartsFirst, ExitSeen, Gone, TapHeld, OnlyOfKind
<1>7. CASE RequestVZ(c)
  <2>1. TypeOK'
    <3>1. asked' \subseteq {"shutdown", "term", "kill"} /\ hit' \subseteq Fault
      BY <1>0, <1>7 DEF TypeOK, RequestVZ, ReturnVZ, Fault
    <3>2. pc' \in [Caller -> BootPc \cup StopPc \cup {"idle", "ok", "err"}]
      BY <1>0, <1>7 DEF TypeOK, RequestVZ, ReturnVZ
    <3>3. res' \in {res, [res EXCEPT !.serial = FALSE]}
      BY <1>7 DEF RequestVZ, ReturnVZ
    <3>4. res' \in [tap : TapState, socket : BOOLEAN, serial : BOOLEAN]
      BY <1>0, <3>3 DEF TypeOK
    <3> QED
      BY <1>0, <1>7, <3>1, <3>2, <3>4 DEF TypeOK, RequestVZ
  <2> QED
    BY <1>7, <2>1
    DEF RequestVZ, ReturnVZ, Inv, TypeOK, StartsFirst, ExitSeen, Gone, TapHeld, OnlyOfKind
<1>8. CASE SoftVZ(c)
  <2>1. TypeOK'
    BY <1>0, <1>8 DEF TypeOK, SoftVZ, ReturnVZ
  <2> QED
    BY <1>8, <2>1
    DEF SoftVZ, ReturnVZ, Inv, TypeOK, StartsFirst, ExitSeen, Gone, TapHeld, OnlyOfKind
<1>9. CASE ForceVZ(c)
  <2>1. TypeOK'
    <3>1. asked' \subseteq {"shutdown", "term", "kill"} /\ hit' \subseteq Fault
      BY <1>0, <1>9 DEF TypeOK, ForceVZ, Fault
    <3>2. pc' \in [Caller -> BootPc \cup StopPc \cup {"idle", "ok", "err"}]
      BY <1>0, <1>9 DEF TypeOK, ForceVZ, ReturnVZ
    <3>3. res' \in {res, [res EXCEPT !.serial = FALSE]}
      BY <1>0, <1>9 DEF TypeOK, ForceVZ, ReturnVZ
    <3>4. res' \in [tap : TapState, socket : BOOLEAN, serial : BOOLEAN]
      BY <1>0, <3>3 DEF TypeOK
    <3> QED
      BY <1>0, <1>9, <3>1, <3>2, <3>4 DEF TypeOK, ForceVZ
  <2> QED
    BY <1>9, <2>1
    DEF ForceVZ, ReturnVZ, Inv, TypeOK, StartsFirst, ExitSeen, Gone, TapHeld, OnlyOfKind
<1>10. CASE LastVZ(c)
  <2>1. TypeOK'
    <3>1. asked' \subseteq {"shutdown", "term", "kill"} /\ hit' \subseteq Fault
      BY <1>0, <1>10 DEF TypeOK, LastVZ, ReturnVZ, Fault
    <3>2. pc' \in [Caller -> BootPc \cup StopPc \cup {"idle", "ok", "err"}]
      BY <1>0, <1>10 DEF TypeOK, LastVZ, ReturnVZ
    <3>3. res' \in {res, [res EXCEPT !.serial = FALSE]}
      BY <1>10 DEF LastVZ, ReturnVZ
    <3>4. res' \in [tap : TapState, socket : BOOLEAN, serial : BOOLEAN]
      BY <1>0, <3>3 DEF TypeOK
    <3> QED
      BY <1>0, <1>10, <3>1, <3>2, <3>4 DEF TypeOK, LastVZ
  <2> QED
    BY <1>10, <2>1
    DEF LastVZ, ReturnVZ, Inv, TypeOK, StartsFirst, ExitSeen, Gone, TapHeld, OnlyOfKind
<1> QED
  BY <1>1, <1>2, <1>3, <1>4, <1>5, <1>6, <1>7, <1>8, <1>9, <1>10
  DEF StopWork

LEMMA MachineInv ==
    ASSUME Inv, Started \/ Dies \/ Obeys \/ Publish
    PROVE  Inv'
<1>0. TypeOK
  BY DEF Inv
<1>1. CASE Started
  <2>1. TypeOK'
    BY <1>0, <1>1 DEF TypeOK, Started
  <2> QED
    BY <1>1, <2>1
    DEF Started, Inv, TypeOK, StartsFirst, ExitSeen, Gone, TapHeld, OnlyOfKind
<1>2. CASE Dies
  <2>1. TypeOK'
    BY <1>0, <1>2 DEF TypeOK, Dies
  <2> QED
    BY <1>2, <2>1
    DEF Dies, Inv, TypeOK, StartsFirst, ExitSeen, Gone, TapHeld, OnlyOfKind
<1>3. CASE Obeys
  <2>1. TypeOK'
    BY <1>0, <1>3 DEF TypeOK, Obeys
  <2> QED
    BY <1>3, <2>1
    DEF Obeys, Inv, TypeOK, StartsFirst, ExitSeen, Gone, TapHeld, OnlyOfKind
<1>4. CASE Publish
  <2>1. TypeOK'
    BY <1>0, <1>4 DEF TypeOK, Publish
  <2> QED
    BY <1>4, <2>1
    DEF Publish, Inv, TypeOK, StartsFirst, ExitSeen, Gone, TapHeld, OnlyOfKind
<1> QED
  BY <1>1, <1>2, <1>3, <1>4

LEMMA CallInv ==
    ASSUME Inv, NEW c \in Stopper, CallStop(c)
    PROVE  Inv'
  BY DEF CallStop, Inv, TypeOK, StartsFirst, ExitSeen, Gone, TapHeld, OnlyOfKind

LEMMA InvStep == Inv /\ [Next]_vars => Inv'
<1>1. Inv /\ UNCHANGED vars => Inv'
  BY DEF vars, Inv, TypeOK, StartsFirst, ExitSeen, Gone, TapHeld, OnlyOfKind
<1>2. Inv /\ Next => Inv'
  BY <1>1, BootInv, StopInv, MachineInv, CallInv DEF Next, Idle
<1> QED
  BY <1>1, <1>2

LEMMA InvCorrect == Spec => []Inv
  BY InitInv, InvStep, PTL DEF Spec

-----------------------------------------------------------------------------

\* Every variable keeps its type.
THEOREM MachineTypeCorrect == Spec => []TypeOK
<1>1. Inv => TypeOK
  BY DEF Inv
<1> QED
  BY <1>1, InvCorrect, PTL

\* cleanup takes the tap of no cloud-hypervisor that runs, whichever handlers stop
\* it and whichever of its waits end early.
THEOREM HeldWhileRunningCorrect == Spec => []HeldWhileRunning
<1>1. Inv => HeldWhileRunning
  BY DEF Inv, TypeOK, HeldWhileRunning, StartsFirst, Gone, TapHeld
<1> QED
  BY <1>1, InvCorrect, PTL

\* Whatever fails in a boot or a stop, the last one that returns leaves nothing but a
\* tap that the kernel kept, and the log of a setupSerial that failed.
THEOREM NothingLeftCorrect == Spec => []NothingLeft
<1>1. Inv => NothingLeft
  BY DEF Inv, TypeOK, NothingLeft, StartsFirst, TapHeld, OnlyOfKind
<1> QED
  BY <1>1, InvCorrect, PTL

-----------------------------------------------------------------------------
(* Machine implements VMContract                                           *)

USE DEF Contract!cvars

LEMMA ContractInit == Init => Contract!CInit
  BY DEF Init, Contract!CInit

\* The steps of a handler as the contract sees them.
Keeps == vm' = vm /\ kind' = kind /\ (kind = "ch" => ("stuck" \in hit' <=> "stuck" \in hit))

LEMMA ContractStops ==
    ASSUME TypeOK, Keeps, NEW c \in Caller, NEW to \in StopPc,
           pc' = [pc EXCEPT ![c] = to], Stopping(c)
    PROVE  UNCHANGED Contract!cvars
  BY DEF TypeOK, Keeps

LEMMA ContractBoots ==
    ASSUME TypeOK, Keeps, NEW c \in Caller, NEW to \in BootPc,
           pc' = [pc EXCEPT ![c] = to], ~Stopping(c), ~Returned(c)
    PROVE  UNCHANGED Contract!cvars
  BY DEF TypeOK, Keeps

LEMMA ContractAsk ==
    ASSUME TypeOK, Keeps, NEW c \in Caller, NEW to \in StopPc,
           pc' = [pc EXCEPT ![c] = to], ~Stopping(c), ~Returned(c)
    PROVE  Contract!CNext
<1>1. Contract!Ask(c)
  BY DEF TypeOK, Keeps, Contract!Ask
<1> QED
  BY <1>1 DEF Contract!CNext

LEMMA ContractReturn ==
    ASSUME TypeOK, Keeps, NEW c \in Caller, NEW to \in {"ok", "err"},
           pc' = [pc EXCEPT ![c] = to], Stopping(c),
           to = "ok" => ~Runs \/ (kind = "ch" /\ "stuck" \in hit)
    PROVE  Contract!CNext
<1>1. CASE to = "ok"
  <2>1. Contract!StopOk(c)
    BY <1>1 DEF TypeOK, Keeps, Contract!StopOk
  <2> QED
    BY <2>1 DEF Contract!CNext
<1>2. CASE to = "err"
  <2>1. Contract!StopErr(c)
    BY <1>2 DEF TypeOK, Keeps, Contract!StopErr
  <2> QED
    BY <2>1 DEF Contract!CNext
<1> QED
  BY <1>1, <1>2

LEMMA ContractBootWork ==
    ASSUME Inv, BootWork
    PROVE  [Contract!CNext]_Contract!cvars
<1>1. Booter \in Caller /\ TypeOK /\ StartsFirst
  BY DEF Inv
<1>2. CASE Keeps
  <2>1. PICK to \in BootPc \cup {"stop"} : pc' = [pc EXCEPT ![Booter] = to]
    BY DEF BootWork, CreateCH, CreateVZ, Start, Ready, WaitForIP, Adopt
  <2>2. ~Stopping(Booter) /\ ~Returned(Booter)
    BY DEF BootWork, CreateCH, CreateVZ, Start, Ready, WaitForIP, Adopt
  <2>3. CASE to = "stop"
    BY <1>1, <1>2, <2>1, <2>2, <2>3, ContractAsk
  <2>4. CASE to \in BootPc
    BY <1>1, <1>2, <2>1, <2>2, <2>4, ContractBoots
  <2> QED
    BY <2>1, <2>3, <2>4
<1>3. CASE ~Keeps
  <2>1. vm = "none" /\ vm' \in {"starting", "on"} /\ pc' = [pc EXCEPT ![Booter] = "ready"]
    BY <1>1, <1>3 DEF Keeps, BootWork, CreateCH, CreateVZ, Start, Ready, WaitForIP, Adopt,
           StartsFirst
  <2>2. pc[Booter] = "start" /\ hit' = hit /\ kind' = kind
    BY <1>1, <1>3 DEF Keeps, BootWork, CreateCH, CreateVZ, Start, Ready, WaitForIP, Adopt,
           StartsFirst
  <2>3. Contract!Boot
    BY <1>1, <2>1, <2>2 DEF TypeOK, StartsFirst, Contract!Boot
  <2> QED
    BY <2>3 DEF Contract!CNext
<1> QED
  BY <1>2, <1>3

LEMMA ContractStopWork ==
    ASSUME Inv, NEW c \in Caller, StopWork(c)
    PROVE  [Contract!CNext]_Contract!cvars
<1>1. TypeOK /\ Stopping(c) /\ ~Returned(c)
  BY DEF Inv, StopWork, RequestCH, Escalate, Exited, TakeTap, DeleteTap, RemoveSocket,
         RequestVZ, SoftVZ, ForceVZ, LastVZ
<1>2. CASE RequestCH(c) \/ Exited(c) \/ TakeTap(c) \/ DeleteTap(c)
  <2>1. Keeps
    BY <1>2 DEF Keeps, RequestCH, Exited, TakeTap, DeleteTap
  <2>2. PICK to \in StopPc : pc' = [pc EXCEPT ![c] = to]
    BY <1>2 DEF RequestCH, Exited, TakeTap, DeleteTap
  <2> QED
    BY <1>1, <2>1, <2>2, ContractStops
<1>3. CASE Escalate(c)
  <2>1. PICK to \in StopPc : pc' = [pc EXCEPT ![c] = to]
    BY <1>3 DEF Escalate
  <2>2. CASE Keeps
    BY <1>1, <2>1, <2>2, ContractStops
  <2>3. CASE ~Keeps
    <3>1. "stuck" \in hit' /\ vm' = vm /\ kind' = kind /\ kind = "ch"
      BY <1>3, <2>3 DEF Keeps, Escalate
    <3>2. Contract!Late
      BY <1>1, <2>1, <3>1 DEF TypeOK, Contract!Late
    <3> QED
      BY <3>2 DEF Contract!CNext
  <2> QED
    BY <2>2, <2>3
<1>4. CASE RemoveSocket(c)
  <2>1. Keeps /\ pc' = [pc EXCEPT ![c] = "ok"]
    BY <1>4 DEF Keeps, RemoveSocket
  <2>2. ~Runs \/ (kind = "ch" /\ "stuck" \in hit)
    BY <1>4 DEF RemoveSocket, Inv, TypeOK, Gone, OnlyOfKind
  <2> QED
    BY <1>1, <2>1, <2>2, ContractReturn
<1>5. CASE RequestVZ(c) \/ SoftVZ(c) \/ ForceVZ(c) \/ LastVZ(c)
  <2>1. Keeps
    BY <1>5 DEF Keeps, RequestVZ, SoftVZ, ForceVZ, LastVZ
  <2>2. PICK to \in StopPc \cup {"ok", "err"} : pc' = [pc EXCEPT ![c] = to]
    BY <1>5 DEF RequestVZ, SoftVZ, ForceVZ, LastVZ, ReturnVZ
  <2>3. pc'[c] = "ok" => ~Runs
    BY <1>1, <1>5 DEF TypeOK, RequestVZ, SoftVZ, ForceVZ, LastVZ, ReturnVZ
  <2>4. CASE to \in StopPc
    BY <1>1, <2>1, <2>2, <2>4, ContractStops
  <2>5. CASE to \in {"ok", "err"}
    <3>1. to = "ok" => ~Runs
      BY <1>1, <2>2, <2>3 DEF TypeOK
    <3> QED
      BY <1>1, <2>1, <2>2, <2>5, <3>1, ContractReturn
  <2> QED
    BY <2>2, <2>4, <2>5
<1> QED
  BY <1>2, <1>3, <1>4, <1>5 DEF StopWork

LEMMA ContractMachine ==
    ASSUME Inv, Started \/ Dies \/ Obeys \/ Publish
    PROVE  [Contract!CNext]_Contract!cvars
<1>1. CASE Started \/ Publish
  BY <1>1 DEF Started, Publish
<1>2. CASE Dies \/ Obeys
  <2>1. Runs /\ vm' \in {"off", "error"} /\ kind' = kind /\ pc' = pc
    BY <1>2 DEF Dies, Obeys
  <2>2. "stuck" \in hit' <=> "stuck" \in hit
    BY <1>2 DEF Dies, Obeys
  <2>3. Contract!End
    BY <2>1, <2>2 DEF Contract!End
  <2> QED
    BY <2>3 DEF Contract!CNext
<1> QED
  BY <1>1, <1>2

LEMMA ContractCall ==
    ASSUME Inv, NEW c \in Stopper, CallStop(c)
    PROVE  [Contract!CNext]_Contract!cvars
<1>1. Keeps /\ pc' = [pc EXCEPT ![c] = "stop"] /\ ~Stopping(c) /\ ~Returned(c)
  BY DEF CallStop, Keeps
<1> QED
  BY <1>1, ContractAsk DEF Inv

LEMMA ContractStep == Inv /\ [Next]_vars => [Contract!CNext]_Contract!cvars
<1>1. UNCHANGED vars => UNCHANGED Contract!cvars
  BY DEF vars
<1> QED
  BY <1>1, ContractBootWork, ContractStopWork, ContractMachine, ContractCall DEF Next, Idle

\* Stop of either backend keeps the promise of backend.VM: a VM that it reported as
\* stopped is down and stays down, unless it outlived SIGKILL.
THEOREM KeepsContractCorrect == Spec => KeepsContract
  BY ContractInit, ContractStep, InvCorrect, PTL DEF Spec, KeepsContract, Contract!CSpec
=============================================================================
