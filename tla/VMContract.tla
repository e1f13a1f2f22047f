----------------------------- MODULE VMContract -----------------------------
(***************************************************************************)
(* What the holder may take for granted of one backend.VM (backend.go): a   *)
(* VM that Stop reported as stopped is down, and does not come up again.   *)
(***************************************************************************)

CONSTANT Caller  \* those who may call Stop

VARIABLES
    vm,      \* "none", "up" or "down"
    call,    \* the call of Stop of each: "none", "asked", "ok" or "err"
    late     \* a VM outlived the last wait that Stop grants it

cvars == <<vm, call, late>>

CInit == vm = "none" /\ call = [c \in Caller |-> "none"] /\ late = FALSE

\* A VM starts once, and not after a Stop of it has returned.
Boot ==
    /\ vm = "none" /\ \A c \in Caller : call[c] \in {"none", "asked"}
    /\ vm' = "up"
    /\ UNCHANGED <<call, late>>

End == vm = "up" /\ vm' = "down" /\ UNCHANGED <<call, late>>

Ask(c) ==
    /\ call[c] = "none"
    /\ call' = [call EXCEPT ![c] = "asked"]
    /\ UNCHANGED <<vm, late>>

\* The promise.
StopOk(c) ==
    /\ call[c] = "asked" /\ (vm # "up" \/ late)
    /\ call' = [call EXCEPT ![c] = "ok"]
    /\ UNCHANGED <<vm, late>>

StopErr(c) ==
    /\ call[c] = "asked"
    /\ call' = [call EXCEPT ![c] = "err"]
    /\ UNCHANGED <<vm, late>>

Late == (\E c \in Caller : call[c] = "asked") /\ late' = TRUE /\ UNCHANGED <<vm, call>>

CNext == Boot \/ End \/ Late \/ \E c \in Caller : Ask(c) \/ StopOk(c) \/ StopErr(c)

CSpec == CInit /\ [][CNext]_cvars
=============================================================================
