----------------------------- MODULE Addressing -----------------------------
(***************************************************************************)
(* Subnets and addresses: detectFreeIPv4Subnet of both backends, Reserve of *)
(* cloud-hypervisor/network.go behind holder.go, and what startOnNetwork   *)
(* keeps of a reservation in the store and the seed of a VM.               *)
(*                                                                         *)
(* A subnet is the third octet of its /24 and an address its last one.  The *)
(* network is not kept over a restart of the helper; the address in the    *)
(* seed is, and it is the one the guest has whatever the helper reserves.  *)
(***************************************************************************)
EXTENDS Naturals, FiniteSets

CONSTANTS
    Kinds,       \* the backends: "ch", and "vz", where only the subnet is chosen
    Cluster,     \* the clusters, a helper each while one is up
    Name,        \* the members
    Of,          \* name -> its cluster
    LastSubnet,  \* 255 in the code
    LastHost,    \* 255 in the code: the broadcast address
    Faults,      \* what may go wrong, see below
    None

\* Faults a run may allow:
\*   add       the network cannot be made after its subnet was picked
\*   crash     a helper dies
\*   boot      a guest does not come up in time, whatever its address
\*   lan       the host joins another network
\*   together  two members of a cluster are brought up at the same time
Fault == {"add", "crash", "boot", "lan", "together"}

Gateway == 1
Subnet == 0 .. LastSubnet
Host == 0 .. LastHost
Usable == Gateway + 1 .. LastHost - 1
Address == [net : Subnet, host : Host]

ASSUME AddressingAssumption ==
    /\ Kinds \subseteq {"ch", "vz"}
    /\ Of \in [Name -> Cluster]
    /\ LastSubnet \in Nat /\ LastHost \in Nat
    /\ Faults \subseteq Fault
    /\ None \notin Address /\ None \notin Subnet

VARIABLES
    kind,    \* the backend
    lan,     \* the subnets of the host's other interfaces
    helper,  \* cluster -> where its helper is, its subnet, and reservedSubnets
    res,     \* name -> the reservation of the live helper
    store,   \* name -> the address in the config and the seed
    vm,      \* name -> the VM; "new" boots for the first time
    wedged,  \* vz: the subnets of helpers that died
    raced,   \* history: pairs of clusters that scanned before the other's bridge had
             \* its address
    served,  \* history: the members that were up under the live helper
    mixed    \* history: members were brought up together

host == <<kind, lan>>
vars == <<host, helper, res, store, vm, wedged, raced, served, mixed>>

TypeOK ==
    /\ kind \in Kinds
    /\ lan \in SUBSET Subnet
    /\ helper \in [Cluster -> [at : {"down", "scan", "add", "up"},
                               net : Subnet \cup {None}, used : SUBSET Subnet]]
    /\ res \in [Name -> Address \cup {None}]
    /\ store \in [Name -> Address \cup {None}]
    /\ vm \in [Name -> {"off", "new", "boot", "up"}]
    /\ wedged \in SUBSET Subnet
    /\ raced \in SUBSET SUBSET Cluster
    /\ served \in SUBSET Name
    /\ mixed \in BOOLEAN

-----------------------------------------------------------------------------

Allowed(f) == f \in Faults
Lowest(S) == {x \in S : \A y \in S : x <= y}
Member(c) == {n \in Name : Of[n] = c}
Absent == [at |-> "down", net |-> None, used |-> {}]

Init ==
    /\ kind \in Kinds
    /\ lan \in SUBSET Subnet
    /\ helper = [c \in Cluster |-> Absent]
    /\ res = [n \in Name |-> None]
    /\ store = [n \in Name |-> None]
    /\ vm = [n \in Name |-> "off"]
    /\ wedged = {} /\ raced = {} /\ served = {} /\ mixed = FALSE

-----------------------------------------------------------------------------
(* The subnet                                                              *)

\* Mutant: only this process's choices are avoided, not the host's bridges.
OccupiedByOthers == lan

\* What net.Interfaces shows: a bridge once it has its address.
Occupied == lan \cup {s \in Subnet : \E c \in Cluster : helper[c].at = "up" /\ helper[c].net = s}

FreeSubnets(c) == Subnet \ (Occupied \cup helper[c].used)

\* The first free one: from 0 on Linux, from a random octet on macOS.
Candidates(c) == IF kind = "vz" THEN FreeSubnets(c) ELSE Lowest(FreeSubnets(c))

SpawnHelper(c) ==
    /\ helper[c].at = "down"
    /\ helper' = [helper EXCEPT ![c] = [Absent EXCEPT !.at = "scan"]]
    /\ UNCHANGED <<host, res, store, vm, wedged, raced, served, mixed>>

\* The clusters that hold a subnet nobody else can see yet.
Unseen(c) == {d \in Cluster \ {c} : helper[d].at = "add"}

\* The scan and the choice; without a free subnet create-network fails.
DetectFreeSubnet(c) ==
    /\ helper[c].at = "scan"
    /\ \E s \in Candidates(c) :
          helper' = [helper EXCEPT ![c] = [at |-> "add", net |-> s, used |-> @.used \cup {s}]]
    /\ raced' = raced \cup {{c, d} : d \in Unseen(c)}
    /\ UNCHANGED <<host, res, store, vm, wedged, served, mixed>>

\* The bridge gets its address, or the subnet is given to vmnet, which refuses one
\* that is wedged.
AddNetwork(c) ==
    /\ helper[c].at = "add" /\ helper[c].net \notin wedged
    /\ helper' = [helper EXCEPT ![c].at = "up"]
    /\ UNCHANGED <<host, res, store, vm, wedged, raced, served, mixed>>

\* A later create-network of the same helper does not choose that subnet again.
AddFails(c) ==
    /\ helper[c].at = "add"
    /\ helper[c].net \in wedged \/ Allowed("add")
    /\ helper' = [helper EXCEPT ![c] = [at |-> "scan", net |-> None, used |-> @.used]]
    /\ UNCHANGED <<host, res, store, vm, wedged, raced, served, mixed>>

-----------------------------------------------------------------------------
(* The address                                                             *)

Subnet24(c) == helper[c].net
Reserved(c) == {res[m].host : m \in {m \in Member(c) : res[m] # None}}

\* Mutant: an address that somebody has is honoured.
HonouredTaken(n, hint) ==
    hint # None /\ hint.net = Subnet24(Of[n]) /\ hint.host # Gateway

\* The hint: in the subnet, not the gateway, and free.
Honoured(n, hint) ==
    /\ hint # None
    /\ hint.net = Subnet24(Of[n]) /\ hint.host # Gateway
    /\ hint.host \notin Reserved(Of[n])

FreeHosts(c) == Usable \ Reserved(c)

\* Reserve of the holder and of the network: what they answer for a hint.  A name
\* has its first reservation as long as the helper lives.
Offer(n, hint) ==
    IF res[n] # None THEN {res[n]}
    ELSE IF Honoured(n, hint) THEN {hint}
    ELSE [net : {Subnet24(Of[n])}, host : Lowest(FreeHosts(Of[n]))]

Hint(n) == store[n]

Booting(c) == {m \in Member(c) : vm[m] \in {"new", "boot"}}

\* Reserve, then the config and the seed of a VM that does not exist.  An existing
\* one keeps both; the client that brings members up does it one by one.
StartMember(n) ==
    /\ kind = "ch" /\ helper[Of[n]].at = "up" /\ vm[n] = "off"
    /\ Booting(Of[n]) = {} \/ Allowed("together")
    /\ mixed' = (mixed \/ Booting(Of[n]) # {})
    /\ \E a \in Offer(n, Hint(n)) :
          /\ res' = [res EXCEPT ![n] = a]
          /\ store' = [store EXCEPT ![n] = IF @ = None THEN a ELSE @]
    /\ vm' = [vm EXCEPT ![n] = IF store[n] = None THEN "new" ELSE "boot"]
    /\ UNCHANGED <<host, helper, wedged, raced, served>>

\* Mutant: a guest is believed to have the address reserved for it.
AnswersAlways(n) == TRUE

\* The probe of WaitForIP: some guest on the bridge has the reserved address.
Answers(n) == \E m \in Member(Of[n]) : vm[m] # "off" /\ store[m] = res[n]

Booted(n) ==
    /\ vm[n] \in {"new", "boot"} /\ Answers(n)
    /\ vm' = [vm EXCEPT ![n] = "up"]
    /\ served' = served \cup {n}
    /\ UNCHANGED <<host, helper, res, store, wedged, raced, mixed>>

\* The wait times out: the VM is stopped, and deleted when this call made it.  The
\* reservation stays.
BootFails(n) ==
    /\ vm[n] \in {"new", "boot"}
    /\ ~Answers(n) \/ Allowed("boot")
    /\ vm' = [vm EXCEPT ![n] = "off"]
    /\ store' = [store EXCEPT ![n] = IF vm[n] = "new" THEN None ELSE @]
    /\ UNCHANGED <<host, helper, res, wedged, raced, served, mixed>>

\* Mutant: a member that leaves gives its address back.
DownFrees(n) ==
    /\ vm[n] = "up"
    /\ vm' = [vm EXCEPT ![n] = "off"]
    /\ res' = [res EXCEPT ![n] = None]
    /\ UNCHANGED <<host, helper, store, wedged, raced, served, mixed>>

Down(n) ==
    /\ vm[n] = "up"
    /\ vm' = [vm EXCEPT ![n] = "off"]
    /\ UNCHANGED <<host, helper, res, store, wedged, raced, served, mixed>>

Remove(n) ==
    /\ vm[n] = "off" /\ store[n] # None
    /\ store' = [store EXCEPT ![n] = None]
    /\ served' = served \ {n}
    /\ UNCHANGED <<host, helper, res, vm, wedged, raced, mixed>>

-----------------------------------------------------------------------------
(* The end of a helper, and the host                                       *)

Forget(c) ==
    /\ helper' = [helper EXCEPT ![c] = Absent]
    /\ res' = [n \in Name |-> IF Of[n] = c THEN None ELSE res[n]]
    /\ served' = served \ Member(c)

\* Its last member is down, or it never got one.
Exit(c) ==
    /\ helper[c].at # "down"
    /\ \A n \in Member(c) : vm[n] = "off"
    /\ Forget(c)
    /\ UNCHANGED <<host, store, vm, wedged, raced, mixed>>

\* On Linux the orphaned bridge is reconciled before the next scan; on macOS the
\* subnet stays with the framework.
Crash(c) ==
    /\ helper[c].at # "down"
    /\ Allowed("crash")
    /\ Forget(c)
    /\ vm' = [n \in Name |-> IF Of[n] = c THEN "off" ELSE vm[n]]
    /\ wedged' = IF kind = "vz" /\ helper[c].at = "up" THEN wedged \cup {helper[c].net}
                                                       ELSE wedged
    /\ UNCHANGED <<host, store, raced, served, mixed>>

Joins(s) ==
    /\ s \notin lan
    /\ Allowed("lan")
    /\ lan' = lan \cup {s}
    /\ UNCHANGED <<kind, helper, res, store, vm, wedged, raced, served, mixed>>

Next ==
    \/ \E c \in Cluster :
          \/ SpawnHelper(c) \/ DetectFreeSubnet(c) \/ AddNetwork(c) \/ AddFails(c)
          \/ Exit(c) \/ Crash(c)
    \/ \E n \in Name : StartMember(n) \/ Booted(n) \/ BootFails(n) \/ Down(n) \/ Remove(n)
    \/ \E s \in Subnet : Joins(s)

Spec == Init /\ [][Next]_vars

-----------------------------------------------------------------------------

\* Two members of a live network never hold the same reservation, none holds the
\* gateway, and all are in its subnet, however members come, go and return with
\* hints of another time (network.go:162, holder.go:411).
NoAddressTwice ==
    \A n \in Name : res[n] # None =>
        /\ helper[Of[n]].at = "up" /\ res[n].net = helper[Of[n]].net
        /\ res[n].host # Gateway
        /\ \A m \in Member(Of[n]) \ {n} : res[m] # res[n]

\* Two clusters share a /24 only if one scanned before the other's bridge had its
\* address: nothing orders the scans of two helpers (network.go:398-420).
SubnetsApart ==
    \A c, d \in Cluster :
        c # d /\ helper[c].at = "up" /\ helper[d].at = "up" /\ helper[c].net = helper[d].net
            => {c, d} \in raced

\* The member that is up at an address is the guest that has it, unless members
\* were brought up together: then another one's guest may answer its probe.
OwnAddress ==
    ~mixed => \A n \in Name : vm[n] = "up" => store[n] = res[n]

\* A member that was up can leave and return for as long as the helper lives: its
\* address is offered to it again, and to nobody else in between.
RejoinKeeps ==
    ~mixed => \A n \in served : Offer(n, Hint(n)) = {store[n]}

\* A stopped member keeps its address while its /24 stays free
\* (orchestrator.go:234-235).  The code chooses the lowest free /24 whatever the
\* members' seeds say, and in it the lowest free address for a new member, also one
\* that is in the seed of a member not yet back.
KeepsAddress ==
    [][\A n \in Name :
         /\ res[n] = None /\ res'[n] # None /\ store[n] # None
         /\ \A c \in Cluster \ {Of[n]} : helper[c].net # store[n].net
         /\ store[n].net \notin lan
         => res'[n] = store[n]]_vars
=============================================================================
