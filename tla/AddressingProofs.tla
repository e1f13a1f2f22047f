-------------------------- MODULE AddressingProofs --------------------------
(***************************************************************************)
(* Subnets and addresses for any number of clusters and members, any size  *)
(* of subnet and every set of faults.                                      *)
(*                                                                         *)
(* A reservation lives and dies with the network it is in (Chosen), and is *)
(* made only past the reservations there are.  That is NoAddressTwice; it  *)
(* carries the rest: a guest that answers the probe of n is another's only *)
(* if two members boot at once (OneBoots), because one that is up has its  *)
(* own address, and no two reservations are the same.                      *)
(***************************************************************************)
EXTENDS Addressing, TLAPS

HasSubnet(c) == helper[c].at \in {"add", "up"}

\* A network has a subnet from its choice on.
Chosen == \A c \in Cluster : HasSubnet(c) => helper[c].net \in Subnet

\* SubnetsApart, from the choice of the subnets on.
ScansApart ==
    \A c, d \in Cluster :
        c # d /\ HasSubnet(c) /\ HasSubnet(d) /\ helper[c].net = helper[d].net
            => {c, d} \in raced

\* A guest runs from a config, with a reservation.
HasAddress == \A n \in Name : vm[n] # "off" => res[n] # None /\ store[n] # None

OneBoots == ~mixed => \A n \in Name : \A m \in Booting(Of[n]) : n \in Booting(Of[n]) => m = n

\* A member that was up keeps its reservation and its seed.
ServedKeeps ==
    ~mixed => \A n \in served : n \in Name /\ store[n] # None /\ store[n] = res[n] /\ vm[n] # "new"

Inv ==
    /\ TypeOK /\ Chosen /\ NoAddressTwice /\ ScansApart
    /\ HasAddress /\ OneBoots /\ OwnAddress /\ ServedKeeps

-----------------------------------------------------------------------------

LEMMA InitInv == Init => Inv
<1> SUFFICES ASSUME Init PROVE Inv
  OBVIOUS
<1>1. TypeOK
  BY AddressingAssumption DEF Init, TypeOK, Absent
<1>2. Chosen /\ ScansApart
  BY DEF Init, Chosen, ScansApart, HasSubnet, Absent
<1>3. NoAddressTwice /\ HasAddress /\ OneBoots /\ OwnAddress /\ ServedKeeps
  BY DEF Init, NoAddressTwice, HasAddress, OneBoots, Booting, Member, OwnAddress, ServedKeeps
<1> QED
  BY <1>1, <1>2, <1>3 DEF Inv

-----------------------------------------------------------------------------
(* A helper comes up                                                       *)

\* What a helper that is not yet up does to its own state, and to nothing else.
LEMMA HelperStep ==
    ASSUME Inv, NEW c \in Cluster,
           SpawnHelper(c) \/ DetectFreeSubnet(c) \/ AddNetwork(c) \/ AddFails(c)
    PROVE  Inv'
<1>1. TypeOK'
  <2>1. CASE SpawnHelper(c)
    BY <2>1 DEF Inv, TypeOK, SpawnHelper, host, Absent
  <2>2. CASE DetectFreeSubnet(c)
    <3>1. PICK s \in Candidates(c) :
             helper' = [helper EXCEPT ![c] = [at |-> "add", net |-> s, used |-> @.used \cup {s}]]
      BY <2>2 DEF DetectFreeSubnet
    <3>2. s \in Subnet
      BY DEF Candidates, FreeSubnets, Lowest
    <3>3. raced' \in SUBSET SUBSET Cluster
      BY <2>2 DEF Inv, TypeOK, DetectFreeSubnet, Unseen
    <3>4. helper[c].used \in SUBSET Subnet
      BY DEF Inv, TypeOK
    <3>5. [at |-> "add", net |-> s, used |-> helper[c].used \cup {s}]
             \in [at : {"down", "scan", "add", "up"}, net : Subnet \cup {None},
             used : SUBSET Subnet]
      BY <3>2, <3>4
    <3> QED
      BY <2>2, <3>1, <3>3, <3>5 DEF Inv, TypeOK, DetectFreeSubnet, host
  <2>3. CASE AddNetwork(c)
    BY <2>3 DEF Inv, TypeOK, AddNetwork, host
  <2>4. CASE AddFails(c)
    <3>1. helper[c].used \in SUBSET Subnet
      BY DEF Inv, TypeOK
    <3>2. [at |-> "scan", net |-> None, used |-> helper[c].used]
             \in [at : {"down", "scan", "add", "up"}, net : Subnet \cup {None},
             used : SUBSET Subnet]
      BY <3>1
    <3> QED
      BY <2>4, <3>2 DEF Inv, TypeOK, AddFails, host
  <2> QED
    BY <2>1, <2>2, <2>3, <2>4
<1>2. UNCHANGED <<res, store, vm, served, mixed>> /\ raced \subseteq raced'
  BY DEF SpawnHelper, DetectFreeSubnet, AddNetwork, AddFails
<1>3. \A d \in Cluster \ {c} : helper'[d] = helper[d]
  BY DEF Inv, TypeOK, SpawnHelper, DetectFreeSubnet, AddNetwork, AddFails
<1>4. helper[c].at # "up"
  BY DEF SpawnHelper, DetectFreeSubnet, AddNetwork, AddFails
<1>5. Chosen'
  <2>1. CASE SpawnHelper(c) \/ AddFails(c)
    <3>1. ~HasSubnet(c)'
      BY <2>1 DEF Inv, TypeOK, HasSubnet, SpawnHelper, AddFails, Absent
    <3> QED
      BY <1>3, <3>1 DEF Inv, Chosen, HasSubnet
  <2>2. CASE DetectFreeSubnet(c)
    <3>1. helper'[c].net \in Subnet
      BY <2>2 DEF Inv, TypeOK, DetectFreeSubnet, Candidates, FreeSubnets, Lowest
    <3> QED
      BY <1>3, <3>1 DEF Inv, Chosen, HasSubnet
  <2>3. CASE AddNetwork(c)
    <3>1. HasSubnet(c) /\ helper'[c].net = helper[c].net
      BY <2>3 DEF Inv, TypeOK, HasSubnet, AddNetwork
    <3> QED
      BY <1>3, <3>1 DEF Inv, Chosen, HasSubnet
  <2> QED
    BY <2>1, <2>2, <2>3
<1>6. NoAddressTwice'
  BY <1>2, <1>3, <1>4, AddressingAssumption DEF Inv, NoAddressTwice, Member
<1>7. ScansApart'
  <2>1. ASSUME NEW d \in Cluster \ {c}, HasSubnet(c)', HasSubnet(d)',
  helper'[c].net = helper'[d].net
        PROVE  {c, d} \in raced'
    <3>1. CASE SpawnHelper(c) \/ AddFails(c)
      BY <2>1, <3>1 DEF Inv, TypeOK, HasSubnet, SpawnHelper, AddFails, Absent
    <3>2. CASE DetectFreeSubnet(c)
      <4>1. helper'[c].net \notin Occupied
        BY <3>2 DEF Inv, TypeOK, DetectFreeSubnet, Candidates, FreeSubnets, Lowest
      <4>2. helper[d].at # "up"
        BY <1>3, <2>1, <4>1 DEF Occupied, Inv, Chosen, HasSubnet
      <4> QED
        BY <1>3, <2>1, <3>2, <4>2 DEF HasSubnet, DetectFreeSubnet, Unseen
    <3>3. CASE AddNetwork(c)
      <4>1. HasSubnet(c) /\ helper'[c].net = helper[c].net
        BY <3>3 DEF Inv, TypeOK, HasSubnet, AddNetwork
      <4> QED
        BY <1>2, <1>3, <2>1, <4>1 DEF Inv, ScansApart, HasSubnet
    <3> QED
      BY <3>1, <3>2, <3>3
  <2>2. ASSUME NEW d \in Cluster \ {c}, NEW e \in Cluster \ {c}, d # e,
               HasSubnet(d)', HasSubnet(e)', helper'[d].net = helper'[e].net
        PROVE  {d, e} \in raced'
    BY <1>2, <1>3, <2>2 DEF Inv, ScansApart, HasSubnet
  <2>3. \A d, e : {d, e} = {e, d}
    OBVIOUS
  <2> QED
    BY <2>1, <2>2, <2>3 DEF ScansApart, HasSubnet
<1>8. HasAddress' /\ OneBoots' /\ OwnAddress' /\ ServedKeeps'
  BY <1>2 DEF Inv, HasAddress, OneBoots, Booting, Member, OwnAddress, ServedKeeps
<1> QED
  BY <1>1, <1>5, <1>6, <1>7, <1>8 DEF Inv

-----------------------------------------------------------------------------
(* A member comes up and goes                                              *)

\* What Reserve answers is the name's reservation, or an address in the subnet of
\* the network that no other member of it has.
LEMMA OfferFree ==
    ASSUME Inv, NEW n \in Name, helper[Of[n]].at = "up", NEW a \in Offer(n, Hint(n))
    PROVE  /\ a \in Address
           /\ a.net = helper[Of[n]].net /\ a.host # Gateway
           /\ res[n] # None => a = res[n]
           /\ \A m \in Member(Of[n]) \ {n} : res[m] # a
<1> USE AddressingAssumption
<1>1. Of[n] \in Cluster /\ n \in Member(Of[n])
  BY DEF Member
<1>2. helper[Of[n]].net \in Subnet
  BY <1>1 DEF Inv, Chosen, HasSubnet
<1>3. res[n] \in Address \cup {None} /\ store[n] \in Address \cup {None}
  BY DEF Inv, TypeOK
<1>4. CASE res[n] # None
  <2>1. a = res[n]
    BY <1>4 DEF Offer
  <2> QED
    BY <1>3, <1>4, <2>1 DEF Inv, NoAddressTwice, Member
<1>5. CASE res[n] = None
  <2>1. ASSUME a \in Address, a.net = helper[Of[n]].net, a.host \notin Reserved(Of[n])
        PROVE  \A m \in Member(Of[n]) \ {n} : res[m] # a
    <3> SUFFICES ASSUME NEW m \in Member(Of[n]), res[m] = a PROVE FALSE
      BY DEF Member
    <3>1. a # None
      BY <2>1
    <3> QED
      BY <2>1, <3>1 DEF Reserved
  <2>2. CASE Honoured(n, Hint(n))
    <3>1. a = store[n] /\ a # None
      BY <1>5, <2>2 DEF Offer, Hint, Honoured
    <3> QED
      BY <1>3, <1>5, <2>1, <2>2, <3>1 DEF Honoured, Hint, Subnet24
  <2>3. CASE ~Honoured(n, Hint(n))
    <3>1. a \in [net : {Subnet24(Of[n])}, host : Lowest(FreeHosts(Of[n]))]
      BY <1>5, <2>3 DEF Offer
    <3>2. a.host \in Usable \ Reserved(Of[n])
      BY <3>1 DEF Lowest, FreeHosts
    <3>3. a.host \in Host /\ a.host # Gateway
      BY <3>2 DEF Usable, Host, Gateway
    <3>4. a \in Address /\ a.net = helper[Of[n]].net
      BY <1>2, <3>1, <3>3 DEF Subnet24, Address
    <3> QED
      BY <1>5, <2>1, <3>2, <3>3, <3>4
  <2> QED
    BY <2>2, <2>3
<1> QED
  BY <1>4, <1>5

LEMMA StartStep ==
    ASSUME Inv, NEW n \in Name, StartMember(n)
    PROVE  Inv'
<1> USE AddressingAssumption
<1>1. PICK a \in Offer(n, Hint(n)) :
         /\ res' = [res EXCEPT ![n] = a]
         /\ store' = [store EXCEPT ![n] = IF @ = None THEN a ELSE @]
  BY DEF StartMember
<1>2. /\ a \in Address
      /\ a.net = helper[Of[n]].net /\ a.host # Gateway
      /\ res[n] # None => a = res[n]
      /\ \A m \in Member(Of[n]) \ {n} : res[m] # a
  BY OfferFree DEF StartMember
<1>3. a # None
  BY <1>2
<1>4. /\ UNCHANGED <<helper, raced, served>>
      /\ helper[Of[n]].at = "up" /\ vm[n] = "off"
      /\ vm' = [vm EXCEPT ![n] = IF store[n] = None THEN "new" ELSE "boot"]
      /\ mixed' = (mixed \/ Booting(Of[n]) # {})
  BY DEF StartMember
<1>5. TypeOK'
  BY <1>1, <1>2, <1>4 DEF Inv, TypeOK, StartMember, host
<1>6. Chosen' /\ ScansApart'
  BY <1>4 DEF Inv, Chosen, ScansApart, HasSubnet
<1>7. NoAddressTwice'
  <2> SUFFICES ASSUME NEW k \in Name, res'[k] # None
               PROVE  /\ helper[Of[k]].at = "up" /\ res'[k].net = helper[Of[k]].net
                      /\ res'[k].host # Gateway
                      /\ \A m \in Member(Of[k]) \ {k} : res'[m] # res'[k]
    BY <1>4 DEF NoAddressTwice, Member
  <2>1. CASE k = n
    BY <1>1, <1>2, <1>4, <2>1 DEF Inv, TypeOK, Member
  <2>2. CASE k # n
    BY <1>1, <1>2, <2>2 DEF Inv, TypeOK, NoAddressTwice, Member
  <2> QED
    BY <2>1, <2>2
<1>8. HasAddress'
  BY <1>1, <1>3, <1>4 DEF Inv, TypeOK, HasAddress
<1>9. OneBoots'
  BY <1>4 DEF Inv, TypeOK, OneBoots, Booting, Member
<1>10. OwnAddress'
  BY <1>1, <1>4 DEF Inv, TypeOK, OwnAddress
<1>11. ServedKeeps'
  BY <1>1, <1>2, <1>4 DEF Inv, TypeOK, ServedKeeps
<1> QED
  BY <1>5, <1>6, <1>7, <1>8, <1>9, <1>10, <1>11 DEF Inv

\* Where no two members boot at once, the guest that answers is the member's own.
LEMMA AnswersOwn ==
    ASSUME Inv, ~mixed, NEW n \in Name, vm[n] \in {"new", "boot"}, Answers(n)
    PROVE  store[n] = res[n]
<1>1. PICK m \in Member(Of[n]) : vm[m] # "off" /\ store[m] = res[n]
  BY DEF Answers
<1>2. m \in Name /\ Of[m] = Of[n] /\ vm[m] \in {"new", "boot", "up"}
  BY <1>1 DEF Member, Inv, TypeOK
<1>3. CASE vm[m] = "up"
  <2>1. res[m] = res[n] /\ res[n] # None
    BY <1>1, <1>2, <1>3 DEF Inv, OwnAddress, HasAddress
  <2> QED
    BY <1>1, <1>2, <2>1 DEF Inv, NoAddressTwice, Member
<1>4. CASE vm[m] # "up"
  BY <1>1, <1>2, <1>4 DEF Inv, OneBoots, Booting, Member
<1> QED
  BY <1>3, <1>4

LEMMA MemberStep ==
    ASSUME Inv, NEW n \in Name, Booted(n) \/ BootFails(n) \/ Down(n) \/ Remove(n)
    PROVE  Inv'
<1>1. UNCHANGED <<helper, res, raced, mixed>> /\ TypeOK'
  BY DEF Booted, BootFails, Down, Remove, Inv, TypeOK, host
<1>2. Chosen' /\ NoAddressTwice' /\ ScansApart'
  BY <1>1 DEF Inv, Chosen, NoAddressTwice, ScansApart, HasSubnet, Member
<1>3. HasAddress' /\ OneBoots'
  BY <1>1 DEF Inv, TypeOK, HasAddress, OneBoots, Booting, Member, Booted, BootFails, Down, Remove
<1>4. OwnAddress' /\ ServedKeeps'
  <2>1. CASE Booted(n)
    <3>1. ~mixed => store[n] = res[n] /\ store[n] # None
      BY <2>1, AnswersOwn DEF Booted, Inv, HasAddress
    <3> QED
      BY <1>1, <2>1, <3>1 DEF Inv, TypeOK, OwnAddress, ServedKeeps, Booted
  <2>2. CASE BootFails(n) \/ Down(n) \/ Remove(n)
    BY <1>1, <2>2 DEF Inv, TypeOK, OwnAddress, ServedKeeps, BootFails, Down, Remove
  <2> QED
    BY <2>1, <2>2
<1> QED
  BY <1>1, <1>2, <1>3, <1>4 DEF Inv

-----------------------------------------------------------------------------
(* A helper ends                                                           *)

LEMMA EndStep ==
    ASSUME Inv, NEW c \in Cluster, Exit(c) \/ Crash(c)
    PROVE  Inv'
<1> USE AddressingAssumption
<1>1. /\ helper' = [helper EXCEPT ![c] = Absent]
      /\ res' = [n \in Name |-> IF Of[n] = c THEN None ELSE res[n]]
      /\ served' = served \ Member(c)
      /\ UNCHANGED <<store, raced, mixed>>
  BY DEF Exit, Crash, Forget
<1>2. vm' = [n \in Name |-> IF Of[n] = c THEN "off" ELSE vm[n]]
  BY DEF Inv, TypeOK, Exit, Crash, Member
<1>3. TypeOK'
  <2>1. wedged' \in SUBSET Subnet /\ kind' = kind /\ lan' = lan
    BY DEF Inv, TypeOK, Chosen, HasSubnet, Exit, Crash, host
  <2> QED
    BY <1>1, <1>2, <2>1 DEF Inv, TypeOK, Absent
<1>4. Chosen' /\ ScansApart'
  BY <1>1 DEF Inv, TypeOK, Chosen, ScansApart, HasSubnet, Absent
<1>5. NoAddressTwice' /\ HasAddress'
  BY <1>1, <1>2 DEF Inv, TypeOK, NoAddressTwice, HasAddress, Member
<1>6. OneBoots' /\ OwnAddress' /\ ServedKeeps'
  BY <1>1, <1>2 DEF Inv, TypeOK, OneBoots, OwnAddress, ServedKeeps, Booting, Member
<1> QED
  BY <1>3, <1>4, <1>5, <1>6 DEF Inv

-----------------------------------------------------------------------------

LEMMA InvStep == Inv /\ [Next]_vars => Inv'
<1> SUFFICES ASSUME Inv, [Next]_vars PROVE Inv'
  OBVIOUS
<1>1. CASE UNCHANGED vars \/ \E s \in Subnet : Joins(s)
  <2>1. UNCHANGED <<helper, res, store, vm, raced, served, mixed>> /\ TypeOK'
    BY <1>1 DEF vars, host, Joins, Inv, TypeOK
  <2>2. Chosen' /\ NoAddressTwice' /\ ScansApart'
    BY <2>1 DEF Inv, Chosen, NoAddressTwice, ScansApart, HasSubnet, Member
  <2>3. HasAddress' /\ OneBoots' /\ OwnAddress' /\ ServedKeeps'
    BY <2>1 DEF Inv, HasAddress, OneBoots, Booting, Member, OwnAddress, ServedKeeps
  <2> QED
    BY <2>1, <2>2, <2>3 DEF Inv
<1>2. CASE \E c \in Cluster :
              SpawnHelper(c) \/ DetectFreeSubnet(c) \/ AddNetwork(c) \/ AddFails(c)
  BY <1>2, HelperStep
<1>3. CASE \E c \in Cluster : Exit(c) \/ Crash(c)
  BY <1>3, EndStep
<1>4. CASE \E n \in Name : StartMember(n)
  BY <1>4, StartStep
<1>5. CASE \E n \in Name : Booted(n) \/ BootFails(n) \/ Down(n) \/ Remove(n)
  BY <1>5, MemberStep
<1> QED
  BY <1>1, <1>2, <1>3, <1>4, <1>5 DEF Next

LEMMA InvCorrect == Spec => []Inv
  BY InitInv, InvStep, PTL DEF Spec

-----------------------------------------------------------------------------

\* Every variable keeps its type.
THEOREM AddressingTypeCorrect == Spec => []TypeOK
<1>1. Inv => TypeOK
  BY DEF Inv
<1> QED
  BY <1>1, InvCorrect, PTL

\* No two members of a live network hold one address, however Reserve is hinted
\* and whichever helper, member or boot fails.
THEOREM NoAddressTwiceCorrect == Spec => []NoAddressTwice
<1>1. Inv => NoAddressTwice
  BY DEF Inv
<1> QED
  BY <1>1, InvCorrect, PTL

\* Only a race of two scans of detectFreeIPv4Subnet gives two networks one /24.
THEOREM SubnetsApartCorrect == Spec => []SubnetsApart
<1>1. Inv => SubnetsApart
  BY DEF Inv, ScansApart, SubnetsApart, HasSubnet
<1> QED
  BY <1>1, InvCorrect, PTL

\* WaitForIP accepts no other member's guest, where members are brought up one
\* after the other.
THEOREM OwnAddressCorrect == Spec => []OwnAddress
<1>1. Inv => OwnAddress
  BY DEF Inv
<1> QED
  BY <1>1, InvCorrect, PTL

\* A member that was up returns to its own address while the helper lives.
THEOREM RejoinKeepsCorrect == Spec => []RejoinKeeps
<1>1. Inv => RejoinKeeps
  BY DEF Inv, ServedKeeps, RejoinKeeps, Offer
<1> QED
  BY <1>1, InvCorrect, PTL
=============================================================================
