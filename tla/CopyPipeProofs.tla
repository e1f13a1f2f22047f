--------------------------- MODULE CopyPipeProofs ---------------------------
(* Proofs about CopyPipe, for all trees, windows and faults.                *)
EXTENDS CopyPipe, SequenceTheorems, TLAPS

\* Where an item stands in an archive; what a tree has; what is in the channel.
Place(x) == CHOOSE i \in Places : ItemAt(i) = x
Present(p) == tree[p] # None
InChan(x) == \E k \in 1 .. Len(chan.items) : chan.items[k] = x

-----------------------------------------------------------------------------

\* The goroutine and the caller: where each may be, and what that says of the pipe.
Ctl ==
    /\ tree \in Trees
    /\ way = "to" => /\ gor.pc # "start"
                     /\ main.pc # "restore"
    /\ way = "from" => main.pc \in {"work", "restore", "drain", "join", "done"}
    /\ pipe.closed = IF gor.pc = "done" THEN gor.err ELSE "open"
    /\ pipe.item # None => gor.pc = "offered"
    /\ gor.err = "err" => gor.pc \in {"close", "done"}
    /\ main.item # None <=> main.pc = "send"
    /\ main.pc \in {"join", "done"} => gor.pc = "done"
    /\ main.err = "err" => main.pc \in {"drain", "join", "done"}
    /\ result # "none" => main.pc = "done" /\ result = Verdict
    /\ guest.is = "err" => "guest" \in hit
    /\ guest.is = "lost" => "lost" \in hit

\* What the guest is to take: the end mark is the last thing in flight.
EndLast ==
    /\ pipe.item = "end" => Written(gor.next)
    /\ main.item = "end" => Written(gor.next) /\ pipe.item = None
    /\ \A k \in 1 .. Len(chan.items) : chan.items[k] = "end" =>
         Written(gor.next) /\ k = Len(chan.items) /\ main.item = None /\ pipe.item = None
    /\ "end" \in got =>
         Written(gor.next) /\ Len(chan.items) = 0 /\ main.item = None /\ pipe.item = None

Complete == \A p \in Path : Present(p) => p \in got

\* Nothing that was written is lost while the guest reads.
Flow ==
    guest.is \in {"none", "runs"} /\ main.pc \in {"start", "work", "send", "wait"} =>
        \A p \in Path : Present(p) /\ Place(p) < gor.next =>
            p \in got \/ InChan(p) \/ main.item = p \/ pipe.item = p

\* What the guest took for a whole archive is one, or was cut by its producer.
Whole == guest.is = "ok" => Complete \/ (gor.pc = "done" /\ gor.err = "err")

\* Who waits for whom, and whose error it was.
ToCtl ==
    /\ main.pc = "start" => guest.is = "none"
    /\ guest.is = "runs" => main.pc \in {"work", "send", "wait"}
    /\ chan.eof => main.pc \notin {"start", "work", "send"}
    /\ main.pc = "wait" /\ guest.is = "runs" => gor.pc = "done"
    /\ gor.pc \in {"close", "done"} /\ gor.err = "ok" => Written(gor.next)
    /\ main.err = "ok" /\ main.pc \in {"drain", "join", "done"} => guest.is = "ok"
    /\ gor.err = "err" => HostRefuses
    /\ main.err = "err" => hit \cap {"session", "guest", "lost"} # {}

ToInv == ToCtl /\ EndLast /\ Flow /\ Whole

\* What comes from the guest comes in the order of the walk.
InOrder ==
    /\ \A k \in 1 .. Len(chan.items) :
         /\ Place(chan.items[k]) < guest.next /\ InArchive(Place(chan.items[k]))
         /\ \A l \in 1 .. k - 1 : Place(chan.items[l]) < Place(chan.items[k])
         /\ pipe.item # None => Place(pipe.item) < Place(chan.items[k])
    /\ pipe.item # None => Place(pipe.item) < guest.next /\ InArchive(Place(pipe.item))
    /\ \A p \in Path : dest[p].new =>
         /\ Place(p) < guest.next
         /\ pipe.item # None => Place(p) < Place(pipe.item)
         /\ \A k \in 1 .. Len(chan.items) : Place(p) < Place(chan.items[k])

Extracted(p) ==
    IF tree[p] \in Dirs THEN p \in main.dirs
    ELSE Skipped(p) \/ (dest[p].kind = tree[p] /\ dest[p].new)

\* Nothing is written for what is skipped.
Untouched == \A p \in Path : Skipped(p) => ~dest[p].new

\* Nothing before what is in flight was passed over.
NoGap ==
    \A p \in Path : Present(p) =>
        /\ pipe.item # None /\ Place(p) < Place(pipe.item) => Extracted(p)
        /\ \A k \in 1 .. Len(chan.items) : Place(p) < Place(chan.items[k]) =>
             \/ Extracted(p) \/ pipe.item = p
             \/ \E l \in 1 .. k - 1 : chan.items[l] = p
        /\ guest.is # "lost" /\ Place(p) < guest.next => Extracted(p) \/ pipe.item = p \/ InChan(p)

\* A directory that is being written into stays open until its children are restored.
DirsInv ==
    \A p \in main.dirs :
        /\ tree[p] \in Dirs /\ dest[p].kind \in Dirs
        /\ dest[p].new => dest[p].kind = "dir"
        /\ Parent[p] \in Path => Parent[p] \in main.dirs

Restoring ==
    \A p \in Path : Present(p) =>
        IF tree[p] \in Dirs THEN p \in main.dirs \/ dest[p].kind = tree[p]
        ELSE Skipped(p) \/ (dest[p].kind = tree[p] /\ dest[p].new)

\* What ended the copy, and whose error it was.
FromCtl ==
    /\ gor.pc = "start" => guest.is = "none"
    /\ main.err = "err" => HostRefuses \/ gor.err = "err"
    /\ gor.err = "err" => hit \cap {"session", "guest", "lost"} # {}

FromInv ==
    /\ InOrder
    /\ Untouched
    /\ main.pc = "work" => NoGap
    /\ main.pc \in {"work", "restore"} => DirsInv
    /\ main.pc = "restore" => Restoring
    /\ main.pc \in {"drain", "join", "done"} /\ main.err = "ok" => Restoring /\ main.dirs = {}
    /\ FromCtl

\* The inductive invariant.
Inv == TypeOK /\ Ctl /\ (way = "to" => ToInv) /\ (way = "from" => FromInv)

-----------------------------------------------------------------------------
(* The archive, and sequences                                              *)

\* Every item has one place, the end mark the last.
LEMMA PlaceFacts ==
    /\ Len(Walk) \in Nat
    /\ \A x \in Item : Place(x) \in Places /\ ItemAt(Place(x)) = x
    /\ \A i \in Places : ItemAt(i) \in Item /\ Place(ItemAt(i)) = i
    /\ Place("end") = Len(Walk) + 1
    /\ \A p \in Path : Place(p) \in 1 .. Len(Walk) /\ Walk[Place(p)] = p
  <1>1. Walk \in Seq(Path) /\ Len(Walk) \in Nat /\ \A i \in 1 .. Len(Walk) : Walk[i] \in Path
    BY CopyAssumption, ElementOfSeq, LenProperties
  <1>2. \A x \in Item : \E i \in Places : ItemAt(i) = x
    <2>1. ASSUME NEW x \in Path PROVE \E i \in Places : ItemAt(i) = x
      <3>1. PICK i \in 1 .. Len(Walk) : Walk[i] = x
        BY <2>1 DEF Path
      <3>2. i \in Places /\ ItemAt(i) = x
        BY <3>1, <1>1 DEF Places, ItemAt
      <3> QED
        BY <3>2
    <2>2. Len(Walk) + 1 \in Places /\ ItemAt(Len(Walk) + 1) = "end"
      BY <1>1 DEF Places, ItemAt
    <2> QED
      BY <2>1, <2>2 DEF Item
  <1>3. \A x \in Item : Place(x) \in Places /\ ItemAt(Place(x)) = x
    BY <1>2 DEF Place
  <1>4. \A i, j \in Places : ItemAt(i) = ItemAt(j) => i = j
    <2> SUFFICES ASSUME NEW i \in Places, NEW j \in Places, ItemAt(i) = ItemAt(j) PROVE i = j
      OBVIOUS
    <2>1. CASE i <= Len(Walk) /\ j <= Len(Walk)
      BY <2>1, <1>1, CopyAssumption DEF Places, ItemAt
    <2>2. CASE i = Len(Walk) + 1 /\ j = Len(Walk) + 1
      BY <2>2
    <2>3. CASE i = Len(Walk) + 1 /\ j <= Len(Walk)
      <3>1. "end" = Walk[j] /\ Walk[j] \in Path
        BY <2>3, <1>1 DEF Places, ItemAt
      <3> QED
        BY <3>1, CopyAssumption
    <2>4. CASE j = Len(Walk) + 1 /\ i <= Len(Walk)
      <3>1. "end" = Walk[i] /\ Walk[i] \in Path
        BY <2>4, <1>1 DEF Places, ItemAt
      <3> QED
        BY <3>1, CopyAssumption
    <2> QED
      BY <2>1, <2>2, <2>3, <2>4, <1>1 DEF Places
  <1>5. \A i \in Places : ItemAt(i) \in Item
    BY <1>1 DEF Places, ItemAt, Item
  <1>6. \A i \in Places : Place(ItemAt(i)) = i
    BY <1>3, <1>4, <1>5
  <1>7. Place("end") = Len(Walk) + 1
    <2>1. Len(Walk) + 1 \in Places /\ ItemAt(Len(Walk) + 1) = "end"
      BY <1>1 DEF Places, ItemAt
    <2> QED
      BY <2>1, <1>6
  <1>8. \A p \in Path : Place(p) \in 1 .. Len(Walk) /\ Walk[Place(p)] = p
    <2> SUFFICES ASSUME NEW p \in Path PROVE Place(p) \in 1 .. Len(Walk) /\ Walk[Place(p)] = p
      OBVIOUS
    <2>1. p \in Item /\ p # "end"
      BY CopyAssumption DEF Item
    <2>2. Place(p) \in Places /\ ItemAt(Place(p)) = p
      BY <2>1, <1>3
    <2> QED
      BY <2>1, <2>2, <1>1 DEF Places, ItemAt
  <1> QED
    BY <1>1, <1>3, <1>5, <1>6, <1>7, <1>8

\* None is no item.
LEMMA NoneApart == None \notin Item /\ None \notin Kind /\ "end" \notin Path
  BY CopyAssumption DEF Item

\* What is added to a channel.
LEMMA AppendItems ==
  ASSUME NEW s \in Seq(Item), NEW x \in Item
  PROVE  /\ Append(s, x) \in Seq(Item)
         /\ Len(s) \in Nat /\ Len(Append(s, x)) = Len(s) + 1
         /\ \A k \in 1 .. Len(s) : Append(s, x)[k] = s[k] /\ s[k] \in Item
         /\ Append(s, x)[Len(s) + 1] = x
  OBVIOUS

\* What is left of a channel when its head is taken.
LEMMA TailItems ==
  ASSUME NEW s \in Seq(Item), s # <<>>
  PROVE  /\ Head(s) \in Item /\ Tail(s) \in Seq(Item)
         /\ Len(s) \in Nat \ {0} /\ Head(s) = s[1]
         /\ Len(Tail(s)) = Len(s) - 1
         /\ \A k \in 1 .. Len(s) - 1 : Tail(s)[k] = s[k + 1]
  BY HeadTailProperties, EmptySeq

-----------------------------------------------------------------------------
(* Types                                                                   *)

\* The types hold at first.
LEMMA InitTyped == Init => TypeOK
  <1> SUFFICES ASSUME Init PROVE TypeOK
    OBVIOUS
  <1>1. tree \in Tree /\ way \in {"to", "from"}
    BY CopyAssumption DEF Init
  <1>2. dest \in [Path -> [kind : Kind \cup {None}, new : BOOLEAN]]
    <2>1. PICK e \in Earlier : dest = [p \in Path |-> [kind |-> e[p], new |-> FALSE]]
      BY DEF Init
    <2>2. e \in [Path -> Kind \cup {None}]
      BY CopyAssumption DEF Tree
    <2> QED
      BY <2>1, <2>2
  <1>3. got \subseteq Item /\ pipe \in [item : Item \cup {None}, closed : {"open", "ok", "err"}]
    BY DEF Init
  <1>4. chan \in [items : Seq(Item), eof : BOOLEAN] /\ Len(chan.items) <= Window
    BY EmptySeq, CopyAssumption DEF Init
  <1>5. guest \in [is : GuestState, next : 1 .. Len(Walk) + 2]
    BY PlaceFacts DEF Init, GuestState
  <1>6. gor \in [pc : {"start", "work", "offered", "wait", "close", "done"},
                 next : 1 .. Len(Walk) + 2, err : Error]
    BY PlaceFacts DEF Init, Error
  <1>7. /\ main \in [pc : {"start", "work", "send", "restore", "wait", "drain", "join", "done"},
                     item : Item \cup {None}, dirs : SUBSET Path, err : Error]
        /\ result \in {"none", "ok", "build", "transport", "extract"}
        /\ hit \subseteq Fault
    BY DEF Init, Error
  <1> QED
    BY <1>1, <1>2, <1>3, <1>4, <1>5, <1>6, <1>7 DEF TypeOK

\* Next, by action.
LEMMA Cases ==
  ASSUME [Next]_vars
  PROVE  \/ Offered \/ CloseWithError \/ BuildTar \/ StartFrom \/ CopyStdout
         \/ StartTo \/ CopyStdin \/ WaitTo \/ ExtractEntry \/ RestoreDirModes
         \/ Drain \/ Join \/ GuestExtract \/ GuestCreate \/ GuestFails \/ UNCHANGED vars
  BY DEF Next, Goroutine, Caller, Guest, Returned

-----------------------------------------------------------------------------
(* What the actions do to the fields                                       *)

PipeRec  == [item : Item \cup {None}, closed : {"open", "ok", "err"}]
ChanRec  == [items : Seq(Item), eof : BOOLEAN]
GuestRec == [is : GuestState, next : 1 .. Len(Walk) + 2]
GorPc    == {"start", "work", "offered", "wait", "close", "done"}
GorRec   == [pc : GorPc, next : 1 .. Len(Walk) + 2, err : Error]
MainPc   == {"start", "work", "send", "restore", "wait", "drain", "join", "done"}
MainRec  == [pc : MainPc, item : Item \cup {None}, dirs : SUBSET Path, err : Error]
DestType == [Path -> [kind : Kind \cup {None}, new : BOOLEAN]]

\* TypeOK by records.
LEMMA Typed ==
  TypeOK <=> /\ way \in {"to", "from"} /\ tree \in Tree
             /\ dest \in DestType /\ got \subseteq Item
             /\ pipe \in PipeRec /\ chan \in ChanRec /\ Len(chan.items) <= Window
             /\ guest \in GuestRec /\ gor \in GorRec /\ main \in MainRec
             /\ result \in {"none", "ok", "build", "transport", "extract"}
             /\ hit \subseteq Fault
  BY DEF TypeOK, PipeRec, ChanRec, GuestRec, GorRec, GorPc, MainRec, MainPc, DestType

\* The goroutine goes on, and keeps its place in the tree.
LEMMA GorStep ==
  ASSUME TypeOK, NEW pc \in GorPc, NEW err \in Error, GorGoto(pc, err)
  PROVE  gor' \in GorRec /\ gor'.pc = pc /\ gor'.err = err /\ gor'.next = gor.next
  <1>1. gor \in GorRec
    BY Typed
  <1> QED
    BY <1>1 DEF GorGoto, GorRec

\* The goroutine writes the item at i, and goes on behind it.
LEMMA GorWrites ==
  ASSUME TypeOK, NEW i \in Places, gor' = [gor EXCEPT !.pc = "offered", !.next = i + 1]
  PROVE  gor' \in GorRec /\ gor'.pc = "offered" /\ gor'.err = gor.err /\ gor'.next = i + 1
  <1>1. gor \in GorRec
    BY Typed
  <1>2. i + 1 \in 1 .. Len(Walk) + 2
    BY PlaceFacts DEF Places
  <1> QED
    BY <1>1, <1>2 DEF GorRec, GorPc

\* An item is put into the pipe, or taken from it.
LEMMA PipeStep ==
  ASSUME TypeOK, NEW x \in Item \cup {None}, Offer(x)
  PROVE  pipe' \in PipeRec /\ pipe'.item = x /\ pipe'.closed = pipe.closed
  <1>1. pipe \in PipeRec
    BY Typed
  <1> QED
    BY <1>1 DEF Offer, PipeRec

\* CloseWithError closes the pipe.
LEMMA PipeCloses ==
  ASSUME TypeOK, NEW e \in Error, pipe' = [pipe EXCEPT !.closed = e]
  PROVE  pipe' \in PipeRec /\ pipe'.item = pipe.item /\ pipe'.closed = e
  <1>1. pipe \in PipeRec
    BY Typed
  <1> QED
    BY <1>1 DEF PipeRec, Error

\* An item is sent into the channel.
LEMMA ChanAdds ==
  ASSUME TypeOK, NEW x \in Item, Len(chan.items) < Window,
         chan' = [chan EXCEPT !.items = Append(@, x)]
  PROVE  /\ chan' \in ChanRec /\ Len(chan'.items) <= Window /\ chan'.eof = chan.eof
         /\ Len(chan.items) \in Nat /\ Len(chan'.items) = Len(chan.items) + 1
         /\ \A k \in 1 .. Len(chan.items) : chan'.items[k] = chan.items[k]
         /\ chan'.items[Len(chan.items) + 1] = x
  <1>1. chan \in ChanRec /\ chan.items \in Seq(Item) /\ chan.eof \in BOOLEAN /\ Window \in Nat
    BY Typed, CopyAssumption DEF ChanRec
  <1>2. chan'.items = Append(chan.items, x) /\ chan'.eof = chan.eof
    BY <1>1 DEF ChanRec
  <1>3. chan' \in ChanRec
    BY <1>1, AppendItems DEF ChanRec
  <1> HIDE DEF ChanRec
  <1> QED
    BY <1>1, <1>2, <1>3, AppendItems

\* The head of the channel is taken.
LEMMA ChanTakes ==
  ASSUME TypeOK, chan.items # <<>>, chan' = [chan EXCEPT !.items = Tail(@)]
  PROVE  /\ chan' \in ChanRec /\ Len(chan'.items) <= Window /\ chan'.eof = chan.eof
         /\ Len(chan.items) \in Nat \ {0} /\ Len(chan'.items) = Len(chan.items) - 1
         /\ \A k \in 1 .. Len(chan.items) - 1 : chan'.items[k] = chan.items[k + 1]
         /\ Head(chan.items) = chan.items[1] /\ chan.items[1] \in Item
  <1>1. chan \in ChanRec /\ chan.items \in Seq(Item) /\ chan.eof \in BOOLEAN /\ Window \in Nat
        /\ Len(chan.items) <= Window
    BY Typed, CopyAssumption DEF ChanRec
  <1>2. chan'.items = Tail(chan.items) /\ chan'.eof = chan.eof
    BY <1>1 DEF ChanRec
  <1>3. chan' \in ChanRec
    BY <1>1, TailItems DEF ChanRec
  <1> QED
    BY <1>1, <1>2, <1>3, TailItems

\* A broken connection loses what was in flight.
LEMMA ChanEmptied ==
  ASSUME TypeOK, chan' = [chan EXCEPT !.items = <<>>]
  PROVE  chan' \in ChanRec /\ chan'.items = <<>> /\ Len(chan'.items) = 0 /\ chan'.eof = chan.eof
  <1>1. chan \in ChanRec
    BY Typed
  <1> QED
    BY <1>1, EmptySeq DEF ChanRec

\* The sending end of the channel is closed.
LEMMA ChanEof ==
  ASSUME TypeOK, chan' = [chan EXCEPT !.eof = TRUE]
  PROVE  chan' \in ChanRec /\ chan'.items = chan.items /\ chan'.eof
  <1>1. chan \in ChanRec
    BY Typed
  <1> QED
    BY <1>1 DEF ChanRec

\* The guest's tar starts or ends.
LEMMA GuestStep ==
  ASSUME TypeOK, NEW s \in GuestState, guest' = [guest EXCEPT !.is = s]
  PROVE  guest' \in GuestRec /\ guest'.is = s /\ guest'.next = guest.next
  <1>1. guest \in GuestRec
    BY Typed
  <1> QED
    BY <1>1 DEF GuestRec

\* The guest's tar writes the item at i.
LEMMA GuestWrites ==
  ASSUME TypeOK, NEW i \in Places, guest' = [guest EXCEPT !.next = i + 1]
  PROVE  guest' \in GuestRec /\ guest'.is = guest.is /\ guest'.next = i + 1
  <1>1. guest \in GuestRec
    BY Typed
  <1>2. i + 1 \in 1 .. Len(Walk) + 2
    BY PlaceFacts DEF Places
  <1> QED
    BY <1>1, <1>2 DEF GuestRec

\* The caller goes on.
LEMMA MainStep ==
  ASSUME TypeOK, NEW pc \in MainPc, MainGoto(pc)
  PROVE  /\ main' \in MainRec /\ main'.pc = pc
         /\ main'.item = main.item /\ main'.dirs = main.dirs /\ main'.err = main.err
  <1>1. main \in MainRec
    BY Typed
  <1> QED
    BY <1>1 DEF MainGoto, MainRec

\* The caller goes on, with or without an error.
LEMMA MainTo ==
  ASSUME TypeOK, NEW pc \in MainPc, NEW e \in Error, main' = [main EXCEPT !.pc = pc, !.err = e]
  PROVE  /\ main' \in MainRec /\ main'.pc = pc
         /\ main'.item = main.item /\ main'.dirs = main.dirs /\ main'.err = e
  <1>1. main \in MainRec
    BY Typed
  <1> QED
    BY <1>1 DEF MainRec

\* The caller takes an item to send, or has none.
LEMMA MainHolds ==
  ASSUME TypeOK, NEW pc \in MainPc, NEW x \in Item \cup {None},
         main' = [main EXCEPT !.pc = pc, !.item = x]
  PROVE  /\ main' \in MainRec /\ main'.pc = pc
         /\ main'.item = x /\ main'.dirs = main.dirs /\ main'.err = main.err
  <1>1. main \in MainRec
    BY Typed
  <1> QED
    BY <1>1 DEF MainRec

\* The directories whose modes are to be restored change.
LEMMA MainDirs ==
  ASSUME TypeOK, NEW ds \in SUBSET Path, main' = [main EXCEPT !.dirs = ds]
  PROVE  /\ main' \in MainRec /\ main'.pc = main.pc
         /\ main'.item = main.item /\ main'.dirs = ds /\ main'.err = main.err
  <1>1. main \in MainRec
    BY Typed
  <1> QED
    BY <1>1 DEF MainRec

\* An entry is written: a directory that stands keeps its kind, all else is new.
LEMMA PutStep ==
  ASSUME TypeOK, NEW p \in Path, Put(p)
  PROVE  /\ dest' \in DestType
         /\ \A q \in Path : q # p => dest'[q] = dest[q]
         /\ tree[p] \in Dirs => /\ dest'[p].kind = MadeDir(p)
                                /\ dest'[p].new <=> (dest[p].new \/ ~Kept(p))
         /\ tree[p] \notin Dirs => dest'[p].kind = tree[p] /\ dest'[p].new
  <1>1. dest \in DestType /\ tree[p] \in Kind \cup {None} /\ dest[p].kind \in Kind \cup {None}
        /\ dest[p].new \in BOOLEAN
    BY Typed DEF DestType, Tree
  <1>2. MadeDir(p) \in Kind \cup {None} /\ (dest[p].new \/ ~Kept(p)) \in BOOLEAN
    BY <1>1 DEF MadeDir, Kind
  <1>3. CASE tree[p] \in Dirs
    <2> DEFINE v == [kind |-> MadeDir(p), new |-> dest[p].new \/ ~Kept(p)]
    <2>1. dest' = [dest EXCEPT ![p] = v]
      BY <1>3 DEF Put
    <2>2. v \in [kind : Kind \cup {None}, new : BOOLEAN]
      BY <1>2
    <2>3. v.kind = MadeDir(p) /\ (v.new <=> (dest[p].new \/ ~Kept(p)))
      OBVIOUS
    <2> HIDE DEF v
    <2> QED
      BY <1>1, <1>3, <2>1, <2>2, <2>3 DEF DestType
  <1>4. CASE tree[p] \notin Dirs
    <2> DEFINE v == [kind |-> tree[p], new |-> TRUE]
    <2>1. dest' = [dest EXCEPT ![p] = v]
      BY <1>4 DEF Put
    <2>2. v \in [kind : Kind \cup {None}, new : BOOLEAN]
      BY <1>1
    <2>3. v.kind = tree[p] /\ v.new
      OBVIOUS
    <2> HIDE DEF v
    <2> QED
      BY <1>1, <1>4, <2>1, <2>2, <2>3 DEF DestType
  <1> QED
    BY <1>3, <1>4

\* A fault happens.
LEMMA HitStep ==
  ASSUME TypeOK, NEW f \in Fault, Happens(f)
  PROVE  hit' \subseteq Fault /\ hit \subseteq hit' /\ f \in hit'
  BY DEF TypeOK, Happens

\* What CopyStdin does: it takes an item, sends it, or ends.
LEMMA StdinCases ==
  ASSUME TypeOK, Ctl, CopyStdin
  PROVE  /\ main' \in MainRec /\ main'.err = main.err /\ main'.dirs = main.dirs
         /\ \/ /\ main.pc = "work" /\ pipe.item \in Item
               /\ main'.pc = "send" /\ main'.item = pipe.item
               /\ pipe' \in PipeRec /\ pipe'.item = None /\ pipe'.closed = pipe.closed
               /\ chan' = chan
            \/ /\ main.pc = "send" /\ ~Over /\ main.item \in Item
               /\ main'.pc = "work" /\ main'.item = None /\ pipe' = pipe
               /\ Len(chan.items) < Window
               /\ chan' = [chan EXCEPT !.items = Append(@, main.item)]
            \/ /\ (main.pc = "work" /\ pipe.item = None /\ pipe.closed # "open")
                  \/ (main.pc = "send" /\ Over)
               /\ main'.pc = "wait" /\ main'.item = None /\ pipe' = pipe
               /\ chan' = [chan EXCEPT !.eof = TRUE]
  <1>0. /\ pipe.item \in Item \cup {None} /\ main.item \in Item \cup {None}
        /\ {"work", "send", "wait"} \subseteq MainPc
    BY Typed DEF PipeRec, MainRec, MainPc
  <1>1. main.pc = "send" => main.item \in Item
    BY <1>0 DEF Ctl
  <1>2. CASE main.pc = "work" /\ pipe.item # None
             /\ main' = [main EXCEPT !.pc = "send", !.item = pipe.item]
             /\ Offer(None) /\ UNCHANGED chan
    BY <1>2, <1>0, MainHolds, PipeStep
  <1>3. CASE /\ main.pc = "send" /\ ~Over /\ Len(chan.items) < Window
             /\ chan' = [chan EXCEPT !.items = Append(@, main.item)]
             /\ main' = [main EXCEPT !.pc = "work", !.item = None] /\ UNCHANGED pipe
    BY <1>3, <1>0, <1>1, MainHolds
  <1>4. CASE /\ (main.pc = "work" /\ pipe.item = None /\ pipe.closed # "open")
                \/ (main.pc = "send" /\ Over)
             /\ chan' = [chan EXCEPT !.eof = TRUE]
             /\ main' = [main EXCEPT !.pc = "wait", !.item = None] /\ UNCHANGED pipe
    BY <1>4, <1>0, MainHolds
  <1> QED
    BY <1>2, <1>3, <1>4 DEF CopyStdin

\* What ExtractEntry does: it writes an entry or skips it, stops, or has met the
\* end mark.
LEMMA ExtractCases ==
  ASSUME TypeOK, ExtractEntry
  PROVE  /\ main.pc = "work" /\ way = "from"
         /\ main' \in MainRec /\ main'.item = main.item
         /\ pipe' \in PipeRec /\ pipe'.closed = pipe.closed /\ pipe'.item = None
         /\ hit \subseteq hit' /\ hit' \subseteq Fault
         /\ \/ /\ pipe.item \in Path /\ Fits(pipe.item) /\ Put(pipe.item)
               /\ main'.pc = "work" /\ main'.err = main.err
               /\ main'.dirs = IF tree[pipe.item] \in Dirs THEN main.dirs \cup {pipe.item}
                                                           ELSE main.dirs
            \/ pipe.item \in Path /\ Skipped(pipe.item) /\ main' = main /\ dest' = dest
            \/ /\ main'.pc = "drain" /\ main'.err = "err" /\ dest' = dest
               /\ \/ pipe.item \in Path /\ ~Skipped(pipe.item) /\ ~Fits(pipe.item)
                  \/ "host" \in hit'
                  \/ pipe.item = None /\ pipe.closed = "err"
            \/ /\ pipe.item = "end" /\ main'.pc = "restore" /\ main'.err = main.err /\ dest' = dest
               /\ main'.dirs = main.dirs
  <1>0. /\ {"work", "restore", "drain"} \subseteq MainPc /\ {"ok", "err"} \subseteq Error
        /\ pipe \in PipeRec /\ main \in MainRec /\ main.dirs \subseteq Path
        /\ main.pc = "work" /\ way = "from" /\ hit \subseteq Fault /\ "host" \in Fault
    BY Typed DEF MainPc, Error, ExtractEntry, Fault, MainRec
  <1>1. CASE /\ pipe.item \in Path /\ Fits(pipe.item)
             /\ Put(pipe.item) /\ Offer(None)
             /\ main' = [main EXCEPT !.dirs = IF tree[pipe.item] \in Dirs
                                              THEN @ \cup {pipe.item} ELSE @]
             /\ UNCHANGED hit
    <2> DEFINE ds == IF tree[pipe.item] \in Dirs THEN main.dirs \cup {pipe.item} ELSE main.dirs
    <2>1. ds \in SUBSET Path
      BY <1>1, <1>0
    <2>2. main' = [main EXCEPT !.dirs = ds]
      BY <1>1
    <2>3. /\ main' \in MainRec /\ main'.pc = main.pc
          /\ main'.item = main.item /\ main'.dirs = ds /\ main'.err = main.err
      <3> HIDE DEF ds
      <3> QED
        BY <2>1, <2>2, MainDirs
    <2> QED
      BY <1>1, <1>0, <2>3, PipeStep
  <1>2. CASE StopExtract /\ Offer(None) /\ UNCHANGED dest /\ hit \subseteq hit' /\ hit' \subseteq Fault
             /\ \/ pipe.item \in Path /\ ~Skipped(pipe.item) /\ ~Fits(pipe.item)
                \/ "host" \in hit'
    BY <1>2, <1>0, MainTo, PipeStep DEF StopExtract
  <1>3. CASE pipe.item = "end" /\ MainGoto("restore") /\ Offer(None) /\ UNCHANGED <<dest, hit>>
    BY <1>3, <1>0, MainStep, PipeStep
  <1>4. CASE pipe.item = None /\ pipe.closed = "err" /\ StopExtract /\ UNCHANGED <<dest, pipe, hit>>
    BY <1>4, <1>0, MainTo DEF StopExtract
  <1>5. Happens("host") => hit \subseteq hit' /\ hit' \subseteq Fault /\ "host" \in hit'
    BY <1>0, HitStep
  <1>6. CASE pipe.item \in Path /\ Skipped(pipe.item) /\ Offer(None) /\ UNCHANGED <<dest, main, hit>>
    BY <1>6, <1>0, PipeStep
  <1> QED
    BY <1>0, <1>1, <1>2, <1>3, <1>4, <1>5, <1>6 DEF ExtractEntry

\* What RestoreDirModes does: it restores the mode of one directory, stops, or ends.
LEMMA RestoreCases ==
  ASSUME TypeOK, RestoreDirModes
  PROVE  /\ main.pc = "restore"
         /\ main' \in MainRec /\ main'.item = main.item
         /\ hit \subseteq hit' /\ hit' \subseteq Fault /\ dest' \in DestType
         /\ \/ \E p \in main.dirs :
                 /\ NextToRestore(p) /\ Open(p)
                 /\ dest'[p].kind = tree[p] /\ (dest'[p].new <=> dest[p].new)
                 /\ \A q \in Path : q # p => dest'[q] = dest[q]
                 /\ main'.pc = "restore" /\ main'.err = main.err
                 /\ main'.dirs = main.dirs \ {p}
            \/ /\ main'.pc = "drain" /\ main'.err = "err" /\ dest' = dest
               /\ \/ "host" \in hit'
                  \/ \E p \in main.dirs : NextToRestore(p) /\ ~Open(p)
            \/ /\ main.dirs = {} /\ main'.pc = "drain" /\ main'.err = main.err
               /\ main'.dirs = main.dirs /\ dest' = dest
  <1>0. /\ {"work", "restore", "drain"} \subseteq MainPc /\ {"ok", "err"} \subseteq Error
        /\ main \in MainRec /\ main.dirs \subseteq Path /\ dest \in DestType /\ tree \in Tree
        /\ main.pc = "restore" /\ hit \subseteq Fault /\ "host" \in Fault
    BY Typed DEF MainPc, Error, RestoreDirModes, Fault, MainRec
  <1>1. ASSUME NEW p \in Path, NextToRestore(p), Open(p),
               dest' = [dest EXCEPT ![p].kind = tree[p]],
               main' = [main EXCEPT !.dirs = @ \ {p}], UNCHANGED hit
        PROVE  /\ main' \in MainRec /\ main'.item = main.item /\ dest' \in DestType
               /\ p \in main.dirs
               /\ dest'[p].kind = tree[p] /\ (dest'[p].new <=> dest[p].new)
               /\ \A q \in Path : q # p => dest'[q] = dest[q]
               /\ main'.pc = "restore" /\ main'.err = main.err
               /\ main'.dirs = main.dirs \ {p}
    <2>1. /\ dest' \in DestType /\ dest'[p].kind = tree[p] /\ dest'[p].new = dest[p].new
          /\ \A q \in Path : q # p => dest'[q] = dest[q]
      BY <1>1, <1>0 DEF DestType, Tree
    <2>2. main.dirs \ {p} \in SUBSET Path
      BY <1>0
    <2>3. /\ main' \in MainRec /\ main'.item = main.item
          /\ main'.pc = main.pc /\ main'.err = main.err
          /\ main'.dirs = main.dirs \ {p}
      BY <1>1, <2>2, MainDirs
    <2> QED
      BY <1>1, <1>0, <2>1, <2>3 DEF NextToRestore
  <1>2. ASSUME NEW p \in Path, NextToRestore(p), Open(p) => Allowed("host"),
               hit' = IF Open(p) THEN hit \cup {"host"} ELSE hit, StopExtract, UNCHANGED dest
        PROVE  /\ main' \in MainRec /\ main'.item = main.item
               /\ hit \subseteq hit' /\ hit' \subseteq Fault
               /\ main'.pc = "drain" /\ main'.err = "err" /\ dest' = dest
               /\ \/ "host" \in hit'
                  \/ p \in main.dirs /\ ~Open(p)
    BY <1>2, <1>0, MainTo DEF StopExtract, NextToRestore
  <1>3. CASE main.dirs = {} /\ MainGoto("drain") /\ UNCHANGED <<dest, hit>>
    BY <1>3, <1>0, MainStep
  <1> QED
    BY <1>0, <1>1, <1>2, <1>3 DEF RestoreDirModes

-----------------------------------------------------------------------------
(* Types                                                                   *)

\* Every step keeps the types.
LEMMA NextTyped ==
  ASSUME TypeOK, Ctl, [Next]_vars
  PROVE  TypeOK'
  <1>0. /\ way \in {"to", "from"} /\ tree \in Tree
        /\ dest \in DestType /\ got \subseteq Item
        /\ pipe \in PipeRec /\ chan \in ChanRec /\ Len(chan.items) <= Window
        /\ guest \in GuestRec /\ gor \in GorRec /\ main \in MainRec
        /\ result \in {"none", "ok", "build", "transport", "extract"}
        /\ hit \subseteq Fault
        /\ gor.err \in Error /\ pipe.item \in Item \cup {None} /\ main.item \in Item \cup {None}
        /\ main.dirs \subseteq Path
    BY Typed DEF GorRec, PipeRec, MainRec
  <1>c. {"work", "offered", "close", "done"} \subseteq GorPc /\ {"ok", "err"} \subseteq Error
        /\ {"work", "send", "restore", "wait", "drain", "join", "done"} \subseteq MainPc
        /\ {"runs", "ok", "err", "lost"} \subseteq GuestState
        /\ {"session", "host", "guest", "lost"} \subseteq Fault
        /\ \A i \in Places : ItemAt(i) \in Item
    BY PlaceFacts DEF GorPc, Error, MainPc, GuestState, Fault
  <1>s. (/\ way' \in {"to", "from"} /\ tree' \in Tree
         /\ dest' \in DestType /\ got' \subseteq Item
         /\ pipe' \in PipeRec /\ chan' \in ChanRec /\ Len(chan'.items) <= Window
         /\ guest' \in GuestRec /\ gor' \in GorRec /\ main' \in MainRec
         /\ result' \in {"none", "ok", "build", "transport", "extract"}
         /\ hit' \subseteq Fault) => TypeOK'
    BY Typed DEF TypeOK, PipeRec, ChanRec, GuestRec, GorRec, GorPc, MainRec, MainPc, DestType
  <1> USE DEF fs
  <1>1. CASE Offered
    BY <1>1, <1>0, <1>c, <1>s, GorStep DEF Offered
  <1>2. CASE CloseWithError
    <2>1. pipe' \in PipeRec /\ gor' \in GorRec
      BY <1>2, <1>0, <1>c, GorStep, PipeCloses DEF CloseWithError
    <2> QED
      BY <1>2, <1>0, <2>1, <1>s DEF CloseWithError
  <1>3. CASE BuildTar
    <2>1. pipe' \in PipeRec /\ gor' \in GorRec /\ hit' \subseteq Fault
      BY <1>3, <1>0, <1>c, GorStep, PipeStep, GorWrites, HitStep DEF BuildTar
    <2> QED
      BY <1>3, <1>0, <2>1, <1>s DEF BuildTar
  <1>4. CASE StartFrom
    <2>1. guest' \in GuestRec /\ gor' \in GorRec /\ hit' \subseteq Fault
      BY <1>4, <1>0, <1>c, GorStep, GuestStep, HitStep DEF StartFrom, StartsOrNot
    <2> QED
      BY <1>4, <1>0, <2>1, <1>s DEF StartFrom
  <1>5. CASE CopyStdout
    <2>1. pipe' \in PipeRec /\ gor' \in GorRec /\ chan' \in ChanRec /\ Len(chan'.items) <= Window
      BY <1>5, <1>0, <1>c, GorStep, PipeStep, ChanTakes DEF CopyStdout
    <2> QED
      BY <1>5, <1>0, <2>1, <1>s DEF CopyStdout
  <1>6. CASE StartTo
    <2>1. guest' \in GuestRec /\ main' \in MainRec /\ hit' \subseteq Fault
      BY <1>6, <1>0, <1>c, MainStep, MainTo, GuestStep, HitStep DEF StartTo, StartsOrNot
    <2> QED
      BY <1>6, <1>0, <2>1, <1>s DEF StartTo
  <1>7. CASE CopyStdin
    <2>1. main.pc = "send" => main.item \in Item
      BY <1>0, NoneApart DEF Ctl
    <2>2. pipe' \in PipeRec /\ main' \in MainRec /\ chan' \in ChanRec /\ Len(chan'.items) <= Window
      BY <1>7, <1>0, <1>c, <2>1, PipeStep, MainHolds, ChanAdds, ChanEof DEF CopyStdin
    <2> QED
      BY <1>7, <1>0, <2>2, <1>s DEF CopyStdin
  <1>8. CASE WaitTo
    <2>1. main' \in MainRec
      BY <1>8, <1>0, <1>c, MainTo DEF WaitTo
    <2> QED
      BY <1>8, <1>0, <2>1, <1>s DEF WaitTo
  <1>9. CASE ExtractEntry
    <2>1. pipe' \in PipeRec /\ main' \in MainRec /\ hit' \subseteq Fault /\ dest' \in DestType
      BY <1>9, <1>0, ExtractCases, PutStep
    <2> QED
      BY <1>9, <1>0, <2>1, <1>s DEF ExtractEntry
  <1>10. CASE RestoreDirModes
    <2>1. main' \in MainRec /\ hit' \subseteq Fault /\ dest' \in DestType
      BY <1>10, RestoreCases
    <2> QED
      BY <1>10, <1>0, <2>1, <1>s DEF RestoreDirModes
  <1>11. CASE Drain
    <2>1. main' \in MainRec /\ pipe' \in PipeRec
      BY <1>11, <1>0, <1>c, MainStep, PipeStep DEF Drain
    <2> QED
      BY <1>11, <1>0, <2>1, <1>s DEF Drain
  <1>12. CASE Join
    <2>1. main' \in MainRec
      BY <1>12, <1>0, <1>c, MainStep DEF Join
    <2>2. result' \in {"none", "ok", "build", "transport", "extract"}
      BY <1>12 DEF Join, Verdict
    <2> QED
      BY <1>12, <1>0, <2>1, <2>2, <1>s DEF Join
  <1>13. CASE GuestExtract
    <2>1. chan' \in ChanRec /\ Len(chan'.items) <= Window /\ guest' \in GuestRec /\ got' \subseteq Item
      BY <1>13, <1>0, <1>c, ChanTakes, GuestStep DEF GuestExtract
    <2> QED
      BY <1>13, <1>0, <2>1, <1>s DEF GuestExtract
  <1>14. CASE GuestCreate
    <2>1. chan' \in ChanRec /\ Len(chan'.items) <= Window /\ guest' \in GuestRec
      BY <1>14, <1>0, <1>c, ChanAdds, GuestStep, GuestWrites DEF GuestCreate
    <2> QED
      BY <1>14, <1>0, <2>1, <1>s DEF GuestCreate
  <1>15. CASE GuestFails
    <2>1. chan' \in ChanRec /\ Len(chan'.items) <= Window /\ guest' \in GuestRec /\ hit' \subseteq Fault
      BY <1>15, <1>0, <1>c, ChanEmptied, GuestStep, HitStep, CopyAssumption DEF GuestFails
    <2> QED
      BY <1>15, <1>0, <2>1, <1>s DEF GuestFails
  <1>16. CASE UNCHANGED vars
    BY <1>16, <1>0, <1>s DEF vars
  <1> QED
    BY Cases, <1>1, <1>2, <1>3, <1>4, <1>5, <1>6, <1>7, <1>8, <1>9, <1>10, <1>11, <1>12,
       <1>13, <1>14, <1>15, <1>16

-----------------------------------------------------------------------------
(* Control                                                                 *)

\* Control holds at first.
LEMMA InitCtl == Init => Ctl
  BY DEF Init, Ctl

\* Every step keeps it.
LEMMA NextCtl ==
  ASSUME TypeOK, Ctl, [Next]_vars
  PROVE  Ctl'
  <1>0. /\ gor.err \in Error /\ pipe.item \in Item \cup {None} /\ main.item \in Item \cup {None}
        /\ main.err \in Error /\ way \in {"to", "from"} /\ main.dirs \subseteq Path
        /\ gor.pc \in GorPc /\ main.pc \in MainPc
        /\ pipe.closed \in {"open", "ok", "err"}
    BY Typed DEF GorRec, PipeRec, MainRec
  <1>c. {"work", "offered", "close", "done"} \subseteq GorPc /\ Error = {"ok", "err"}
        /\ {"work", "send", "restore", "wait", "drain", "join", "done"} \subseteq MainPc
        /\ {"runs", "ok", "err", "lost"} \subseteq GuestState
        /\ {"session", "host", "guest", "lost"} \subseteq Fault
        /\ \A i \in Places : ItemAt(i) \in Item /\ ItemAt(i) # None
        /\ None \notin Item
    BY PlaceFacts, NoneApart DEF GorPc, Error, MainPc, GuestState, Fault
  <1> USE DEF fs
  \* Verdict says nothing before the caller is done.
  <1>v. ASSUME way' = way, gor' = gor, main' = main, result' = result
        PROVE (result # "none" => main.pc = "done" /\ result = Verdict)'
    BY <1>v DEF Ctl, Verdict
  <1>w. ASSUME main.pc # "done", result' = result PROVE result' = "none"
    BY <1>w DEF Ctl
  <1>1. CASE Offered
    <2>1. gor'.pc = "work" /\ gor'.err = gor.err
      BY <1>1, <1>0, <1>c, GorStep DEF Offered
    <2>2. main.pc # "done" /\ gor.err = "ok"
      BY <1>1, <1>0, <1>c DEF Ctl, Offered
    <2> QED
      BY <1>1, <2>1, <2>2, <1>w DEF Ctl, Offered
  <1>2. CASE CloseWithError
    <2>1. gor'.pc = "done" /\ gor'.err = gor.err /\ pipe'.item = pipe.item /\ pipe'.closed = gor.err
      BY <1>2, <1>0, <1>c, GorStep, PipeCloses DEF CloseWithError
    <2>2. main.pc # "done"
      BY <1>2 DEF Ctl, CloseWithError
    <2> QED
      BY <1>2, <2>1, <2>2, <1>w DEF Ctl, CloseWithError
  <1>3. CASE BuildTar
    <2>0. main.pc # "done" /\ gor.err = "ok" /\ gor.pc = "work" /\ pipe.item = None /\ way = "to"
      BY <1>3, <1>0, <1>c DEF Ctl, BuildTar
    <2>1. \/ gor'.pc = "offered" /\ gor'.err = gor.err /\ pipe'.closed = pipe.closed
          \/ gor'.pc = "close" /\ pipe' = pipe
      BY <1>3, <1>0, <1>c, GorStep, PipeStep, GorWrites DEF BuildTar
    <2>2. hit \subseteq hit'
      BY <1>3, <1>c, HitStep DEF BuildTar
    <2> QED
      BY <1>3, <2>0, <2>1, <2>2, <1>w DEF Ctl, BuildTar
  <1>4. CASE StartFrom
    <2>0. main.pc # "done" /\ gor.err = "ok" /\ gor.pc = "start" /\ pipe.item = None /\ way = "from"
      BY <1>4, <1>0, <1>c DEF Ctl, StartFrom
    <2>1. gor'.pc \in {"work", "close"} /\ (gor'.err = "err" => gor'.pc = "close")
      BY <1>4, <1>c, GorStep DEF StartFrom, StartsOrNot
    <2>2. hit \subseteq hit' /\ (guest'.is = guest.is \/ guest'.is = "runs")
      BY <1>4, <1>c, HitStep, GuestStep DEF StartFrom, StartsOrNot
    <2> QED
      BY <1>4, <2>0, <2>1, <2>2, <1>w DEF Ctl, StartFrom
  <1>5. CASE CopyStdout
    <2>0. main.pc # "done" /\ gor.err = "ok" /\ gor.pc = "work" /\ pipe.item = None /\ way = "from"
      BY <1>5, <1>0, <1>c DEF Ctl, CopyStdout
    <2>1. \/ gor'.pc = "offered" /\ gor'.err = gor.err /\ pipe'.closed = pipe.closed
          \/ gor'.pc = "close" /\ pipe' = pipe
      BY <1>5, <1>0, <1>c, GorStep, PipeStep, ChanTakes DEF CopyStdout
    <2> QED
      BY <1>5, <2>0, <2>1, <1>w DEF Ctl, CopyStdout
  <1>6. CASE StartTo
    <2>0. main.pc = "start" /\ main.item = None /\ way = "to"
      BY <1>6, <1>0 DEF Ctl, StartTo
    <2>1. \/ main'.pc = "work" /\ main'.item = None /\ main'.err = main.err
          \/ main'.pc = "drain" /\ main'.item = None
      BY <1>6, <2>0, <1>c, MainStep, MainTo DEF StartTo, StartsOrNot
    <2>2. hit \subseteq hit' /\ (guest'.is = guest.is \/ guest'.is = "runs")
      BY <1>6, <1>c, HitStep, GuestStep DEF StartTo, StartsOrNot
    <2> QED
      BY <1>6, <2>0, <2>1, <2>2, <1>w DEF Ctl, StartTo
  <1>7. CASE CopyStdin
    <2>0. main.pc \in {"work", "send"} /\ way = "to" /\ main.err = "ok"
      BY <1>7, <1>0, <1>c DEF Ctl, CopyStdin
    <2>1. /\ \/ main'.pc = "send" /\ main'.item # None /\ pipe'.item = None
             \/ main'.pc \in {"work", "wait"} /\ main'.item = None /\ pipe' = pipe
          /\ main'.err = main.err /\ pipe'.closed = pipe.closed
      <3>1. main'.pc = "send" => main'.item # None /\ pipe'.item = None /\ pipe'.closed = pipe.closed
        <4>1. main'.pc = "send" => /\ main'.item = pipe.item /\ pipe.item \in Item
                                   /\ pipe'.item = None /\ pipe'.closed = pipe.closed
          BY <1>7, StdinCases
        <4> QED
          BY <4>1, NoneApart
      <3>2. main'.pc # "send" => main'.pc \in {"work", "wait"} /\ main'.item = None /\ pipe' = pipe
        BY <1>7, StdinCases
      <3>3. main'.err = main.err
        BY <1>7, StdinCases
      <3> QED
        BY <3>1, <3>2, <3>3
    <2> QED
      BY <1>7, <2>0, <2>1, <1>w DEF Ctl, CopyStdin
  <1>8. CASE WaitTo
    <2>1. main'.pc = "drain" /\ main'.item = main.item
      BY <1>8, <1>c, MainTo DEF WaitTo
    <2> QED
      BY <1>8, <2>1, <1>w DEF Ctl, WaitTo
  <1>9. CASE ExtractEntry
    <2>0. main.pc = "work" /\ main.item = None /\ way = "from" /\ main.err = "ok"
      BY <1>9, <1>0, <1>c DEF Ctl, ExtractEntry
    <2>1. /\ main'.pc \in {"work", "restore", "drain"} /\ main'.item = None
          /\ main'.err = "err" => main'.pc = "drain"
          /\ pipe'.item = None /\ pipe'.closed = pipe.closed
      BY <1>9, <2>0, ExtractCases
    <2>2. hit \subseteq hit'
      BY <1>9, <1>c, HitStep DEF ExtractEntry
    <2> QED
      BY <1>9, <2>0, <2>1, <2>2, <1>w DEF Ctl, ExtractEntry
  <1>10. CASE RestoreDirModes
    <2>0. main.pc = "restore" /\ main.item = None /\ way = "from" /\ main.err = "ok"
      BY <1>10, <1>0, <1>c DEF Ctl, RestoreDirModes
    <2>1. /\ main'.pc \in {"restore", "drain"} /\ main'.item = None
          /\ main'.err = "err" => main'.pc = "drain"
      BY <1>10, <2>0, RestoreCases
    <2>2. hit \subseteq hit'
      BY <1>10 DEF RestoreDirModes
    <2> QED
      BY <1>10, <2>0, <2>1, <2>2, <1>w DEF Ctl, RestoreDirModes
  <1>11. CASE Drain
    <2>1. /\ main' = main \/ (main'.pc = "join" /\ main'.item = main.item /\ pipe.closed # "open")
          /\ pipe' = pipe \/ (pipe'.item = None /\ pipe'.closed = pipe.closed)
      BY <1>11, <1>c, MainStep, PipeStep DEF Drain
    <2> QED
      BY <1>11, <2>1, <1>w DEF Ctl, Drain
  <1>12. CASE Join
    <2>1. main'.pc = "done" /\ main'.item = main.item /\ main'.err = main.err
      BY <1>12, <1>c, MainStep DEF Join
    <2>2. result' = Verdict'
      BY <1>12, <2>1 DEF Join, Verdict
    <2> QED
      BY <1>12, <2>1, <2>2 DEF Ctl, Join
  <1>13. CASE GuestExtract
    <2>1. guest'.is \in {guest.is, "ok"}
      BY <1>13, <1>c, GuestStep DEF GuestExtract
    <2> QED
      BY <1>13, <2>1, <1>v DEF Ctl, GuestExtract
  <1>14. CASE GuestCreate
    <2>1. guest'.is \in {guest.is, "ok"}
      BY <1>14, <1>c, GuestStep, GuestWrites DEF GuestCreate
    <2> QED
      BY <1>14, <2>1, <1>v DEF Ctl, GuestCreate
  <1>15. CASE GuestFails
    <2>1. /\ \/ guest'.is = "err" /\ "guest" \in hit'
             \/ guest'.is = "lost" /\ "lost" \in hit'
          /\ hit \subseteq hit'
      BY <1>15, <1>c, GuestStep, HitStep DEF GuestFails
    <2> QED
      BY <1>15, <2>1, <1>v DEF Ctl, GuestFails
  <1>16. CASE UNCHANGED vars
    BY <1>16, <1>v DEF vars, Ctl
  <1> QED
    BY Cases, <1>1, <1>2, <1>3, <1>4, <1>5, <1>6, <1>7, <1>8, <1>9, <1>10, <1>11, <1>12,
       <1>13, <1>14, <1>15, <1>16

-----------------------------------------------------------------------------
(* To the guest                                                            *)

\* What the fields may be.
LEMMA Fields ==
  ASSUME TypeOK
  PROVE  /\ way \in {"to", "from"} /\ hit \subseteq Fault
         /\ gor.pc \in GorPc /\ gor.err \in {"ok", "err"} /\ gor.next \in Nat
         /\ main.pc \in MainPc /\ main.err \in {"ok", "err"} /\ main.dirs \subseteq Path
         /\ guest.is \in GuestState /\ guest.next \in Nat
         /\ pipe.item \in Item \cup {None} /\ main.item \in Item \cup {None}
         /\ chan.items \in Seq(Item) /\ Len(chan.items) \in Nat
         /\ \A k \in 1 .. Len(chan.items) : chan.items[k] \in Item
  <1>1. chan.items \in Seq(Item) /\ Len(chan.items) \in Nat
        /\ \A k \in 1 .. Len(chan.items) : chan.items[k] \in Item
    BY Typed, LenProperties, ElementOfSeq DEF ChanRec
  <1>2. gor.next \in 1 .. Len(Walk) + 2 /\ guest.next \in 1 .. Len(Walk) + 2 /\ Len(Walk) \in Nat
    BY Typed, PlaceFacts DEF GorRec, GuestRec
  <1> QED
    BY <1>1, <1>2, Typed DEF GorRec, MainRec, GuestRec, PipeRec, Error

\* The host's refusal of a copy to the guest stays one.
LEMMA RefusesStays ==
  ASSUME HostRefuses, way = "to", hit \subseteq hit', way' = way, tree' = tree
  PROVE  HostRefuses'
  BY DEF HostRefuses, Readable

\* The constants of the steps below.
LEMMA Names ==
    /\ {"start", "work", "offered", "close", "done"} \subseteq GorPc
    /\ {"start", "work", "send", "restore", "wait", "drain", "join", "done"} \subseteq MainPc
    /\ {"none", "runs", "ok", "err", "lost"} \subseteq GuestState
    /\ Fault = {"session", "host", "guest", "lost"} /\ Error = {"ok", "err"}
    /\ None \notin Item
    /\ \A i \in Places : i \in Nat /\ ItemAt(i) \in Item /\ ~Written(i)
  BY PlaceFacts, NoneApart DEF GorPc, MainPc, GuestState, Fault, Error, Places, Written

\* What BuildTar does: it offers an entry, or ends.
LEMMA BuildCases ==
  ASSUME TypeOK, Ctl, BuildTar
  PROVE  /\ gor.pc = "work" /\ gor.err = "ok" /\ way = "to" /\ pipe.item = None
         /\ hit \subseteq hit'
         /\ \/ \E i \in Places :
                 /\ Comes(gor.next, i) /\ pipe'.item = ItemAt(i) /\ pipe'.closed = pipe.closed
                 /\ gor'.pc = "offered" /\ gor'.err = gor.err /\ gor'.next = i + 1
            \/ /\ pipe' = pipe /\ gor'.pc = "close" /\ gor'.next = gor.next
               /\ \/ gor'.err = "ok" /\ Written(gor.next)
                  \/ gor'.err = "err" /\ (HostRefuses \/ "host" \in hit')
  <1>0. gor.pc = "work" /\ gor.err = "ok" /\ way = "to" /\ pipe.item = None
    BY Fields DEF Ctl, BuildTar
  <1>1. ASSUME NEW i \in Places, Comes(gor.next, i), Offer(ItemAt(i)),
               gor' = [gor EXCEPT !.pc = "offered", !.next = i + 1]
        PROVE  /\ pipe'.item = ItemAt(i) /\ pipe'.closed = pipe.closed
               /\ gor'.pc = "offered" /\ gor'.err = gor.err /\ gor'.next = i + 1
    BY <1>1, Names, PipeStep, GorWrites
  <1>2. ASSUME NEW e \in {"ok", "err"}, GorGoto("close", e)
        PROVE  gor'.pc = "close" /\ gor'.next = gor.next /\ gor'.err = e
    BY <1>2, Names, GorStep
  <1>3. ASSUME NEW i \in Places, Comes(gor.next, i), ~Readable(ItemAt(i))
        PROVE  HostRefuses
    <2>1. PICK q \in Path : ItemAt(i) \in Path /\ Parent[ItemAt(i)] = q /\ tree[q] = "shut"
      BY <1>3 DEF Readable
    <2>2. ItemAt(i) = Walk[i] /\ i <= Len(Walk)
      BY <2>1, NoneApart DEF ItemAt
    <2>3. tree[ItemAt(i)] # None
      BY <2>2, <1>3 DEF Comes, InArchive
    <2> QED
      BY <1>0, <1>3, <2>1, <2>3 DEF HostRefuses
  <1>4. Happens("host") => hit \subseteq hit' /\ "host" \in hit'
    BY DEF Happens
  <1>5. CASE \E i \in Places : /\ Comes(gor.next, i) /\ Readable(ItemAt(i)) /\ Offer(ItemAt(i))
                               /\ gor' = [gor EXCEPT !.pc = "offered", !.next = i + 1]
                               /\ UNCHANGED hit
    BY <1>5, <1>0, <1>1
  <1>6. CASE Written(gor.next) /\ GorGoto("close", "ok") /\ UNCHANGED <<pipe, hit>>
    BY <1>6, <1>0, <1>2
  <1>7. CASE /\ \E i \in Places : Comes(gor.next, i) /\ ~Readable(ItemAt(i))
             /\ GorGoto("close", "err") /\ UNCHANGED <<pipe, hit>>
    BY <1>7, <1>0, <1>2, <1>3
  <1>8. CASE Happens("host") /\ GorGoto("close", "err") /\ UNCHANGED pipe
    BY <1>8, <1>0, <1>2, <1>4
  <1> QED
    BY <1>5, <1>6, <1>7, <1>8 DEF BuildTar

\* The steps of the caller and the guest that are not CopyStdin's.
LEMMA StartToCases ==
  ASSUME TypeOK, Ctl, StartTo
  PROVE  /\ way = "to" /\ main.pc = "start" /\ main'.item = main.item
         /\ \/ main'.pc = "work" /\ main'.err = main.err /\ guest'.is = "runs" /\ hit' = hit
            \/ main'.pc = "drain" /\ main'.err = "err" /\ guest' = guest /\ "session" \in hit'
               /\ hit \subseteq hit'
  <1>1. way = "to" /\ main.pc = "start"
    BY Fields DEF Ctl, StartTo
  <1> QED
    BY <1>1, Names, MainStep, MainTo, GuestStep, HitStep DEF StartTo, StartsOrNot

\* WaitTo: the guest's verdict is the caller's.
LEMMA WaitToCases ==
  ASSUME TypeOK, WaitTo
  PROVE  /\ main.pc = "wait" /\ main'.pc = "drain" /\ main'.item = main.item
         /\ \/ guest.is = "ok" /\ main'.err = "ok"
            \/ guest.is \in {"err", "lost"} /\ main'.err = "err"
  BY Names, MainTo DEF WaitTo, Over

\* The guest's tar takes an item, or the end of the stream.
LEMMA GuestExtractCases ==
  ASSUME TypeOK, GuestExtract
  PROVE  /\ guest.is = "runs" /\ chan'.eof = chan.eof /\ guest'.next = guest.next
         /\ \/ /\ Len(chan.items) \in Nat \ {0} /\ Len(chan'.items) = Len(chan.items) - 1
               /\ \A k \in 1 .. Len(chan.items) - 1 : chan'.items[k] = chan.items[k + 1]
               /\ chan.items[1] \in Item
               /\ got' = got \cup {chan.items[1]}
               /\ guest'.is = IF chan.items[1] = "end" THEN "ok" ELSE "runs"
            \/ /\ Len(chan.items) = 0 /\ chan.eof /\ chan' = chan /\ got' = got
               /\ guest'.is = "ok"
  <1>1. CASE /\ chan.items # <<>>
             /\ chan' = [chan EXCEPT !.items = Tail(@)]
             /\ got' = got \cup {Head(chan.items)}
             /\ IF Head(chan.items) = "end" THEN guest' = [guest EXCEPT !.is = "ok"]
                                            ELSE UNCHANGED guest
    BY <1>1, Names, ChanTakes, GuestStep DEF GuestExtract
  <1>2. CASE /\ chan.items = <<>> /\ chan.eof
             /\ guest' = [guest EXCEPT !.is = "ok"] /\ UNCHANGED <<chan, got>>
    BY <1>2, Names, GuestStep, EmptySeq DEF GuestExtract
  <1> QED
    BY <1>1, <1>2 DEF GuestExtract

\* The guest's tar fails, or the connection breaks.
LEMMA GuestFailsCases ==
  ASSUME TypeOK, GuestFails
  PROVE  /\ guest.is = "runs" /\ guest'.next = guest.next /\ hit \subseteq hit' /\ chan'.eof = chan.eof
         /\ \/ guest'.is = "err" /\ "guest" \in hit' /\ chan' = chan
            \/ guest'.is = "lost" /\ "lost" \in hit' /\ Len(chan'.items) = 0
  BY Names, GuestStep, HitStep, ChanEmptied DEF GuestFails

\* Drain discards an item, or finds the pipe closed.
LEMMA DrainCases ==
  ASSUME TypeOK, Drain
  PROVE  /\ main.pc = "drain" /\ main'.item = main.item /\ main'.err = main.err
         /\ main'.dirs = main.dirs
         /\ \/ pipe.item # None /\ pipe'.item = None /\ main' = main
            \/ pipe.closed # "open" /\ pipe' = pipe /\ main'.pc = "join"
  BY Names, PipeStep, MainStep DEF Drain

\* Join waits for the goroutine.
LEMMA JoinCases ==
  ASSUME TypeOK, Join
  PROVE  /\ main.pc = "join" /\ main'.pc = "done" /\ main'.item = main.item
         /\ main'.err = main.err /\ main'.dirs = main.dirs /\ gor.pc = "done"
  BY Names, MainStep DEF Join

\* The goroutine goes on when its item was taken; it closes the pipe last.
LEMMA GorCases ==
  ASSUME TypeOK
  PROVE  /\ Offered => /\ gor.pc = "offered" /\ gor'.pc = "work" /\ gor'.err = gor.err
                       /\ gor'.next = gor.next /\ pipe.item = None
         /\ CloseWithError => /\ gor.pc = "close" /\ gor'.pc = "done" /\ gor'.err = gor.err
                              /\ gor'.next = gor.next /\ pipe'.item = pipe.item
  BY Names, Fields, GorStep, PipeCloses DEF Offered, CloseWithError

\* The actions that a copy to the guest takes.
LEMMA ToActions ==
  ASSUME TypeOK, Ctl, way = "to", [Next]_vars
  PROVE  \/ Offered \/ CloseWithError \/ BuildTar \/ StartTo \/ CopyStdin \/ WaitTo
         \/ Drain \/ Join \/ GuestExtract \/ GuestFails \/ UNCHANGED vars
  <1>1. ~StartFrom /\ ~RestoreDirModes
    BY DEF StartFrom, RestoreDirModes, Ctl
  <1>2. ~CopyStdout /\ ~ExtractEntry /\ ~GuestCreate
    BY DEF CopyStdout, ExtractEntry, GuestCreate
  <1> QED
    BY <1>1, <1>2, Cases

\* The invariant of a copy to the guest holds at first.
LEMMA InitToInv == Init /\ way = "to" => ToInv
  <1> SUFFICES ASSUME Init, way = "to" PROVE ToInv
    OBVIOUS
  <1>0. Init /\ Len(chan.items) = 0 /\ gor.pc = "work" /\ gor.err = "ok" /\ gor.next = 1 /\ main.pc = "start"
    /\ main.err = "ok" /\ ~chan.eof /\ guest.is = "none" /\ got = {} /\ pipe.item = None
    /\ main.item = None
    BY EmptySeq DEF Init
  <1>1. \A p \in Path : ~(Place(p) < 1)
    BY PlaceFacts
  <1> QED
    BY <1>0, <1>1, NoneApart DEF ToInv, ToCtl, EndLast, Flow, Whole, Item

\* Every step keeps who waits for whom.
LEMMA NextToCtl ==
  ASSUME TypeOK, Ctl, ToCtl, way = "to", [Next]_vars
  PROVE  ToCtl'
  <1> USE DEF fs
  <1>0. /\ gor.err \in {"ok", "err"} /\ main.err \in {"ok", "err"}
        /\ \A n : Written(n) <=> n > Len(Walk) + 1
    BY Fields DEF Written
  <1>r. ASSUME hit \subseteq hit', way' = way, tree' = tree, gor'.err = gor.err
        PROVE  gor'.err = "err" => HostRefuses'
    BY <1>r, RefusesStays DEF ToCtl
  <1>h. hit \subseteq hit' => (hit \cap {"session", "guest", "lost"} # {}
                               => hit' \cap {"session", "guest", "lost"} # {})
    OBVIOUS
  <1>1. CASE Offered
    BY <1>1, <1>r, GorCases DEF Offered, ToCtl, Ctl, Written
  <1>2. CASE CloseWithError
    BY <1>2, <1>r, GorCases DEF CloseWithError, ToCtl, Ctl, Written
  <1>3. CASE BuildTar
    <2>1. gor'.err = "err" => HostRefuses'
      <3>1. HostRefuses => HostRefuses'
        BY <1>3, BuildCases, RefusesStays DEF BuildTar
      <3>2. "host" \in hit' => HostRefuses'
        BY DEF HostRefuses
      <3> QED
        BY <1>3, <1>0, <3>1, <3>2, BuildCases
    <2>2. hit' \cap {"session", "guest", "lost"} # {} \/ hit \cap {"session", "guest", "lost"} = {}
      BY <1>3, <1>h, BuildCases
    <2>3. gor'.pc \in {"close", "done"} /\ gor'.err = "ok" => Written(gor'.next)
      BY <1>3, BuildCases
    <2>4. main' = main /\ guest' = guest /\ chan' = chan /\ gor.pc = "work"
      BY <1>3 DEF BuildTar
    <2> QED
      BY <2>1, <2>2, <2>3, <2>4 DEF ToCtl, Written
  <1>4. CASE StartTo
    <2>1. gor' = gor /\ chan' = chan /\ tree' = tree /\ way' = way
      BY <1>4 DEF StartTo
    <2>2. (gor.err = "err" => HostRefuses) /\ hit \subseteq hit'
      BY <1>4, StartToCases DEF ToCtl
    <2> QED
      BY <1>4, <1>0, <1>r, <2>1, <2>2, StartToCases DEF ToCtl, Ctl, Written
  <1>5. CASE CopyStdin
    <2>1. gor' = gor /\ guest' = guest /\ hit' = hit /\ tree' = tree /\ way' = way
          /\ main'.err = main.err
      BY <1>5, StdinCases DEF CopyStdin
    <2>2. CASE main'.pc = "send" /\ chan' = chan /\ main.pc = "work"
      BY <2>1, <2>2, <1>0, <1>r DEF ToCtl, Ctl, Written
    <2>3. CASE main'.pc = "work" /\ chan'.eof = chan.eof /\ main.pc = "send"
      BY <2>1, <2>3, <1>0, <1>r DEF ToCtl, Ctl, Written
    <2>4. CASE /\ main'.pc = "wait" /\ main.pc \in {"work", "send"}
               /\ (pipe.item = None /\ pipe.closed # "open") \/ Over
      <3>1. guest'.is = "runs" => gor'.pc = "done"
        BY <2>1, <2>4 DEF Over, Ctl
      <3> QED
        BY <2>1, <2>4, <3>1, <1>0, <1>r DEF ToCtl, Ctl, Written
    <2>5. chan' = [chan EXCEPT !.items = Append(@, main.item)] /\ Len(chan.items) < Window
          /\ main.item \in Item => chan'.eof = chan.eof
      BY ChanAdds
    <2> QED
      BY <1>5, <2>2, <2>3, <2>4, <2>5, StdinCases
  <1>6. CASE WaitTo
    <2>1. gor' = gor /\ guest' = guest /\ hit' = hit /\ tree' = tree /\ way' = way /\ chan' = chan
      BY <1>6 DEF WaitTo
    <2> QED
      BY <1>6, <2>1, <1>r, WaitToCases DEF ToCtl, Ctl, Written
  <1>7. CASE Drain
    <2>1. gor' = gor /\ guest' = guest /\ hit' = hit /\ tree' = tree /\ way' = way /\ chan' = chan
      BY <1>7 DEF Drain
    <2> QED
      BY <1>7, <2>1, <1>r, DrainCases DEF ToCtl, Written
  <1>8. CASE Join
    <2>1. gor' = gor /\ guest' = guest /\ hit' = hit /\ tree' = tree /\ way' = way /\ chan' = chan
      BY <1>8 DEF Join
    <2> QED
      BY <1>8, <2>1, <1>r, JoinCases DEF ToCtl, Written
  <1>9. CASE GuestExtract
    <2>1. gor' = gor /\ main' = main /\ hit' = hit /\ tree' = tree /\ way' = way
      BY <1>9 DEF GuestExtract
    <2>2. guest'.is \in {"runs", "ok"} /\ guest.is = "runs" /\ chan'.eof = chan.eof
      BY <1>9, GuestExtractCases
    <2> QED
      BY <2>1, <2>2, <1>r DEF ToCtl, Written
  <1>10. CASE GuestFails
    <2>1. gor' = gor /\ main' = main /\ tree' = tree /\ way' = way
      BY <1>10 DEF GuestFails
    <2>2. guest'.is \in {"err", "lost"} /\ guest.is = "runs" /\ chan'.eof = chan.eof /\ hit \subseteq hit'
      BY <1>10, GuestFailsCases
    <2> QED
      BY <2>1, <2>2, <1>r, <1>h DEF ToCtl, Written
  <1>11. CASE UNCHANGED vars
    BY <1>11, <1>r DEF vars, ToCtl, Written
  <1> QED
    BY ToActions, <1>1, <1>2, <1>3, <1>4, <1>5, <1>6, <1>7, <1>8, <1>9, <1>10, <1>11

\* The order stays where nothing is added: items may only be dropped.
LEMMA EndLastStays ==
  ASSUME EndLast, gor'.next = gor.next, chan' = chan, got' = got,
         main'.item \in {main.item, None}, pipe'.item \in {pipe.item, None}, None \notin Item
  PROVE  EndLast'
  <1>1. None # "end"
    BY NoneApart DEF Item
  <1> QED
    BY <1>1 DEF EndLast, Written

\* Every step keeps the end mark last.
LEMMA NextEndLast ==
  ASSUME TypeOK, Ctl, EndLast, way = "to", [Next]_vars
  PROVE  EndLast'
  <1> USE DEF fs
  <1>n. None \notin Item /\ "end" \in Item /\ None # "end"
    BY NoneApart DEF Item
  <1>1. CASE Offered
    BY <1>1, <1>n, GorCases, EndLastStays DEF Offered
  <1>2. CASE CloseWithError
    BY <1>2, <1>n, GorCases, EndLastStays DEF CloseWithError
  <1>3. CASE BuildTar
    <2>1. main' = main /\ chan' = chan /\ got' = got
      BY <1>3 DEF BuildTar
    <2>2. CASE pipe' = pipe /\ gor'.next = gor.next
      BY <2>1, <2>2, <1>n, EndLastStays
    <2>3. ASSUME NEW i \in Places, Comes(gor.next, i), pipe'.item = ItemAt(i), gor'.next = i + 1
          PROVE  EndLast'
      <3>1. ~Written(gor.next)
        BY <2>3, PlaceFacts, Fields DEF Comes, Places, Written
      <3>2. ItemAt(i) = "end" => Written(i + 1)
        BY PlaceFacts DEF Written
      <3> QED
        BY <2>1, <2>3, <3>1, <3>2 DEF EndLast
    <2> QED
      BY <1>3, <2>2, <2>3, BuildCases
  <1>4. CASE StartTo
    BY <1>4, <1>n, StartToCases, EndLastStays DEF StartTo
  <1>5. CASE CopyStdin
    <2>1. gor' = gor /\ got' = got
      BY <1>5 DEF CopyStdin
    <2>2. CASE /\ main.pc = "work" /\ pipe.item \in Item
               /\ main'.item = pipe.item /\ pipe'.item = None /\ chan' = chan
      BY <2>1, <2>2, <1>n DEF EndLast, Written
    <2>3. CASE /\ main.item \in Item /\ main'.item = None /\ pipe' = pipe
               /\ Len(chan.items) < Window
               /\ chan' = [chan EXCEPT !.items = Append(@, main.item)]
      <3>1. /\ Len(chan.items) \in Nat /\ Len(chan'.items) = Len(chan.items) + 1
            /\ \A k \in 1 .. Len(chan.items) : chan'.items[k] = chan.items[k]
            /\ chan'.items[Len(chan.items) + 1] = main.item
        BY <2>3, ChanAdds
      <3>2. \A k \in 1 .. Len(chan.items) : chan.items[k] # "end"
        BY <2>3, <1>n DEF EndLast
      <3>3. "end" \notin got
        BY <2>3, <1>n DEF EndLast
      <3>4. pipe'.item # "end" \/ (Written(gor'.next) /\ main.item # "end")
        BY <2>1, <2>3, <1>n DEF EndLast
      <3> QED
        BY <2>1, <2>3, <3>1, <3>2, <3>3, <3>4, <1>n DEF EndLast
    <2>4. CASE main'.item = None /\ pipe' = pipe /\ chan'.items = chan.items
      BY <2>1, <2>4, <1>n DEF EndLast, Written
    <2>5. chan' = [chan EXCEPT !.eof = TRUE] => chan'.items = chan.items
      BY ChanEof
    <2> QED
      BY <1>5, <2>2, <2>3, <2>4, <2>5, StdinCases
  <1>6. CASE WaitTo
    BY <1>6, <1>n, WaitToCases, EndLastStays DEF WaitTo
  <1>7. CASE Drain
    BY <1>7, <1>n, DrainCases, EndLastStays DEF Drain
  <1>8. CASE Join
    BY <1>8, <1>n, JoinCases, EndLastStays DEF Join
  <1>9. CASE GuestExtract
    <2>1. gor' = gor /\ main' = main /\ pipe' = pipe
      BY <1>9 DEF GuestExtract
    <2>2. CASE chan' = chan /\ got' = got
      BY <2>1, <2>2, <1>n, EndLastStays
    <2>3. CASE /\ Len(chan.items) \in Nat \ {0} /\ Len(chan'.items) = Len(chan.items) - 1
               /\ \A k \in 1 .. Len(chan.items) - 1 : chan'.items[k] = chan.items[k + 1]
               /\ got' = got \cup {chan.items[1]}
      <3>1. "end" \in got' => Written(gor'.next) /\ Len(chan'.items) = 0 /\ main'.item = None
                              /\ pipe'.item = None
        <4>1. 1 \in 1 .. Len(chan.items)
          BY <2>3
        <4>2. chan.items[1] = "end" => Written(gor.next) /\ 1 = Len(chan.items)
                                       /\ main.item = None /\ pipe.item = None
          BY <4>1 DEF EndLast
        <4>3. "end" \notin got
          BY <2>3 DEF EndLast
        <4> QED
          BY <2>1, <2>3, <4>2, <4>3 DEF Written
      <3>2. \A k \in 1 .. Len(chan'.items) : chan'.items[k] = "end" =>
              Written(gor'.next) /\ k = Len(chan'.items) /\ main'.item = None /\ pipe'.item = None
        BY <2>1, <2>3 DEF EndLast
      <3> QED
        BY <2>1, <3>1, <3>2 DEF EndLast, Written
    <2> QED
      BY <1>9, <2>2, <2>3, GuestExtractCases
  <1>10. CASE GuestFails
    <2>1. gor' = gor /\ main' = main /\ pipe' = pipe /\ got' = got
      BY <1>10 DEF GuestFails
    <2> QED
      BY <1>10, <2>1, <1>n, GuestFailsCases, EndLastStays, Fields DEF EndLast, Written
  <1>11. CASE UNCHANGED vars
    BY <1>11, <1>n, EndLastStays DEF vars
  <1> QED
    BY ToActions, <1>1, <1>2, <1>3, <1>4, <1>5, <1>6, <1>7, <1>8, <1>9, <1>10, <1>11

\* What was written stays accounted for where no item moves.
LEMMA FlowStays ==
  ASSUME Flow, tree' = tree, gor'.next = gor.next, chan'.items = chan.items, got' = got,
         main'.item = main.item, pipe'.item = pipe.item,
         guest'.is \in {"none", "runs"} => guest.is \in {"none", "runs"},
         main'.pc \in {"start", "work", "send", "wait"} => main.pc \in {"start", "work", "send", "wait"}
  PROVE  Flow'
  BY DEF Flow, Present, InChan

\* When the guest takes the end mark, it has everything.
LEMMA EndMeansWhole ==
  ASSUME TypeOK, EndLast, Flow, guest.is = "runs", main.pc \in {"work", "send", "wait"},
         Len(chan.items) > 0, chan.items[1] = "end"
  PROVE  Complete
  <1>1. Len(chan.items) = 1 /\ main.item = None /\ pipe.item = None /\ Written(gor.next)
    <2>1. 1 \in 1 .. Len(chan.items)
      BY Fields
    <2> QED
      BY <2>1 DEF EndLast
  <1>2. ASSUME NEW p \in Path, Present(p) PROVE p \in got
    <2>1. Place(p) < gor.next
      BY <1>1, PlaceFacts, Fields DEF Written
    <2>2. p # None /\ p # "end"
      BY NoneApart DEF Item
    <2>3. ~InChan(p)
      BY <1>1, <2>2 DEF InChan
    <2> QED
      BY <1>1, <1>2, <2>1, <2>2, <2>3 DEF Flow
  <1> QED
    BY <1>2 DEF Complete

\* When the guest meets the end of a stream that was not cut, too.
LEMMA EofMeansWhole ==
  ASSUME TypeOK, Ctl, ToCtl, EndLast, Flow, guest.is = "runs",
         Len(chan.items) = 0, chan.eof
  PROVE  Complete \/ (gor.pc = "done" /\ gor.err = "err")
  <1>1. main.pc = "wait" /\ gor.pc = "done"
    BY DEF ToCtl
  <1>2. main.item = None /\ pipe.item = None
    BY <1>1 DEF Ctl
  <1>3. CASE gor.err = "ok"
    <2>1. Written(gor.next)
      BY <1>1, <1>3 DEF ToCtl
    <2>2. ASSUME NEW p \in Path, Present(p) PROVE p \in got
      <3>1. Place(p) < gor.next
        BY <2>1, PlaceFacts, Fields DEF Written
      <3>2. p # None
        BY NoneApart DEF Item
      <3>3. ~InChan(p)
        BY DEF InChan
      <3> QED
        BY <1>1, <1>2, <2>2, <3>1, <3>2, <3>3 DEF Flow
    <2> QED
      BY <2>2 DEF Complete
  <1> QED
    BY <1>1, <1>3, Fields

\* Every step accounts for what was written.
LEMMA NextFlow ==
  ASSUME TypeOK, Ctl, ToCtl, EndLast, Flow, way = "to", [Next]_vars
  PROVE  Flow'
  <1> USE DEF fs
  <1>n. None \notin Item /\ Path \subseteq Item
    BY NoneApart DEF Item
  <1>1. CASE Offered
    BY <1>1, GorCases, FlowStays DEF Offered
  <1>2. CASE CloseWithError
    BY <1>2, GorCases, FlowStays DEF CloseWithError
  <1>3. CASE BuildTar
    <2>1. main' = main /\ chan' = chan /\ got' = got /\ guest' = guest /\ tree' = tree
      BY <1>3 DEF BuildTar
    <2>2. CASE pipe' = pipe /\ gor'.next = gor.next
      BY <2>1, <2>2, FlowStays
    <2>3. ASSUME NEW i \in Places, Comes(gor.next, i), pipe'.item = ItemAt(i), gor'.next = i + 1
          PROVE  Flow'
      <3>1. ASSUME NEW p \in Path, Present(p), Place(p) < i + 1
            PROVE  Place(p) < gor.next \/ p = ItemAt(i)
        <4>1. Place(p) \in 1 .. Len(Walk) /\ ItemAt(Place(p)) = p /\ i \in Nat /\ gor.next \in Nat
              /\ Walk[Place(p)] = p
          BY <1>n, PlaceFacts, Fields, Names
        <4>2. InArchive(Place(p))
          BY <3>1, <4>1 DEF InArchive, Present
        <4>3. ~(Place(p) \in gor.next .. i - 1)
          BY <2>3, <4>2 DEF Comes
        <4> QED
          BY <3>1, <4>1, <4>3
      <3>2. pipe.item = None
        BY <1>3, BuildCases
      <3> QED
        BY <2>1, <2>3, <3>1, <3>2, <1>n DEF Flow, Present, InChan
    <2> QED
      BY <1>3, <2>2, <2>3, BuildCases
  <1>4. CASE StartTo
    <2>1. guest.is = "none"
      BY <1>4 DEF StartTo, ToCtl
    <2> QED
      BY <1>4, <2>1, StartToCases, FlowStays DEF StartTo
  <1>5. CASE CopyStdin
    <2>1. gor' = gor /\ got' = got /\ guest' = guest /\ tree' = tree
      BY <1>5 DEF CopyStdin
    <2>2. CASE /\ main.pc = "work" /\ pipe.item \in Item
               /\ main'.item = pipe.item /\ pipe'.item = None /\ chan' = chan
      <3>1. main.item = None
        BY <2>2 DEF Ctl
      <3> QED
        BY <2>1, <2>2, <3>1, <1>n DEF Flow, Present, InChan
    <2>3. CASE /\ main.pc = "send"
               /\ main.item \in Item /\ main'.item = None /\ pipe' = pipe
               /\ Len(chan.items) < Window
               /\ chan' = [chan EXCEPT !.items = Append(@, main.item)]
      <3>1. /\ Len(chan.items) \in Nat /\ Len(chan'.items) = Len(chan.items) + 1
            /\ \A k \in 1 .. Len(chan.items) : chan'.items[k] = chan.items[k]
            /\ chan'.items[Len(chan.items) + 1] = main.item
        BY <2>3, ChanAdds
      <3>2. \A p : InChan(p) => InChan(p)'
        BY <3>1 DEF InChan
      <3>3. \A p : p = main.item => InChan(p)'
        BY <3>1 DEF InChan
      <3> QED
        BY <2>1, <2>3, <3>2, <3>3 DEF Flow, Present
    <2>4. CASE /\ (main.pc = "work" /\ pipe.item = None /\ pipe.closed # "open")
                  \/ (main.pc = "send" /\ Over)
               /\ main'.item = None /\ pipe' = pipe /\ chan'.items = chan.items
      <3>1. CASE main.pc = "work"
        <4>1. main.item = None
          BY <3>1 DEF Ctl
        <4> QED
          BY <2>1, <2>4, <3>1, <4>1 DEF Flow, Present, InChan
      <3>2. CASE Over
        BY <2>1, <3>2 DEF Flow, Over
      <3> QED
        BY <2>4, <3>1, <3>2
    <2>5. chan' = [chan EXCEPT !.eof = TRUE] => chan'.items = chan.items
      BY ChanEof
    <2> QED
      BY <1>5, <2>2, <2>3, <2>4, <2>5, StdinCases
  <1>6. CASE WaitTo
    BY <1>6, WaitToCases DEF Flow
  <1>7. CASE Drain
    BY <1>7, DrainCases DEF Flow
  <1>8. CASE Join
    BY <1>8, JoinCases DEF Flow
  <1>9. CASE GuestExtract
    <2>1. gor' = gor /\ main' = main /\ pipe' = pipe /\ tree' = tree
      BY <1>9 DEF GuestExtract
    <2>2. CASE guest'.is = "ok"
      BY <2>2 DEF Flow
    <2>3. CASE /\ Len(chan.items) \in Nat \ {0} /\ Len(chan'.items) = Len(chan.items) - 1
               /\ \A k \in 1 .. Len(chan.items) - 1 : chan'.items[k] = chan.items[k + 1]
               /\ got' = got \cup {chan.items[1]}
      <3>1. ASSUME NEW p, InChan(p) PROVE p \in got' \/ InChan(p)'
        <4>1. PICK k \in 1 .. Len(chan.items) : chan.items[k] = p
          BY <3>1 DEF InChan
        <4>2. CASE k = 1
          BY <2>3, <4>1, <4>2
        <4>3. CASE k # 1
          <5>1. k - 1 \in 1 .. Len(chan.items) - 1 /\ chan'.items[k - 1] = p
            BY <2>3, <4>1, <4>3
          <5> QED
            BY <5>1, <2>3 DEF InChan
        <4> QED
          BY <4>2, <4>3
      <3>2. guest.is = "runs" /\ got \subseteq got'
        BY <1>9, <2>3, GuestExtractCases
      <3> QED
        BY <2>1, <3>1, <3>2 DEF Flow, Present
    <2> QED
      BY <1>9, <2>2, <2>3, GuestExtractCases
  <1>10. CASE GuestFails
    BY <1>10, GuestFailsCases DEF Flow
  <1>11. CASE UNCHANGED vars
    BY <1>11, FlowStays DEF vars
  <1> QED
    BY ToActions, <1>1, <1>2, <1>3, <1>4, <1>5, <1>6, <1>7, <1>8, <1>9, <1>10, <1>11

\* A whole archive stays whole.
LEMMA WholeStays ==
  ASSUME Whole, tree' = tree, got \subseteq got', guest'.is = "ok" => guest.is = "ok",
         gor.pc = "done" /\ gor.err = "err" => gor'.pc = "done" /\ gor'.err = "err"
  PROVE  Whole'
  BY DEF Whole, Complete, Present

\* Every step keeps the verdict of the guest justified.
LEMMA NextWhole ==
  ASSUME TypeOK, Ctl, ToInv, way = "to", [Next]_vars
  PROVE  Whole'
  <1> USE DEF fs, ToInv
  <1>1. CASE Offered
    BY <1>1, GorCases, WholeStays DEF Offered
  <1>2. CASE CloseWithError
    BY <1>2, GorCases, WholeStays DEF CloseWithError
  <1>3. CASE BuildTar
    BY <1>3, BuildCases, WholeStays DEF BuildTar
  <1>4. CASE StartTo
    BY <1>4, StartToCases, WholeStays DEF StartTo
  <1>5. CASE CopyStdin
    BY <1>5, WholeStays DEF CopyStdin
  <1>6. CASE WaitTo
    BY <1>6, WholeStays DEF WaitTo
  <1>7. CASE Drain
    BY <1>7, WholeStays DEF Drain
  <1>8. CASE Join
    BY <1>8, WholeStays DEF Join
  <1>9. CASE GuestExtract
    <2>1. gor' = gor /\ tree' = tree /\ got \subseteq got'
      BY <1>9, GuestExtractCases DEF GuestExtract
    <2>2. guest.is = "runs" /\ main.pc \in {"work", "send", "wait"}
      BY <1>9, GuestExtractCases DEF ToCtl
    <2>3. guest'.is = "ok" => Complete \/ (gor.pc = "done" /\ gor.err = "err")
      BY <1>9, <2>2, GuestExtractCases, EndMeansWhole, EofMeansWhole
    <2> QED
      BY <2>1, <2>3 DEF Whole, Complete, Present
  <1>10. CASE GuestFails
    BY <1>10, GuestFailsCases, WholeStays DEF GuestFails
  <1>11. CASE UNCHANGED vars
    BY <1>11, WholeStays DEF vars
  <1> QED
    BY ToActions, <1>1, <1>2, <1>3, <1>4, <1>5, <1>6, <1>7, <1>8, <1>9, <1>10, <1>11

\* Every step keeps the invariant of a copy to the guest.
LEMMA NextToInv ==
  ASSUME TypeOK, Ctl, ToInv, way = "to", [Next]_vars
  PROVE  ToInv'
  BY NextToCtl, NextEndLast, NextFlow, NextWhole DEF ToInv

-----------------------------------------------------------------------------
(* From the guest                                                          *)

\* The actions that a copy from the guest takes.
LEMMA FromActions ==
  ASSUME TypeOK, Ctl, way = "from", [Next]_vars
  PROVE  \/ Offered \/ CloseWithError \/ StartFrom \/ CopyStdout \/ ExtractEntry
         \/ RestoreDirModes \/ Drain \/ Join \/ GuestCreate \/ GuestFails \/ UNCHANGED vars
  <1>1. ~StartTo
    BY DEF StartTo, Ctl
  <1>2. ~BuildTar /\ ~CopyStdin /\ ~WaitTo /\ ~GuestExtract
    BY DEF BuildTar, CopyStdin, WaitTo, GuestExtract
  <1> QED
    BY <1>1, <1>2, Cases

\* The session of a copy from the guest starts or does not.
LEMMA StartFromCases ==
  ASSUME TypeOK, StartFrom
  PROVE  /\ gor.pc = "start" /\ guest'.next = guest.next /\ hit \subseteq hit'
         /\ \/ gor'.pc = "work" /\ gor'.err = "ok" /\ guest'.is = "runs"
            \/ gor'.pc = "close" /\ gor'.err = "err" /\ guest' = guest /\ "session" \in hit'
  BY Names, GorStep, GuestStep, HitStep DEF StartFrom, StartsOrNot

\* CopyStdout passes an item on, or ends with the verdict of the guest.
LEMMA CopyStdoutCases ==
  ASSUME TypeOK, Ctl, CopyStdout
  PROVE  /\ gor.pc = "work" /\ pipe.item = None
         /\ \/ /\ Len(chan.items) \in Nat \ {0} /\ Len(chan'.items) = Len(chan.items) - 1
               /\ \A k \in 1 .. Len(chan.items) - 1 : chan'.items[k] = chan.items[k + 1]
               /\ chan.items[1] \in Item
               /\ pipe'.item = chan.items[1] /\ gor'.err = gor.err
            \/ /\ chan' = chan /\ pipe' = pipe
               /\ gor'.err = "ok" \/ (gor'.err = "err" /\ guest.is \in {"err", "lost"})
  <1>1. gor.pc = "work" /\ pipe.item = None
    BY DEF Ctl, CopyStdout
  <1>2. CASE /\ chan.items # <<>>
             /\ Offer(Head(chan.items)) /\ chan' = [chan EXCEPT !.items = Tail(@)]
             /\ GorGoto("offered", gor.err)
    BY <1>1, <1>2, Names, Fields, ChanTakes, PipeStep, GorStep
  <1>3. CASE /\ chan.items = <<>> /\ Over
             /\ GorGoto("close", IF guest.is = "ok" THEN "ok" ELSE "err")
             /\ UNCHANGED <<pipe, chan>>
    BY <1>1, <1>3, Names, GorStep DEF Over
  <1> QED
    BY <1>2, <1>3 DEF CopyStdout

\* The guest's tar writes the next entry, or has written all.
LEMMA GuestCreateCases ==
  ASSUME TypeOK, GuestCreate
  PROVE  /\ guest.is = "runs"
         /\ \/ \E i \in Places :
                 /\ Comes(guest.next, i)
                 /\ guest'.is = "runs" /\ guest'.next = i + 1
                 /\ Len(chan.items) \in Nat /\ Len(chan'.items) = Len(chan.items) + 1
                 /\ \A k \in 1 .. Len(chan.items) : chan'.items[k] = chan.items[k]
                 /\ chan'.items[Len(chan.items) + 1] = ItemAt(i)
            \/ guest'.is = "ok" /\ guest'.next = guest.next /\ chan' = chan
  <1>1. ASSUME NEW i \in Places, Comes(guest.next, i), Len(chan.items) < Window,
               chan' = [chan EXCEPT !.items = Append(@, ItemAt(i))],
               guest' = [guest EXCEPT !.next = i + 1]
        PROVE  /\ guest'.is = guest.is /\ guest'.next = i + 1
               /\ Len(chan.items) \in Nat /\ Len(chan'.items) = Len(chan.items) + 1
               /\ \A k \in 1 .. Len(chan.items) : chan'.items[k] = chan.items[k]
               /\ chan'.items[Len(chan.items) + 1] = ItemAt(i)
    BY <1>1, Names, ChanAdds, GuestWrites
  <1>2. CASE guest' = [guest EXCEPT !.is = "ok"] /\ UNCHANGED chan
    BY <1>2, Names, GuestStep DEF GuestCreate
  <1> QED
    BY <1>1, <1>2 DEF GuestCreate

\* A directory comes before what is in it.
LEMMA ParentFirst ==
  ASSUME tree \in Trees, NEW p \in Path, Present(p), Parent[p] \in Path
  PROVE  tree[Parent[p]] \in Dirs /\ Present(Parent[p]) /\ Place(Parent[p]) < Place(p)
  <1>1. tree[Parent[p]] \in Dirs
    BY CopyAssumption DEF Present
  <1>2. tree[Parent[p]] # None
    BY <1>1, NoneApart DEF Dirs, Kind
  <1>3. Place(p) \in 1 .. Len(Walk) /\ Walk[Place(p)] = p /\ Len(Walk) \in Nat
    BY PlaceFacts
  <1>4. PICK j \in 1 .. Place(p) - 1 : Walk[j] = Parent[p]
    BY <1>3, CopyAssumption
  <1>5. j \in Places /\ ItemAt(j) = Parent[p] /\ j < Place(p)
    BY <1>3, <1>4 DEF Places, ItemAt
  <1>6. Place(Parent[p]) = j
    BY <1>5, PlaceFacts
  <1> QED
    BY <1>1, <1>2, <1>5, <1>6 DEF Present

\* The invariant of a copy from the guest holds at first.
LEMMA InitFromInv == Init /\ way = "from" => FromInv
  <1> SUFFICES ASSUME Init, way = "from" PROVE FromInv
    OBVIOUS
  <1>0. /\ Len(chan.items) = 0 /\ gor.err = "ok" /\ main.pc = "work" /\ main.err = "ok"
        /\ guest.is = "none"
        /\ guest.next = 1 /\ pipe.item = None /\ main.dirs = {}
    BY EmptySeq DEF Init
  <1>1. \A p \in Path : ~dest[p].new
    BY DEF Init
  <1>2. \A p \in Path : ~(Place(p) < 1)
    BY PlaceFacts
  <1>3. InOrder
    BY <1>0, <1>1 DEF InOrder
  <1>4. NoGap /\ DirsInv /\ Untouched
    BY <1>0, <1>1, <1>2 DEF NoGap, DirsInv, Untouched
  <1> QED
    BY <1>0, <1>3, <1>4 DEF FromInv, FromCtl

\* The order stays where nothing is added.
LEMMA InOrderStays ==
  ASSUME InOrder, tree' = tree, guest'.next = guest.next,
         chan'.items = chan.items \/ Len(chan'.items) = 0,
         pipe'.item \in {pipe.item, None},
         \A p \in Path : dest'[p].new => dest[p].new
  PROVE  InOrder'
  BY DEF InOrder, InArchive

\* Every step keeps the order.
LEMMA NextInOrder ==
  ASSUME TypeOK, Ctl, InOrder, way = "from", [Next]_vars
  PROVE  InOrder'
  <1> USE DEF fs
  <1>n. None \notin Item /\ Path \subseteq Item /\ guest.next \in Nat /\ Len(chan.items) \in Nat
        /\ (\A x \in Item : Place(x) \in Nat)
        /\ (\A k \in 1 .. Len(chan.items) : chan.items[k] \in Item)
        /\ pipe.item \in Item \cup {None}
    BY NoneApart, Fields, PlaceFacts DEF Item, Places
  <1>1. CASE Offered
    BY <1>1, InOrderStays DEF Offered
  <1>2. CASE CloseWithError
    BY <1>2, GorCases, InOrderStays DEF CloseWithError
  <1>3. CASE StartFrom
    BY <1>3, StartFromCases, InOrderStays DEF StartFrom
  <1>4. CASE CopyStdout
    <2>1. dest' = dest /\ guest' = guest /\ tree' = tree
      BY <1>4 DEF CopyStdout
    <2>2. CASE chan' = chan /\ pipe' = pipe
      BY <2>1, <2>2, InOrderStays
    <2>3. CASE /\ Len(chan.items) \in Nat \ {0} /\ Len(chan'.items) = Len(chan.items) - 1
               /\ \A k \in 1 .. Len(chan.items) - 1 : chan'.items[k] = chan.items[k + 1]
               /\ pipe'.item = chan.items[1]
      <3>1. 1 \in 1 .. Len(chan.items)
        BY <2>3
      <3>2. ASSUME NEW k \in 1 .. Len(chan'.items)
            PROVE  /\ k + 1 \in 1 .. Len(chan.items) /\ chan'.items[k] = chan.items[k + 1]
                   /\ Place(chan'.items[k]) < guest.next /\ InArchive(Place(chan'.items[k]))
                   /\ \A l \in 1 .. k - 1 : Place(chan'.items[l]) < Place(chan'.items[k])
                   /\ Place(pipe'.item) < Place(chan'.items[k])
                   /\ \A p \in Path : dest[p].new => Place(p) < Place(chan'.items[k])
        <4>1. k + 1 \in 1 .. Len(chan.items) /\ chan'.items[k] = chan.items[k + 1]
          BY <2>3
        <4>2. \A l \in 1 .. k - 1 : l + 1 \in 1 .. (k + 1) - 1 /\ chan'.items[l] = chan.items[l + 1]
          BY <2>3
        <4>3. 1 \in 1 .. (k + 1) - 1
          OBVIOUS
        <4> QED
          BY <2>3, <4>1, <4>2, <4>3 DEF InOrder
      <3>3. /\ Place(pipe'.item) < guest.next /\ InArchive(Place(pipe'.item))
            /\ \A p \in Path : dest[p].new => Place(p) < Place(pipe'.item) /\ Place(p) < guest.next
        BY <2>3, <3>1 DEF InOrder
      <3> QED
        BY <2>1, <3>2, <3>3 DEF InOrder, InArchive
    <2> QED
      BY <1>4, <2>2, <2>3, CopyStdoutCases
  <1>5. CASE ExtractEntry
    <2>1. chan' = chan /\ guest' = guest /\ tree' = tree /\ pipe'.item = None
      BY <1>5, ExtractCases DEF ExtractEntry
    <2>2. CASE dest' = dest
      BY <2>1, <2>2, InOrderStays
    <2>3. CASE pipe.item \in Path /\ Put(pipe.item)
      <3>1. \A q \in Path : q # pipe.item => dest'[q] = dest[q]
        BY <2>3, PutStep
      <3>2. pipe.item # None
        BY <2>3, <1>n
      <3> QED
        BY <2>1, <2>3, <3>1, <3>2 DEF InOrder, InArchive
    <2> QED
      BY <1>5, <2>2, <2>3, ExtractCases
  <1>6. CASE RestoreDirModes
    <2>1. \A p \in Path : dest'[p].new => dest[p].new
      BY <1>6, RestoreCases
    <2> QED
      BY <1>6, <2>1, InOrderStays DEF RestoreDirModes
  <1>7. CASE Drain
    BY <1>7, DrainCases, InOrderStays DEF Drain
  <1>8. CASE Join
    BY <1>8, InOrderStays DEF Join
  <1>9. CASE GuestCreate
    <2>1. dest' = dest /\ pipe' = pipe /\ tree' = tree
      BY <1>9 DEF GuestCreate
    <2>2. CASE chan' = chan /\ guest'.next = guest.next
      BY <2>1, <2>2, InOrderStays
    <2>3. ASSUME NEW i \in Places, Comes(guest.next, i), guest'.next = i + 1,
                 Len(chan'.items) = Len(chan.items) + 1,
                 \A k \in 1 .. Len(chan.items) : chan'.items[k] = chan.items[k],
                 chan'.items[Len(chan.items) + 1] = ItemAt(i)
          PROVE  InOrder'
      <3>1. i >= guest.next /\ InArchive(i) /\ i \in Nat /\ Place(ItemAt(i)) = i
        BY <2>3, PlaceFacts, Names DEF Comes
      <3>2. ASSUME NEW k \in 1 .. Len(chan.items)
            PROVE  /\ Place(chan'.items[k]) < i + 1 /\ InArchive(Place(chan'.items[k]))
                   /\ Place(chan'.items[k]) < i
                   /\ \A l \in 1 .. k - 1 : Place(chan'.items[l]) < Place(chan'.items[k])
                   /\ pipe.item # None => Place(pipe.item) < Place(chan'.items[k])
                   /\ \A p \in Path : dest[p].new => Place(p) < Place(chan'.items[k])
        <4>1. \A l \in 1 .. k - 1 : chan'.items[l] = chan.items[l]
          BY <2>3, <1>n
        <4>2. chan'.items[k] = chan.items[k] /\ chan.items[k] \in Item
          BY <2>3, <1>n
        <4>3. Place(chan.items[k]) < guest.next
          BY DEF InOrder
        <4> QED
          BY <3>1, <4>1, <4>2, <4>3, <1>n DEF InOrder
      <3>3. pipe.item # None => Place(pipe.item) < i /\ InArchive(Place(pipe.item))
        BY <3>1, <1>n DEF InOrder
      <3>4. \A p \in Path : dest[p].new => Place(p) < i /\ (pipe.item # None => Place(p) < Place(pipe.item))
        BY <3>1, <1>n DEF InOrder
      <3>5. \A k \in 1 .. Len(chan'.items) : k \in 1 .. Len(chan.items) \/ k = Len(chan.items) + 1
        BY <2>3, <1>n
      <3>6. ASSUME NEW k \in 1 .. Len(chan'.items)
            PROVE  /\ Place(chan'.items[k]) < i + 1 /\ InArchive(Place(chan'.items[k]))
                   /\ \A l \in 1 .. k - 1 : Place(chan'.items[l]) < Place(chan'.items[k])
                   /\ pipe.item # None => Place(pipe.item) < Place(chan'.items[k])
                   /\ \A p \in Path : dest[p].new => Place(p) < Place(chan'.items[k])
        <4>1. CASE k \in 1 .. Len(chan.items)
          BY <3>2, <4>1
        <4>2. CASE k = Len(chan.items) + 1
          <5>1. chan'.items[k] = ItemAt(i) /\ Place(ItemAt(i)) = i
            BY <2>3, <3>1, <4>2
          <5>2. \A l \in 1 .. k - 1 : l \in 1 .. Len(chan.items)
            BY <4>2, <1>n
          <5> QED
            BY <3>1, <3>2, <3>3, <3>4, <5>1, <5>2
        <4> QED
          BY <3>5, <4>1, <4>2
      <3>7. \A p \in Path : dest[p].new => Place(p) < i + 1
        BY <3>1, <3>4, <1>n
      <3>8. pipe.item # None => Place(pipe.item) < i + 1
        BY <3>1, <3>3, <1>n
      <3> QED
        BY <2>1, <2>3, <3>3, <3>4, <3>6, <3>7, <3>8 DEF InOrder, InArchive
    <2> QED
      BY <1>9, <2>2, <2>3, GuestCreateCases
  <1>10. CASE GuestFails
    BY <1>10, GuestFailsCases, InOrderStays DEF GuestFails
  <1>11. CASE UNCHANGED vars
    BY <1>11, InOrderStays DEF vars
  <1> QED
    BY FromActions, <1>1, <1>2, <1>3, <1>4, <1>5, <1>6, <1>7, <1>8, <1>9, <1>10, <1>11

\* No gap opens where no item moves.
LEMMA NoGapStays ==
  ASSUME NoGap, tree' = tree, guest'.next = guest.next,
         guest'.is # "lost" => guest.is # "lost",
         chan' = chan, pipe'.item = pipe.item, dest' = dest, main'.dirs = main.dirs
  PROVE  NoGap'
  BY DEF NoGap, Present, Extracted, Skipped, InChan

\* An entry is written where all that comes before it is.
LEMMA NextNoGap ==
  ASSUME TypeOK, Ctl, FromCtl, InOrder, NoGap, main.pc = "work", main'.pc = "work",
         way = "from", [Next]_vars
  PROVE  NoGap'
  <1> USE DEF fs
  <1>n. None \notin Item /\ Path \subseteq Item /\ guest.next \in Nat /\ Len(chan.items) \in Nat
        /\ (\A x \in Item : Place(x) \in Nat)
        /\ (\A k \in 1 .. Len(chan.items) : chan.items[k] \in Item)
        /\ pipe.item \in Item \cup {None}
    BY NoneApart, Fields, PlaceFacts DEF Item, Places
  <1>1. CASE Offered
    BY <1>1, NoGapStays DEF Offered
  <1>2. CASE CloseWithError
    BY <1>2, GorCases, NoGapStays DEF CloseWithError
  <1>3. CASE StartFrom
    BY <1>3, StartFromCases, NoGapStays DEF StartFrom, FromCtl
  <1>4. CASE CopyStdout
    <2>1. dest' = dest /\ guest' = guest /\ tree' = tree /\ main' = main /\ pipe.item = None
      BY <1>4, CopyStdoutCases DEF CopyStdout
    <2>2. CASE chan' = chan /\ pipe' = pipe
      BY <2>1, <2>2, NoGapStays
    <2>3. CASE /\ Len(chan.items) \in Nat \ {0} /\ Len(chan'.items) = Len(chan.items) - 1
               /\ \A k \in 1 .. Len(chan.items) - 1 : chan'.items[k] = chan.items[k + 1]
               /\ pipe'.item = chan.items[1]
      <3>1. 1 \in 1 .. Len(chan.items)
        BY <2>3
      <3>2. ASSUME NEW p \in Path, NEW m \in 2 .. Len(chan.items) + 1,
                   NEW l \in 1 .. m - 1, chan.items[l] = p, l \in 1 .. Len(chan.items)
            PROVE  pipe'.item = p \/ \E j \in 1 .. (m - 1) - 1 : chan'.items[j] = p
        <4>1. CASE l = 1
          BY <2>3, <3>2, <4>1
        <4>2. CASE l # 1
          <5>1. l - 1 \in 1 .. (m - 1) - 1 /\ chan'.items[l - 1] = p
            BY <2>3, <3>2, <4>2
          <5> QED
            BY <5>1
        <4> QED
          BY <4>1, <4>2
      <3>3. ASSUME NEW p \in Path, Present(p)
            PROVE  /\ Place(p) < Place(pipe'.item) => Extracted(p)
                   /\ \A k \in 1 .. Len(chan'.items) : Place(p) < Place(chan'.items[k]) =>
                        \/ Extracted(p) \/ pipe'.item = p
                        \/ \E l \in 1 .. k - 1 : chan'.items[l] = p
                   /\ guest.is # "lost" /\ Place(p) < guest.next =>
                        Extracted(p) \/ pipe'.item = p \/ InChan(p)'
        <4>0. p # None
          BY <1>n
        <4>1. Place(p) < Place(pipe'.item) => Extracted(p)
          <5>1. ~(\E l \in 1 .. 1 - 1 : chan.items[l] = p)
            OBVIOUS
          <5> QED
            BY <2>1, <2>3, <3>1, <3>3, <4>0, <5>1 DEF NoGap
        <4>2. ASSUME NEW k \in 1 .. Len(chan'.items), Place(p) < Place(chan'.items[k])
              PROVE  \/ Extracted(p) \/ pipe'.item = p
                     \/ \E l \in 1 .. k - 1 : chan'.items[l] = p
          <5>1. k + 1 \in 1 .. Len(chan.items) /\ chan'.items[k] = chan.items[k + 1]
            BY <2>3
          <5>2. Extracted(p) \/ \E l \in 1 .. (k + 1) - 1 : chan.items[l] = p
            BY <2>1, <3>3, <4>0, <4>2, <5>1 DEF NoGap
          <5>3. CASE \E l \in 1 .. (k + 1) - 1 : chan.items[l] = p
            <6>1. PICK l \in 1 .. (k + 1) - 1 : chan.items[l] = p
              BY <5>3
            <6>2. l \in 1 .. Len(chan.items) /\ k + 1 \in 2 .. Len(chan.items) + 1 /\ (k + 1) - 1 = k
              BY <5>1, <6>1
            <6> QED
              BY <3>2, <6>1, <6>2
          <5> QED
            BY <5>2, <5>3
        <4>3. ASSUME guest.is # "lost", Place(p) < guest.next
              PROVE  Extracted(p) \/ pipe'.item = p \/ InChan(p)'
          <5>1. Extracted(p) \/ InChan(p)
            BY <2>1, <3>3, <4>0, <4>3 DEF NoGap
          <5>2. CASE InChan(p)
            <6>1. PICK l \in 1 .. Len(chan.items) : chan.items[l] = p
              BY <5>2 DEF InChan
            <6>2. Len(chan.items) + 1 \in 2 .. Len(chan.items) + 1
                  /\ l \in 1 .. (Len(chan.items) + 1) - 1
                  /\ ((Len(chan.items) + 1) - 1) - 1 = Len(chan'.items)
              BY <2>3, <6>1
            <6>3. pipe'.item = p \/ \E j \in 1 .. Len(chan'.items) : chan'.items[j] = p
              BY <3>2, <6>1, <6>2
            <6> QED
              BY <6>3 DEF InChan
          <5> QED
            BY <5>1, <5>2
        <4> QED
          BY <4>1, <4>2, <4>3
      <3> QED
        BY <2>1, <3>3 DEF NoGap, Present, Extracted, Skipped
    <2> QED
      BY <1>4, <2>2, <2>3, CopyStdoutCases
  <1>5. CASE ExtractEntry
    <2>1. chan' = chan /\ guest' = guest /\ tree' = tree /\ pipe'.item = None
      BY <1>5, ExtractCases DEF ExtractEntry
    <2>3. CASE Skipped(pipe.item) /\ main' = main /\ dest' = dest
      <3>1. ASSUME NEW p \in Path, Extracted(p) \/ p = pipe.item PROVE Extracted(p)'
        BY <2>1, <2>3, <3>1, NoneApart DEF Extracted, Skipped, Dirs
      <3> QED
        BY <2>1, <3>1 DEF NoGap, Present, InChan
    <2>4. CASE /\ pipe.item \in Path /\ Put(pipe.item)
               /\ main'.dirs = IF tree[pipe.item] \in Dirs THEN main.dirs \cup {pipe.item}
                                                           ELSE main.dirs
      <3>0. ASSUME NEW p \in Path, Extracted(p) \/ p = pipe.item PROVE Extracted(p)'
        <4>1. CASE p = pipe.item
          BY <2>1, <2>4, <4>1, PutStep DEF Extracted, Skipped
        <4>2. CASE p # pipe.item /\ Extracted(p)
          <5>1. dest'[p] = dest[p]
            BY <2>4, <4>2, PutStep
          <5> QED
            BY <2>1, <2>4, <4>2, <5>1 DEF Extracted, Skipped
        <4> QED
          BY <3>0, <4>1, <4>2
      <3> QED
        BY <2>1, <3>0 DEF NoGap, Present, InChan
    <2> QED
      BY <1>5, <2>3, <2>4, ExtractCases
  <1>6. CASE RestoreDirModes
    BY <1>6 DEF RestoreDirModes
  <1>7. CASE Drain
    BY <1>7 DEF Drain
  <1>8. CASE Join
    BY <1>8 DEF Join
  <1>9. CASE GuestCreate
    <2>1. dest' = dest /\ pipe' = pipe /\ tree' = tree /\ main' = main
      BY <1>9 DEF GuestCreate
    <2>0. guest.is = "runs"
      BY <1>9, GuestCreateCases
    <2>2. CASE chan' = chan /\ guest'.next = guest.next
      BY <2>0, <2>1, <2>2, NoGapStays
    <2>3. ASSUME NEW i \in Places, Comes(guest.next, i), guest'.next = i + 1,
                 Len(chan'.items) = Len(chan.items) + 1,
                 \A k \in 1 .. Len(chan.items) : chan'.items[k] = chan.items[k],
                 chan'.items[Len(chan.items) + 1] = ItemAt(i)
          PROVE  NoGap'
      <3>1. i >= guest.next /\ i \in Nat /\ Place(ItemAt(i)) = i
        BY <2>3, PlaceFacts, Names DEF Comes
      <3>2. ASSUME NEW p \in Path, Present(p), Place(p) < i PROVE Place(p) < guest.next
        <4>1. Place(p) \in 1 .. Len(Walk) /\ Walk[Place(p)] = p
          BY PlaceFacts
        <4>2. InArchive(Place(p))
          BY <3>2, <4>1 DEF InArchive, Present
        <4>3. ~(Place(p) \in guest.next .. i - 1)
          BY <2>3, <4>2 DEF Comes
        <4> QED
          BY <3>1, <3>2, <4>1, <4>3, <1>n
      <3>3. \A p : InChan(p) => \E l \in 1 .. Len(chan.items) : chan'.items[l] = p
        BY <2>3 DEF InChan
      <3>4. ASSUME NEW p \in Path, Present(p), Place(p) < i
            PROVE  Extracted(p) \/ pipe.item = p \/ \E l \in 1 .. Len(chan.items) : chan'.items[l] = p
        BY <2>0, <3>2, <3>3, <3>4 DEF NoGap
      <3>5. ASSUME NEW p \in Path, Present(p), NEW k \in 1 .. Len(chan'.items),
                   Place(p) < Place(chan'.items[k])
            PROVE  \/ Extracted(p) \/ pipe.item = p
                   \/ \E l \in 1 .. k - 1 : chan'.items[l] = p
        <4>1. CASE k \in 1 .. Len(chan.items)
          <5>1. \A l \in 1 .. k - 1 : chan'.items[l] = chan.items[l]
            BY <2>3, <4>1, <1>n
          <5>2. chan'.items[k] = chan.items[k]
            BY <2>3, <4>1
          <5> QED
            BY <3>5, <4>1, <5>1, <5>2 DEF NoGap
        <4>2. CASE k = Len(chan.items) + 1
          <5>1. Place(p) < i /\ k - 1 = Len(chan.items)
            BY <2>3, <3>1, <3>5, <4>2, <1>n
          <5> QED
            BY <3>4, <3>5, <5>1
        <4> QED
          BY <2>3, <4>1, <4>2, <1>n
      <3>6. ASSUME NEW p \in Path, Present(p), Place(p) < i + 1
            PROVE  Extracted(p) \/ pipe.item = p \/ InChan(p)'
        <4>1. CASE Place(p) < i
          <5>1. (\E l \in 1 .. Len(chan.items) : chan'.items[l] = p) => InChan(p)'
            BY <2>3, <1>n DEF InChan
          <5> QED
            BY <3>4, <3>6, <4>1, <5>1
        <4>2. CASE Place(p) = i
          <5>1. p = ItemAt(i)
            BY <4>2, <1>n, PlaceFacts
          <5>2. Len(chan.items) + 1 \in 1 .. Len(chan'.items)
            BY <2>3, <1>n
          <5> QED
            BY <2>3, <5>1, <5>2 DEF InChan
        <4> QED
          BY <3>1, <3>6, <4>1, <4>2, <1>n
      <3>7. ASSUME NEW p \in Path, Present(p), pipe.item # None, Place(p) < Place(pipe.item)
            PROVE  Extracted(p)
        BY <3>7 DEF NoGap
      <3> QED
        BY <2>1, <2>3, <3>5, <3>6, <3>7 DEF NoGap, Present, Extracted, Skipped
    <2> QED
      BY <1>9, <2>2, <2>3, GuestCreateCases
  <1>10. CASE GuestFails
    <2>1. dest' = dest /\ pipe' = pipe /\ tree' = tree /\ main' = main
      BY <1>10 DEF GuestFails
    <2>2. CASE guest'.is = "err" /\ chan' = chan
      BY <1>10, <2>1, <2>2, GuestFailsCases, NoGapStays
    <2>3. CASE guest'.is = "lost" /\ Len(chan'.items) = 0
      BY <2>1, <2>3 DEF NoGap, Present, Extracted, Skipped
    <2> QED
      BY <1>10, <2>2, <2>3, GuestFailsCases
  <1>11. CASE UNCHANGED vars
    BY <1>11, NoGapStays DEF vars
  <1> QED
    BY FromActions, <1>1, <1>2, <1>3, <1>4, <1>5, <1>6, <1>7, <1>8, <1>9, <1>10, <1>11

\* What does not fit where everything before it is in place is refused by the host.
LEMMA UnfitIsRefused ==
  ASSUME TypeOK, Ctl, InOrder, NoGap, DirsInv, way = "from", pipe.item \in Path,
         ~Skipped(pipe.item), ~Fits(pipe.item)
  PROVE  HostRefuses
  <1> DEFINE p == pipe.item
  <1>0. p # None /\ Place(p) \in Nat /\ Place(p) \in 1 .. Len(Walk) /\ Walk[Place(p)] = p
    BY NoneApart, PlaceFacts DEF Item
  <1>1. Present(p) /\ tree[p] \in Kind
    <2>1. InArchive(Place(p)) /\ tree \in Tree
      BY <1>0, Typed DEF InOrder
    <2> QED
      BY <1>0, <2>1 DEF InArchive, Present, Tree
  <1>2. ~dest[p].new
    BY <1>0 DEF InOrder
  <1>3. CASE ~Open(p)
    <2>1. PICK q \in Path : Parent[p] = q /\ dest[q].kind # "dir"
      BY <1>3 DEF Open
    <2>2. tree[q] \in Dirs /\ Present(q) /\ Place(q) < Place(p)
      BY <2>1, <1>1, ParentFirst DEF Ctl
    <2>3. Extracted(q)
      BY <1>0, <2>2 DEF NoGap
    <2>4. dest[q].kind = "shut" /\ ~dest[q].new
      BY <2>1, <2>2, <2>3 DEF Extracted, DirsInv, Dirs
    <2>5. Kept(q)
      BY <2>4, NoneApart DEF Kept, Kind
    <2>6. InTheWay(q)
      BY <2>2, <2>4, <2>5 DEF InTheWay, Present, Skipped, Dirs
    <2> QED
      BY <2>1, <2>6 DEF HostRefuses
  <1>4. CASE Open(p)
    <2>1. CASE tree[p] \in Dirs
      <3>1. Kept(p) /\ dest[p].kind \notin Dirs
        BY <1>4, <2>1 DEF Fits
      <3>2. InTheWay(p)
        BY <1>1, <1>2, <2>1, <3>1 DEF InTheWay, Present, Skipped, Dirs
      <3> QED
        BY <3>2 DEF HostRefuses
    <2>2. CASE tree[p] \in Files \/ tree[p] = "link"
      <3>1. /\ Kept(p)
            /\ tree[p] \in Files => dest[p].kind \notin {"file", "link", "outlink"}
            /\ tree[p] = "link" => dest[p].kind \in Dirs
        BY <1>4, <2>2 DEF Fits, Replaceable
      <3>2. InTheWay(p)
        BY <1>1, <1>2, <2>2, <3>1 DEF InTheWay, Present, Skipped, Files
      <3> QED
        BY <3>2 DEF HostRefuses
    <2>3. CASE tree[p] = "outlink"
      BY <2>3 DEF HostRefuses
    <2> QED
      BY <1>1, <2>1, <2>2, <2>3 DEF Kind, Dirs, Files, Skipped
  <1> QED
    BY <1>3, <1>4

\* Nor is the mode of a directory restored in one that was shut before.
LEMMA UnopenIsRefused ==
  ASSUME TypeOK, DirsInv, way = "from", NEW p \in main.dirs, NextToRestore(p), ~Open(p)
  PROVE  HostRefuses
  <1>1. PICK q \in Path : Parent[p] = q /\ dest[q].kind # "dir"
    BY DEF Open
  <1>2. q \in main.dirs
    BY <1>1 DEF DirsInv
  <1>3. dest[q].kind = "shut" /\ ~dest[q].new
    BY <1>1, <1>2 DEF DirsInv, Dirs
  <1>4. tree[q] \in Dirs
    BY <1>2 DEF DirsInv
  <1>5. InTheWay(q)
    BY <1>3, <1>4, NoneApart DEF InTheWay, Kept, Kind, Skipped, Dirs
  <1> QED
    BY <1>1, <1>5 DEF HostRefuses

\* The directories being written into stay open.
LEMMA NextDirs ==
  ASSUME TypeOK, Ctl, InOrder, main.pc = "work" => NoGap, DirsInv,
         main.pc \in {"work", "restore"}, main'.pc \in {"work", "restore"},
         way = "from", [Next]_vars
  PROVE  DirsInv'
  <1> USE DEF fs
  <1>0. (dest' = dest /\ main'.dirs = main.dirs /\ tree' = tree) => DirsInv'
    BY DEF DirsInv
  <1>1. CASE Offered \/ CloseWithError \/ StartFrom \/ CopyStdout \/ GuestCreate \/ GuestFails
             \/ UNCHANGED vars
    <2>1. dest' = dest /\ main' = main /\ tree' = tree
      BY <1>1 DEF Offered, CloseWithError, StartFrom, CopyStdout, GuestCreate, GuestFails, vars
    <2> QED
      BY <2>1, <1>0
  <1>2. CASE Drain \/ Join
    BY <1>2 DEF Drain, Join
  <1>3. CASE ExtractEntry
    <2>1. tree' = tree /\ main.pc = "work"
      BY <1>3 DEF ExtractEntry
    <2>2. CASE dest' = dest /\ main'.dirs = main.dirs
      BY <2>1, <2>2, <1>0
    <2>3. CASE /\ pipe.item \in Path /\ Fits(pipe.item) /\ Put(pipe.item)
               /\ main'.dirs = IF tree[pipe.item] \in Dirs THEN main.dirs \cup {pipe.item}
                                                           ELSE main.dirs
      <3> DEFINE p == pipe.item
      <3>0. \A q \in Path : q # p => dest'[q] = dest[q]
        BY <2>3, PutStep
      <3>1. CASE tree[p] \notin Dirs
        <4>1. p \notin main.dirs /\ main.dirs \subseteq Path
          BY <3>1, Fields DEF DirsInv
        <4> QED
          BY <2>1, <2>3, <3>0, <3>1, <4>1 DEF DirsInv
      <3>2. CASE tree[p] \in Dirs
        <4>1. ~dest[p].new /\ p # None
          BY <2>3, PlaceFacts, NoneApart DEF InOrder, Item
        <4>2. dest'[p].kind \in Dirs /\ (dest'[p].new => dest'[p].kind = "dir")
          BY <2>3, <3>2, <4>1, PutStep DEF Fits, MadeDir, Dirs, Files
        <4>3. ASSUME Parent[p] \in Path PROVE Parent[p] \in main.dirs
          <5>1. InArchive(Place(p)) /\ Place(p) <= Len(Walk) /\ Walk[Place(p)] = p
            BY <2>3, <4>1, PlaceFacts DEF InOrder
          <5>2. Present(p)
            BY <5>1 DEF InArchive, Present
          <5>3. tree[Parent[p]] \in Dirs /\ Present(Parent[p]) /\ Place(Parent[p]) < Place(p)
            BY <2>3, <4>3, <5>2, ParentFirst DEF Ctl
          <5>4. Extracted(Parent[p])
            BY <2>1, <4>1, <4>3, <5>3 DEF NoGap
          <5> QED
            BY <5>3, <5>4 DEF Extracted
        <4>4. main'.dirs = main.dirs \cup {p} /\ main.dirs \subseteq Path
          BY <2>3, <3>2, Fields
        <4>5. \A q \in main.dirs : q # p => dest'[q] = dest[q]
          BY <3>0, <4>4
        <4> HIDE DEF p
        <4> QED
          BY <2>1, <3>2, <4>2, <4>3, <4>4, <4>5 DEF DirsInv
      <3> QED
        BY <3>1, <3>2
    <2> QED
      BY <1>3, <2>2, <2>3, ExtractCases
  <1>4. CASE RestoreDirModes
    <2>1. PICK p \in main.dirs :
            /\ NextToRestore(p)
            /\ \A q \in Path : q # p => dest'[q] = dest[q]
            /\ main'.dirs = main.dirs \ {p}
      BY <1>4, RestoreCases
    <2>2. tree' = tree /\ main.dirs \subseteq Path
      BY <1>4, Fields DEF RestoreDirModes
    <2> QED
      BY <2>1, <2>2 DEF DirsInv, NextToRestore
  <1> QED
    BY FromActions, <1>1, <1>2, <1>3, <1>4

\* The end mark finds all extracted, and the modes are restored one by one.
LEMMA NextRestoring ==
  ASSUME TypeOK, Ctl, FromInv, way = "from", [Next]_vars
  PROVE  /\ main'.pc = "restore" => Restoring'
         /\ main'.pc \in {"drain", "join", "done"} /\ main'.err = "ok" => Restoring' /\ main'.dirs = {}
  <1> USE DEF fs
  <1>0. (dest' = dest /\ main'.dirs = main.dirs /\ tree' = tree) => (Restoring => Restoring')
    BY DEF Restoring, Present, Skipped
  <1>1. CASE Offered \/ CloseWithError \/ StartFrom \/ CopyStdout \/ GuestCreate \/ GuestFails
             \/ UNCHANGED vars
    <2>1. dest' = dest /\ main' = main /\ tree' = tree
      BY <1>1 DEF Offered, CloseWithError, StartFrom, CopyStdout, GuestCreate, GuestFails, vars
    <2> QED
      BY <2>1, <1>0 DEF FromInv
  <1>2. CASE Drain
    BY <1>2, <1>0, DrainCases DEF FromInv, Drain
  <1>3. CASE Join
    BY <1>3, <1>0, JoinCases DEF FromInv, Join
  <1>4. CASE ExtractEntry
    <2>1. CASE pipe.item = "end" /\ dest' = dest /\ main'.dirs = main.dirs
      <3>1. main.pc = "work" /\ tree' = tree /\ pipe.item # None
        BY <1>4, <2>1, NoneApart DEF ExtractEntry, Item
      <3>2. ASSUME NEW p \in Path, Present(p) PROVE Extracted(p)
        <4>1. Place(p) < Place(pipe.item)
          BY <2>1, PlaceFacts
        <4> QED
          BY <3>1, <3>2, <4>1 DEF FromInv, NoGap
      <3>3. Restoring
        BY <3>2 DEF Restoring, Extracted
      <3> QED
        BY <1>4, <1>0, <2>1, <3>1, <3>3, ExtractCases DEF Ctl
    <2> QED
      BY <1>4, <2>1, ExtractCases
  <1>5. CASE RestoreDirModes
    <2>1. tree' = tree /\ main.dirs \subseteq Path /\ main.pc = "restore"
      BY <1>5, Fields DEF RestoreDirModes
    <2>2. ASSUME NEW p \in main.dirs, dest'[p].kind = tree[p],
                 \A q \in Path : q # p => dest'[q] = dest[q],
                 main'.dirs = main.dirs \ {p}, main'.pc = "restore"
          PROVE  Restoring'
      <3>1. Restoring /\ tree[p] \in Dirs
        BY <2>1 DEF FromInv, DirsInv
      <3> QED
        BY <2>1, <2>2, <3>1 DEF Restoring, Present, Skipped
    <2>3. CASE dest' = dest /\ main.dirs = {} /\ main'.dirs = main.dirs
      BY <2>1, <2>3, <1>0 DEF FromInv
    <2>4. CASE main'.pc = "drain" /\ main'.err = "err"
      BY <2>4
    <2> QED
      BY <1>5, <2>1, <2>2, <2>3, <2>4, RestoreCases
  <1> QED
    BY FromActions, <1>1, <1>2, <1>3, <1>4, <1>5

\* Every error of a copy from the guest has its cause.
LEMMA NextFromCtl ==
  ASSUME TypeOK, Ctl, FromInv, way = "from", [Next]_vars
  PROVE  FromCtl'
  <1> USE DEF fs
  <1>s. gor'.pc = "start" => guest'.is = "none"
    <2>1. ASSUME gor' = gor, guest' = guest PROVE gor'.pc = "start" => guest'.is = "none"
      BY <2>1 DEF FromInv, FromCtl
    <2>2. CASE Offered \/ CloseWithError
      BY <2>2, GorCases
    <2>3. CASE StartFrom
      BY <2>3, StartFromCases
    <2>4. CASE CopyStdout
      <3>1. gor'.pc \in {"offered", "close"}
        BY <2>4, Names, Fields, GorStep DEF CopyStdout
      <3> QED
        BY <3>1
    <2>5. CASE GuestCreate \/ GuestFails
      <3>1. gor' = gor /\ guest.is = "runs"
        BY <2>5, GuestCreateCases, GuestFailsCases DEF GuestCreate, GuestFails
      <3> QED
        BY <3>1 DEF FromInv, FromCtl
    <2>6. CASE ExtractEntry \/ RestoreDirModes \/ Drain \/ Join \/ UNCHANGED vars
      <3>1. gor' = gor /\ guest' = guest
        BY <2>6 DEF ExtractEntry, RestoreDirModes, Drain, Join, vars
      <3> QED
        BY <3>1, <2>1
    <2> QED
      BY FromActions, <2>2, <2>3, <2>4, <2>5, <2>6
  <1>0. /\ main.err \in {"ok", "err"} /\ gor.err \in {"ok", "err"}
        /\ main.err = "err" => main.pc \in {"drain", "join", "done"}
        /\ main.err = "err" => HostRefuses \/ gor.err = "err"
        /\ gor.err = "err" => hit \cap {"session", "guest", "lost"} # {}
    BY Fields DEF Ctl, FromInv, FromCtl
  \* A refusal stays one where nothing is written any more.
  <1>r. (HostRefuses /\ way' = way /\ hit \subseteq hit' /\ tree' = tree /\ dest' = dest) => HostRefuses'
    <2> SUFFICES ASSUME way' = way, hit \subseteq hit', tree' = tree, dest' = dest, HostRefuses
                 PROVE  HostRefuses'
      OBVIOUS
    <2>1. CASE "host" \in hit
      BY <2>1 DEF HostRefuses
    <2>2. ASSUME NEW p \in Path, tree[p] = "outlink" \/ InTheWay(p) PROVE HostRefuses'
      BY <2>2 DEF HostRefuses, InTheWay, Kept, Skipped
    <2> QED
      BY <2>1, <2>2 DEF HostRefuses
  <1>h. hit \subseteq hit' => (hit \cap {"session", "guest", "lost"} # {}
                               => hit' \cap {"session", "guest", "lost"} # {})
    OBVIOUS
  <1>1. CASE Offered \/ CloseWithError
    <2>1. way' = way /\ hit' = hit /\ tree' = tree /\ dest' = dest /\ main' = main
          /\ gor'.err = gor.err
      BY <1>1, GorCases DEF Offered, CloseWithError
    <2> QED
      BY <2>1, <1>0, <1>r, <1>s DEF FromCtl
  <1>2. CASE StartFrom
    <2>1. way' = way /\ tree' = tree /\ dest' = dest /\ main' = main /\ hit \subseteq hit'
          /\ gor.err = "ok" /\ (gor'.err = "err" => "session" \in hit')
      BY <1>2, <1>0, StartFromCases DEF StartFrom, Ctl
    <2> QED
      BY <2>1, <1>0, <1>r, <1>h, <1>s DEF FromCtl
  <1>3. CASE CopyStdout
    <2>1. way' = way /\ tree' = tree /\ dest' = dest /\ main' = main /\ hit' = hit
          /\ gor.err = "ok"
      BY <1>3, <1>0, CopyStdoutCases DEF CopyStdout, Ctl
    <2>2. gor'.err = "err" => hit \cap {"session", "guest", "lost"} # {}
      BY <1>3, <2>1, CopyStdoutCases DEF Ctl
    <2> QED
      BY <2>1, <2>2, <1>0, <1>r, <1>s DEF FromCtl
  <1>4. CASE ExtractEntry
    <2>1. way' = way /\ tree' = tree /\ gor' = gor /\ hit \subseteq hit' /\ main.pc = "work"
          /\ main.err = "ok"
      BY <1>4, <1>0, ExtractCases DEF ExtractEntry
    <2>2. main'.err = "err" => HostRefuses' \/ gor.err = "err"
      <3>1. CASE main'.err = "err" /\ dest' = dest
        <4>1. CASE pipe.item \in Path /\ ~Skipped(pipe.item) /\ ~Fits(pipe.item)
          BY <2>1, <3>1, <4>1, <1>r, UnfitIsRefused DEF FromInv
        <4>2. CASE "host" \in hit'
          BY <4>2 DEF HostRefuses
        <4>3. CASE pipe.closed = "err"
          BY <4>3 DEF Ctl
        <4>4. \/ pipe.item \in Path /\ ~Skipped(pipe.item) /\ ~Fits(pipe.item)
              \/ "host" \in hit' \/ pipe.closed = "err"
          BY <1>4, <2>1, <3>1, ExtractCases
        <4> QED
          BY <4>1, <4>2, <4>3, <4>4
      <3> QED
        BY <1>4, <2>1, <3>1, ExtractCases
    <2> QED
      BY <2>1, <2>2, <1>0, <1>h, <1>s DEF FromCtl
  <1>5. CASE RestoreDirModes
    <2>1. way' = way /\ tree' = tree /\ gor' = gor /\ hit \subseteq hit' /\ main.pc = "restore"
          /\ main.err = "ok"
      BY <1>5, <1>0, RestoreCases DEF RestoreDirModes
    <2>2. main'.err = "err" => HostRefuses'
      <3>1. CASE main'.err = "err" /\ dest' = dest
        <4>1. CASE \E p \in main.dirs : NextToRestore(p) /\ ~Open(p)
          BY <2>1, <3>1, <4>1, <1>r, UnopenIsRefused DEF FromInv
        <4>2. CASE "host" \in hit'
          BY <4>2 DEF HostRefuses
        <4> QED
          BY <1>5, <2>1, <3>1, <4>1, <4>2, RestoreCases
      <3> QED
        BY <1>5, <2>1, <3>1, RestoreCases
    <2> QED
      BY <2>1, <2>2, <1>0, <1>h, <1>s DEF FromCtl
  <1>6. CASE Drain
    <2>1. way' = way /\ hit' = hit /\ tree' = tree /\ dest' = dest /\ main'.err = main.err
          /\ gor' = gor
      BY <1>6, DrainCases DEF Drain
    <2> QED
      BY <2>1, <1>0, <1>r, <1>s DEF FromCtl
  <1>7. CASE Join
    <2>1. way' = way /\ hit' = hit /\ tree' = tree /\ dest' = dest /\ main'.err = main.err
          /\ gor' = gor
      BY <1>7, JoinCases DEF Join
    <2> QED
      BY <2>1, <1>0, <1>r, <1>s DEF FromCtl
  <1>8. CASE GuestCreate \/ UNCHANGED vars
    <2>1. way' = way /\ hit' = hit /\ tree' = tree /\ dest' = dest /\ main' = main /\ gor' = gor
      BY <1>8 DEF GuestCreate, vars
    <2> QED
      BY <2>1, <1>0, <1>r, <1>s DEF FromCtl
  <1>9. CASE GuestFails
    <2>1. way' = way /\ hit \subseteq hit' /\ tree' = tree /\ dest' = dest /\ main' = main
          /\ gor' = gor
      BY <1>9, GuestFailsCases DEF GuestFails
    <2> QED
      BY <2>1, <1>0, <1>r, <1>h, <1>s DEF FromCtl
  <1> QED
    BY FromActions, <1>1, <1>2, <1>3, <1>4, <1>5, <1>6, <1>7, <1>8, <1>9

\* What is skipped is never written.
LEMMA NextUntouched ==
  ASSUME TypeOK, Ctl, Untouched, way = "from", [Next]_vars
  PROVE  Untouched'
  <1> USE DEF fs
  <1>1. CASE Offered \/ CloseWithError \/ StartFrom \/ CopyStdout \/ GuestCreate \/ GuestFails
             \/ Drain \/ Join \/ UNCHANGED vars
    <2>1. dest' = dest /\ tree' = tree
      BY <1>1 DEF Offered, CloseWithError, StartFrom, CopyStdout, GuestCreate, GuestFails, Drain,
         Join, vars
    <2> QED
      BY <2>1 DEF Untouched, Skipped
  <1>2. CASE ExtractEntry
    <2>1. tree' = tree
      BY <1>2 DEF ExtractEntry
    <2>2. CASE dest' = dest
      BY <2>1, <2>2 DEF Untouched, Skipped
    <2>3. CASE pipe.item \in Path /\ Fits(pipe.item) /\ Put(pipe.item)
      <3>1. ~Skipped(pipe.item)
        BY <2>3 DEF Fits, Skipped, Dirs, Files
      <3>2. \A q \in Path : q # pipe.item => dest'[q] = dest[q]
        BY <2>3, PutStep
      <3> QED
        BY <2>1, <3>1, <3>2 DEF Untouched, Skipped
    <2> QED
      BY <1>2, <2>2, <2>3, ExtractCases
  <1>3. CASE RestoreDirModes
    <2>1. tree' = tree
      BY <1>3 DEF RestoreDirModes
    <2>2. \A q \in Path : dest'[q].new <=> dest[q].new
      BY <1>3, RestoreCases
    <2> QED
      BY <2>1, <2>2 DEF Untouched, Skipped
  <1> QED
    BY FromActions, <1>1, <1>2, <1>3

\* Every step keeps the invariant of a copy from the guest.
LEMMA NextFromInv ==
  ASSUME TypeOK, Ctl, FromInv, way = "from", [Next]_vars
  PROVE  FromInv'
  <1>1. InOrder' /\ Untouched' /\ FromCtl'
    BY NextInOrder, NextUntouched, NextFromCtl DEF FromInv
  <1>2. /\ main'.pc = "restore" => Restoring'
        /\ main'.pc \in {"drain", "join", "done"} /\ main'.err = "ok" => Restoring' /\ main'.dirs = {}
    BY NextRestoring
  \* Work and restoring are never taken up again.
  <1>3. /\ main'.pc = "work" => main.pc = "work"
        /\ main'.pc = "restore" => main.pc \in {"work", "restore"}
    <2>1. CASE ExtractEntry \/ RestoreDirModes \/ Drain \/ Join
      BY <2>1, ExtractCases, RestoreCases, DrainCases, JoinCases
    <2>2. CASE Offered \/ CloseWithError \/ StartFrom \/ CopyStdout \/ GuestCreate \/ GuestFails
               \/ UNCHANGED vars
      <3>1. main' = main
        BY <2>2 DEF Offered, CloseWithError, StartFrom, CopyStdout, GuestCreate, GuestFails, vars
      <3> QED
        BY <3>1
    <2> QED
      BY <2>1, <2>2, FromActions
  <1>4. main'.pc = "work" => NoGap'
    BY <1>3, NextNoGap DEF FromInv
  <1>5. main'.pc \in {"work", "restore"} => DirsInv'
    BY <1>3, NextDirs DEF FromInv
  <1> QED
    BY <1>1, <1>2, <1>4, <1>5 DEF FromInv

-----------------------------------------------------------------------------
(* Theorems                                                                *)

\* The invariant holds at first.
LEMMA InitInv == Init => Inv
  BY InitTyped, InitCtl, InitToInv, InitFromInv DEF Inv

\* Every step keeps it.
LEMMA NextInv == Inv /\ [Next]_vars => Inv'
  <1> SUFFICES ASSUME Inv, [Next]_vars PROVE Inv'
    OBVIOUS
  <1>1. TypeOK' /\ Ctl'
    BY NextTyped, NextCtl DEF Inv
  <1>2. way' = way
    BY Cases DEF Offered, CloseWithError, BuildTar, StartFrom, CopyStdout, StartTo, CopyStdin,
       WaitTo, ExtractEntry, RestoreDirModes, Drain, Join, GuestExtract, GuestCreate,
       GuestFails, vars, fs
  <1>3. way = "to" => ToInv'
    BY NextToInv DEF Inv
  <1>4. way = "from" => FromInv'
    BY NextFromInv DEF Inv
  <1> QED
    BY <1>1, <1>2, <1>3, <1>4 DEF Inv

\* It implies that no error means a whole copy.
LEMMA InvCopied == Inv => OkMeansCopied
  <1> SUFFICES ASSUME Inv, result = "ok" PROVE OkMeansCopied
    BY DEF OkMeansCopied
  <1>1. main.pc = "done" /\ Verdict = "ok" /\ gor.pc = "done" /\ way \in {"to", "from"}
        /\ gor.err \in {"ok", "err"} /\ main.err \in {"ok", "err"}
    BY Fields DEF Inv, Ctl
  <1>2. gor.err = "ok" /\ main.err = "ok"
    BY <1>1 DEF Verdict
  <1>3. CASE way = "to"
    <2>1. Complete
      BY <1>1, <1>2, <1>3 DEF Inv, ToInv, ToCtl, Whole
    <2> QED
      BY <1>3, <2>1 DEF Complete, Present, OkMeansCopied
  <1>4. CASE way = "from"
    <2>1. Restoring /\ main.dirs = {} /\ Untouched
      BY <1>1, <1>2, <1>4 DEF Inv, FromInv
    <2>2. ASSUME NEW p \in Path, tree[p] # None
          PROVE  IF Skipped(p) THEN ~dest[p].new
                 ELSE dest[p].kind = tree[p] /\ (dest[p].new \/ tree[p] \in Dirs)
      BY <2>1, <2>2 DEF Restoring, Untouched, Present
    <2> QED
      BY <1>4, <2>2 DEF OkMeansCopied
  <1> QED
    BY <1>1, <1>3, <1>4

\* It implies that an error is the cause.
LEMMA InvBlame == Inv => Blame
  <1> SUFFICES ASSUME Inv, result # "none" PROVE Blame
    BY DEF Blame
  <1>1. result = Verdict /\ way \in {"to", "from"}
        /\ gor.err \in {"ok", "err"} /\ main.err \in {"ok", "err"}
    BY Fields DEF Inv, Ctl
  <1>3. CASE way = "to"
    BY <1>1, <1>3 DEF Inv, ToInv, ToCtl, Verdict, Blame
  <1>4. CASE way = "from"
    BY <1>1, <1>4 DEF Inv, FromInv, FromCtl, Verdict, Blame
  <1> QED
    BY <1>1, <1>3, <1>4

\* It holds of every behaviour.
LEMMA SpecInv == Spec => []Inv
  BY InitInv, NextInv, PTL DEF Spec

\* The types: what stands for a pipe, a channel and a destination is one, and the
\* channel never holds more than its window.
THEOREM TypeCorrect == Spec => []TypeOK
  <1>1. Inv => TypeOK
    BY DEF Inv
  <1> QED
    BY <1>1, SpecInv, PTL

\* CopyTo and CopyFrom return no error only for a tree that was copied whole, but
\* for the entries CopyFrom skips, whatever fails at the host, in the guest and
\* between the two.
THEOREM CopiedCorrect == Spec => []OkMeansCopied
  BY SpecInv, InvCopied, PTL

\* The error that CopyTo and CopyFrom return is the cause, on the side it is
\* blamed on, and not the symptom of another.
THEOREM BlameCorrect == Spec => []Blame
  BY SpecInv, InvBlame, PTL
=============================================================================
