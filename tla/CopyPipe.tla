------------------------------ MODULE CopyPipe ------------------------------
(***************************************************************************)
(* A copy to or from a guest (sshkey/copy.go): a goroutine and the caller   *)
(* over an io.Pipe, and the guest's tar behind an SSH channel.             *)
(*                                                                         *)
(* The pipe is synchronous: a write is over when the item was taken or the *)
(* reading end is closed.  The channel holds Window items.  An item is an  *)
(* entry of the archive or its end mark.  A file system is a function from *)
(* paths to what stands there; modes bind the user who extracts.           *)
(***************************************************************************)
EXTENDS Naturals, Sequences, FiniteSets

CONSTANTS
    Walk,      \* the paths of a tree in the order of filepath.WalkDir
    Parent,    \* path -> the directory it is in, None for the top
    Trees,     \* the trees to copy
    Earlier,   \* the trees that may stand at the destination before
    Window,    \* items in flight in the SSH channel
    Faults,    \* what may go wrong, see below
    None

\* Faults a run may allow:
\*   session   the SSH session or the command does not start
\*   host      reading the source or writing the destination fails on the host
\*   guest     the guest's tar exits with an error
\*   lost      the connection breaks
Fault == {"session", "host", "guest", "lost"}

Path == {Walk[i] : i \in 1 .. Len(Walk)}
\* A shut directory denies its owner writing and searching, a rofile writing; an
\* outlink is a link out of the tree.  The rest are fifos and devices, and in a
\* guest's archive the second name of a file: entries the extractor has no case for.
Kind == {"dir", "shut", "file", "rofile", "link", "outlink", "other"}
Dirs == {"dir", "shut"}
Files == {"file", "rofile"}
Tree == [Path -> Kind \cup {None}]

\* A walk meets every path once, and what has a child is a directory.
ASSUME CopyAssumption ==
    /\ Walk \in Seq(Path)
    /\ \A i, j \in 1 .. Len(Walk) : Walk[i] = Walk[j] => i = j
    /\ DOMAIN Parent = Path
    /\ \A i \in 1 .. Len(Walk) : Parent[Walk[i]] \in {None} \cup {Walk[j] : j \in 1 .. i - 1}
    /\ {None, "end"} \cap Path = {} /\ None \notin Kind \cup {"end"}
    /\ Trees \subseteq Tree /\ Earlier \subseteq {t \in Tree : \A p \in Path : t[p] # "other"}
    /\ \A t \in Trees, p \in Path :
         t[p] # None => Parent[p] = None \/ t[Parent[p]] \in Dirs
    /\ Window \in Nat \ {0}
    /\ Faults \subseteq Fault

VARIABLES
    way,     \* "to" or "from" the guest
    tree,    \* the source
    dest,    \* the destination on the host (of a copy from the guest)
    got,     \* what the guest extracted (of a copy to it)
    pipe,    \* the io.Pipe
    chan,    \* the SSH channel
    guest,   \* the guest's tar
    gor,     \* the goroutine: buildTar, or the transport
    main,    \* the caller: the transport, or extractTar
    result,  \* what the copy returned
    hit      \* history: the faults that happened

vars == <<way, tree, dest, got, pipe, chan, guest, gor, main, result, hit>>
fs   == <<way, tree, dest, got>>

Item == Path \cup {"end"}
Error == {"ok", "err"}
GuestState == {"none", "runs", "ok", "err", "lost"}

TypeOK ==
    /\ way \in {"to", "from"} /\ tree \in Tree
    /\ dest \in [Path -> [kind : Kind \cup {None}, new : BOOLEAN]] /\ got \subseteq Item
    /\ pipe \in [item : Item \cup {None}, closed : {"open", "ok", "err"}]
    /\ chan \in [items : Seq(Item), eof : BOOLEAN] /\ Len(chan.items) <= Window
    /\ guest \in [is : GuestState, next : 1 .. Len(Walk) + 2]
    /\ gor \in [pc : {"start", "work", "offered", "wait", "close", "done"},
                next : 1 .. Len(Walk) + 2, err : Error]
    /\ main \in [pc : {"start", "work", "send", "restore", "wait", "drain", "join", "done"},
                 item : Item \cup {None}, dirs : SUBSET Path, err : Error]
    /\ result \in {"none", "ok", "build", "transport", "extract"}
    /\ hit \subseteq Fault

-----------------------------------------------------------------------------

Allowed(f) == f \in Faults

\* The archive holds the paths of the walk that the tree has, then its end mark.
Places == 1 .. Len(Walk) + 1
ItemAt(i) == IF i <= Len(Walk) THEN Walk[i] ELSE "end"
InArchive(i) == i <= Len(Walk) => tree[Walk[i]] # None
\* Of a producer that has written what is before next: i is the place it is at.
Comes(next, i) == i >= next /\ InArchive(i) /\ \A j \in next .. i - 1 : ~InArchive(j)
Written(next) == next > Len(Walk) + 1
Over == guest.is \in {"ok", "err", "lost"}

Init ==
    /\ way \in {"to", "from"} /\ tree \in Trees
    /\ \E e \in Earlier : dest = [p \in Path |-> [kind |-> e[p], new |-> FALSE]]
    /\ way = "to" => \A p \in Path : dest[p].kind = None
    /\ got = {}
    /\ pipe = [item |-> None, closed |-> "open"]
    /\ chan = [items |-> <<>>, eof |-> FALSE]
    /\ guest = [is |-> "none", next |-> 1]
    /\ gor = [pc |-> IF way = "to" THEN "work" ELSE "start", next |-> 1, err |-> "ok"]
    /\ main = [pc |-> IF way = "to" THEN "start" ELSE "work", item |-> None, dirs |-> {},
               err |-> "ok"]
    /\ result = "none" /\ hit = {}

Happens(f) == Allowed(f) /\ hit' = hit \cup {f}

-----------------------------------------------------------------------------
(* The goroutine's end of the pipe: a write, and CloseWithError            *)

GorGoto(pc, err) == gor' = [gor EXCEPT !.pc = pc, !.err = err]

Offer(item) == pipe' = [pipe EXCEPT !.item = item]

\* The write returns when its item was taken.
Offered ==
    /\ gor.pc = "offered" /\ pipe.item = None
    /\ GorGoto("work", gor.err)
    /\ UNCHANGED <<fs, pipe, chan, guest, main, result, hit>>

CloseWithError ==
    /\ gor.pc = "close"
    /\ pipe' = [pipe EXCEPT !.closed = gor.err]
    /\ GorGoto("done", gor.err)
    /\ UNCHANGED <<fs, chan, guest, main, result, hit>>

-----------------------------------------------------------------------------
(* The caller's end: reads, the drain and the join                         *)

MainGoto(pc) == main' = [main EXCEPT !.pc = pc]

\* Mutant: the pipe is not drained.
DrainNot ==
    /\ main.pc = "drain"
    /\ MainGoto("join")
    /\ UNCHANGED <<fs, pipe, chan, guest, gor, result, hit>>

\* What the guest or the extractor left unread, so that the goroutine ends.
Drain ==
    /\ main.pc = "drain"
    /\ \/ pipe.item # None /\ Offer(None) /\ UNCHANGED main
       \/ pipe.item = None /\ pipe.closed # "open" /\ MainGoto("join") /\ UNCHANGED pipe
    /\ UNCHANGED <<fs, chan, guest, gor, result, hit>>

\* Mutant: the producer's error is dropped.
VerdictOther ==
    IF main.err = "err" THEN IF way = "to" THEN "transport" ELSE "extract" ELSE "ok"

\* The producer's error first: the other one may be its symptom.
Verdict ==
    IF gor.err = "err" THEN IF way = "to" THEN "build" ELSE "transport"
    ELSE IF main.err = "err" THEN IF way = "to" THEN "transport" ELSE "extract" ELSE "ok"

Join ==
    /\ main.pc = "join" /\ gor.pc = "done"
    /\ result' = Verdict
    /\ MainGoto("done")
    /\ UNCHANGED <<fs, pipe, chan, guest, gor, hit>>

-----------------------------------------------------------------------------
(* To the guest: buildTar, toGuest and `tar -x'                            *)

\* An entry needs its directory to be searched.
Readable(item) == \A q \in Path : (item \in Path /\ Parent[item] = q) => tree[q] # "shut"

BuildTar ==
    /\ way = "to" /\ gor.pc = "work"
    /\ \/ \E i \in Places :
            /\ Comes(gor.next, i) /\ Readable(ItemAt(i))
            /\ Offer(ItemAt(i))
            /\ gor' = [gor EXCEPT !.pc = "offered", !.next = i + 1]
            /\ UNCHANGED hit
       \/ Written(gor.next) /\ GorGoto("close", "ok") /\ UNCHANGED <<pipe, hit>>
       \/ /\ \E i \in Places : Comes(gor.next, i) /\ ~Readable(ItemAt(i))
          /\ GorGoto("close", "err") /\ UNCHANGED <<pipe, hit>>
       \/ ~Written(gor.next) /\ Happens("host") /\ GorGoto("close", "err") /\ UNCHANGED pipe
    /\ UNCHANGED <<fs, chan, guest, main, result>>

\* NewSession, StdinPipe and Start, of either direction.
StartsOrNot(started, failed) ==
    \/ started /\ guest' = [guest EXCEPT !.is = "runs"] /\ UNCHANGED hit
    \/ Happens("session") /\ failed /\ UNCHANGED guest

StartTo ==
    /\ main.pc = "start"
    /\ StartsOrNot(MainGoto("work"), main' = [main EXCEPT !.pc = "drain", !.err = "err"])
    /\ UNCHANGED <<fs, pipe, chan, gor, result>>

\* io.Copy(stdin, r): what it reads it sends, until either end is closed; then
\* stdin is closed.  The read error of a failed producer is dropped.
CopyStdin ==
    /\ way = "to"
    /\ \/ /\ main.pc = "work" /\ pipe.item # None
          /\ main' = [main EXCEPT !.pc = "send", !.item = pipe.item]
          /\ Offer(None) /\ UNCHANGED chan
       \/ /\ main.pc = "send" /\ ~Over /\ Len(chan.items) < Window
          /\ chan' = [chan EXCEPT !.items = Append(@, main.item)]
          /\ main' = [main EXCEPT !.pc = "work", !.item = None] /\ UNCHANGED pipe
       \/ /\ \/ main.pc = "work" /\ pipe.item = None /\ pipe.closed # "open"
             \/ main.pc = "send" /\ Over
          /\ chan' = [chan EXCEPT !.eof = TRUE]
          /\ main' = [main EXCEPT !.pc = "wait", !.item = None] /\ UNCHANGED pipe
    /\ UNCHANGED <<fs, guest, gor, result, hit>>

WaitTo ==
    /\ way = "to" /\ main.pc = "wait" /\ Over
    /\ main' = [main EXCEPT !.pc = "drain", !.err = IF guest.is = "ok" THEN "ok" ELSE "err"]
    /\ UNCHANGED <<fs, pipe, chan, guest, gor, result, hit>>

\* tar -x takes a stream that ends between two entries for a whole archive.
GuestExtract ==
    /\ way = "to" /\ guest.is = "runs"
    /\ \/ /\ chan.items # <<>>
          /\ chan' = [chan EXCEPT !.items = Tail(@)]
          /\ got' = got \cup {Head(chan.items)}
          /\ IF Head(chan.items) = "end" THEN guest' = [guest EXCEPT !.is = "ok"]
                                         ELSE UNCHANGED guest
       \/ /\ chan.items = <<>> /\ chan.eof
          /\ guest' = [guest EXCEPT !.is = "ok"] /\ UNCHANGED <<chan, got>>
    /\ UNCHANGED <<way, tree, dest, pipe, gor, main, result, hit>>

-----------------------------------------------------------------------------
(* From the guest: `tar -c', fromGuest and extractTar                      *)

GuestCreate ==
    /\ way = "from" /\ guest.is = "runs"
    /\ \/ \E i \in Places :
            /\ Comes(guest.next, i) /\ Len(chan.items) < Window
            /\ chan' = [chan EXCEPT !.items = Append(@, ItemAt(i))]
            /\ guest' = [guest EXCEPT !.next = i + 1]
       \/ Written(guest.next) /\ guest' = [guest EXCEPT !.is = "ok"] /\ UNCHANGED chan
    /\ UNCHANGED <<fs, pipe, gor, main, result, hit>>

StartFrom ==
    /\ gor.pc = "start"
    /\ StartsOrNot(GorGoto("work", "ok"), GorGoto("close", "err"))
    /\ UNCHANGED <<fs, pipe, chan, main, result>>

\* io.Copy(w, stdout) and Wait.  Its reader drains the pipe before closing it, so
\* no write to it fails and the drain of stdout in fromGuest has nothing to do.
CopyStdout ==
    /\ way = "from" /\ gor.pc = "work"
    /\ \/ /\ chan.items # <<>>
          /\ Offer(Head(chan.items)) /\ chan' = [chan EXCEPT !.items = Tail(@)]
          /\ GorGoto("offered", gor.err)
       \/ /\ chan.items = <<>> /\ Over
          /\ GorGoto("close", IF guest.is = "ok" THEN "ok" ELSE "err")
          /\ UNCHANGED <<pipe, chan>>
    /\ UNCHANGED <<fs, guest, main, result, hit>>

Kept(p) == dest[p].kind # None
\* A name can be made or removed in its directory.
Open(p) == \A q \in Path : Parent[p] = q => dest[q].kind = "dir"
Empty(p) == \A q \in Path : Parent[q] = p => ~Kept(q)
\* writeSymlink removes what is there, if it can be removed.
Replaceable(p) == Kept(p) => dest[p].kind \notin Dirs \/ Empty(p)

\* The switch of extractTar has no case for it: it is skipped, and that is no error.
Skipped(p) == tree[p] = "other"

\* What an entry can be written over.  (No link leads to a directory.)
Fits(p) ==
    /\ Open(p)
    /\ \/ tree[p] \in Dirs /\ (Kept(p) => dest[p].kind \in Dirs)
       \/ tree[p] \in Files /\ (Kept(p) => dest[p].kind \in {"file", "link", "outlink"})
       \/ tree[p] = "link" /\ Replaceable(p)

\* A directory is made writable, one that is there keeps its mode.
MadeDir(p) == IF Kept(p) THEN dest[p].kind ELSE "dir"

Put(p) ==
    dest' = [dest EXCEPT ![p] =
        IF tree[p] \in Dirs THEN [kind |-> MadeDir(p), new |-> @.new \/ ~Kept(p)]
                            ELSE [kind |-> tree[p], new |-> TRUE]]

StopExtract == main' = [main EXCEPT !.pc = "drain", !.err = "err"]

\* The loop of extractTar over what comes out of the pipe.
ExtractEntry ==
    /\ way = "from" /\ main.pc = "work"
    /\ \/ /\ pipe.item \in Path /\ Skipped(pipe.item)
          /\ Offer(None) /\ UNCHANGED <<dest, main, hit>>
       \/ /\ pipe.item \in Path /\ Fits(pipe.item)
          /\ Put(pipe.item) /\ Offer(None)
          /\ main' = [main EXCEPT !.dirs =
                    IF tree[pipe.item] \in Dirs THEN @ \cup {pipe.item} ELSE @]
          /\ UNCHANGED hit
       \/ /\ pipe.item \in Path /\ ~Skipped(pipe.item) /\ ~Fits(pipe.item)
          /\ StopExtract /\ Offer(None) /\ UNCHANGED <<dest, hit>>
       \/ pipe.item \in Path /\ Happens("host") /\ StopExtract /\ Offer(None) /\ UNCHANGED dest
       \/ pipe.item = "end" /\ MainGoto("restore") /\ Offer(None) /\ UNCHANGED <<dest, hit>>
       \/ /\ pipe.item = None /\ pipe.closed = "err"
          /\ StopExtract /\ UNCHANGED <<dest, pipe, hit>>
    /\ UNCHANGED <<way, tree, got, chan, guest, gor, result>>

\* Mutant: parents first.
FirstToRestore(p) == p \in main.dirs /\ \A q \in main.dirs : q = p \/ Parent[p] # q
\* Reverse order of names: children first.
NextToRestore(p) == p \in main.dirs /\ \A q \in main.dirs : q = p \/ Parent[q] # p

RestoreDirModes ==
    /\ main.pc = "restore"
    /\ \/ \E p \in Path :
            /\ NextToRestore(p)
            /\ \/ /\ Open(p)
                  /\ dest' = [dest EXCEPT ![p].kind = tree[p]]
                  /\ main' = [main EXCEPT !.dirs = @ \ {p}]
                  /\ UNCHANGED hit
               \/ /\ Open(p) => Allowed("host")
                  /\ hit' = IF Open(p) THEN hit \cup {"host"} ELSE hit
                  /\ StopExtract /\ UNCHANGED dest
       \/ main.dirs = {} /\ MainGoto("drain") /\ UNCHANGED <<dest, hit>>
    /\ UNCHANGED <<way, tree, got, pipe, chan, guest, gor, result>>

-----------------------------------------------------------------------------
(* Environment: the guest's tar fails, or the connection breaks, and what  *)
(* was in flight is lost                                                   *)

GuestFails ==
    /\ guest.is = "runs"
    /\ \/ Happens("guest") /\ guest' = [guest EXCEPT !.is = "err"] /\ UNCHANGED chan
       \/ Happens("lost") /\ guest' = [guest EXCEPT !.is = "lost"]
          /\ chan' = [chan EXCEPT !.items = <<>>]
    /\ UNCHANGED <<fs, pipe, gor, main, result>>

Returned == main.pc = "done" /\ UNCHANGED vars

Goroutine == Offered \/ CloseWithError \/ BuildTar \/ StartFrom \/ CopyStdout
Caller    == StartTo \/ CopyStdin \/ WaitTo \/ ExtractEntry \/ RestoreDirModes \/ Drain \/ Join
Guest     == GuestExtract \/ GuestCreate

Next == Goroutine \/ Caller \/ Guest \/ GuestFails \/ Returned

Spec == Init /\ [][Next]_vars

\* The Go scheduler runs both goroutines; the guest's tar is external and taken
\* to make progress while it runs (a copy has no timeout of its own).
FairSpec == Spec /\ WF_vars(Goroutine) /\ WF_vars(Caller) /\ WF_vars(Guest)

-----------------------------------------------------------------------------
(* Properties                                                              *)

\* A copy that returns no error has copied the tree: every entry, with its mode,
\* although tar and the extractor take a cut stream for a short archive.  What is
\* missing from a copy from the guest is what the extractor skips, and only that:
\* what stood there before stands there still.
OkMeansCopied ==
    result = "ok" =>
        \/ way = "to" /\ \A p \in Path : tree[p] # None => p \in got
        \/ way = "from" /\ \A p \in Path : tree[p] # None =>
             IF Skipped(p) THEN ~dest[p].new
             ELSE dest[p].kind = tree[p] /\ (dest[p].new \/ tree[p] \in Dirs)

\* What stood at the destination is of another kind than the entry that comes, or
\* cannot be written.
InTheWay(p) ==
    /\ Kept(p) /\ ~dest[p].new /\ tree[p] # None /\ ~Skipped(p)
    /\ \/ tree[p] \in Dirs /\ dest[p].kind # "dir"
       \/ tree[p] \in Files /\ dest[p].kind \notin {"file", "link", "outlink"}
       \/ tree[p] = "link" /\ dest[p].kind \in Dirs

\* A directory that cannot be read, or written; a link that leads out of the
\* tree; something at the destination that is in the way.
HostRefuses ==
    \/ "host" \in hit
    \/ way = "to" /\ \E p \in Path : tree[p] # None /\ ~Readable(p)
    \/ way = "from" /\ \E p \in Path : tree[p] = "outlink" \/ InTheWay(p)

\* The error a copy returns is the cause and not its symptom: one of the host's
\* side is never reported for a fault of the guest's, nor the other way round, and
\* a whole tree extracts, whatever the modes in it, unless something of its own
\* place at the destination is in the way.
Blame ==
    /\ result \in {"build", "extract"} => HostRefuses
    /\ result = "transport" => hit \cap {"session", "guest", "lost"} # {}

\* A copy returns, wherever the host, the guest or the connection fails: nobody
\* is left writing to a pipe or channel that is not read.
CopyEnds == <>(result # "none")

=============================================================================
