--------------------------- MODULE ClientUpProofs ---------------------------
(***************************************************************************)
(* Proofs about ClientUp, for all names, clients, clusters and faults.     *)
(*                                                                         *)
(* The invariant Inv has two sides.  Of each client, Good says what its    *)
(* locals are worth where they are used: their shape, what it has made of  *)
(* the member it is at, that what it found missing is missing still, that  *)
(* its own helper serves nobody else before its first member is up, and    *)
(* that what it has running there is marked for the rollback.  Of the      *)
(* store and the helpers, Registration says that the paths of a member     *)
(* lead to the helper that has it, Turn that the clients of a name take    *)
(* turns.  All of it is about names that have not lapsed.                  *)
(*                                                                         *)
(* DiskInv asks for no turns.  A disk bears the name of the client that    *)
(* copied it, and no client copies two to one name, so a disk an up found  *)
(* and that is gone does not come back; and an up destroys only a member   *)
(* that it saw without a config.json, after its disk, if any, had gone.    *)
(*                                                                         *)
(* The effects of the actions on locals come first (Becomes, Ends), then   *)
(* frame lemmas, then one lemma per action for each of the two invariants. *)
(***************************************************************************)
EXTENDS ClientUp, TLAPS

UpPc   == {"bind", "network", "load", "create", "disk", "seed", "boot", "wait"}
StopPc == {"stopCheck", "stopSend", "stopPoll"}
NamePc == UpPc \cup StopPc \cup {"delete", "destroy", "remove"}

\* c is at work on n.
Working(c, n) == Active(c) /\ n \in cl[c].names

NoMarks == [n \in Name |-> "no"]
NoDisks == [n \in Name |-> None]

\* What the locals of a client hold where they are used.
ShapeOf(c) ==
    /\ ~Active(c) => cl[c].names = {} /\ cl[c].name = None /\ cl[c].mark = NoMarks
    /\ At(c, "idle") => cl[c].primary = None
    /\ cl[c].todo \subseteq cl[c].names
    /\ \A n \in Name : cl[c].mark[n] # "no" => n \in cl[c].names
    /\ cl[c].pc \in NamePc => cl[c].name \in cl[c].names
    /\ Active(c) /\ cl[c].primary # None => cl[c].primary \in cl[c].names
    /\ cl[c].primary = None => Added(c) = {}
    /\ cl[c].primary = None /\ ~Ended(c) => helper[c].up = "none"
    /\ cl[c].pc \in {"look", "down", "rm", "remove"} => cl[c].primary = None
    /\ cl[c].pc \in UpPc => cl[c].primary # None /\ cl[c].name \in cl[c].todo
    /\ cl[c].pc \in UpPc \cup {"next"} => \A n \in cl[c].todo : cl[c].mark[n] = "missing"
    /\ At(c, "delete") => cl[c].mark[cl[c].name] = "missing"
    /\ cl[c].pc \in {"create", "disk"} => ~cl[c].existing
    /\ At(c, "wait") => cl[c].via \in Client
    /\ cl[c].pc \in {"using", "close"} => cl[c].op = "lib"
    /\ cl[c].pc \in {"rm", "remove"} => cl[c].op = "rm"
    /\ cl[c].pc \in StopPc =>
         /\ cl[c].ret \in {"delete", "rollback", "destroy", "err", "down", "remove"}
         /\ cl[c].ret = "delete" => cl[c].mark[cl[c].name] = "missing"
         /\ cl[c].ret = "err" => helper[c].up = "none"
         /\ cl[c].ret = "remove" => cl[c].op = "rm"
         /\ cl[c].ret \in {"down", "remove"} => cl[c].primary = None

\* What runs on a helper runs there; the two paths of an entry lead to one helper.
HelpersInv ==
    /\ \A h \in Client, n \in Name :
         /\ helper[h].mem[n] # "none" => helper[h].up = "up"
         /\ helper[h].run[n] # None =>
              helper[h].mem[n] \in {"booting", "running", "stopping", "reaping"}
    /\ \A n \in Name :
         /\ entry[n].pid = entry[n].sock
         /\ entry[n].pid # None => helper[entry[n].pid].up \in {"up", "gone"}

\* The clients of a name take turns, until it lapses.
Turn == \A n \in Name \ lapse, c, d \in Client : Working(c, n) /\ Working(d, n) => c = d

Whole(n) == entry[n].disk # None /\ entry[n].seed
Making(c, n) == cl[c].pc \in {"disk", "seed", "delete"} /\ cl[c].name = n
DiskInEntry == \A n \in Name \ lapse : entry[n].disk # None => entry[n].cfg

\* What a client has made of a member so far.
FilesOf(c) ==
    \A n \in Name \ lapse : cl[c].name = n =>
        /\ At(c, "create") => ~entry[n].cfg
        /\ At(c, "disk") => entry[n].cfg /\ entry[n].disk = None
        /\ At(c, "seed") => entry[n].disk # None /\ (cl[c].existing => Whole(n))

\* A helper whose only member was deleted before it had a VM: nobody reaches it.
Orphan(h, n) ==
    /\ h \in lapse /\ helper[h].mem[n] = "starting"
    /\ \A m \in Name \ {n} : helper[h].mem[m] = "none"
    /\ \A m \in Name : entry[m].sock # h
    /\ Bound(h) => /\ Working(h, n) /\ cl[h].pc \in {"rollback", "close"} /\ Added(h) = {}
                   /\ ~IsRunning(n)

Awaited(n, h) == \E c \in Client : At(c, "wait") /\ cl[c].name = n /\ cl[c].via = h

\* A helper that has a member registered is led to by it, and somebody waits for
\* every boot.
Traced(h, n) ==
    /\ helper[h].mem[n] # "none" => LeadsTo(n, h) \/ Orphan(h, n)
    /\ helper[h].mem[n] # "reaping"
    /\ helper[h].mem[n] = "booting" => Awaited(n, h)
Registration == \A h \in Client, n \in Name \ lapse : Traced(h, n)

\* A member that was found missing still is, but for the client's own helper.
Own(c, n) == cl[c].primary = n /\ entry[n].pid = c /\ helper[c].mem[n] = "starting"
MissOf(c) ==
    \A n \in Name \ lapse :
        /\ (/\ cl[c].mark[n] = "missing" /\ cl[c].pc \in UpPc \cup {"look", "next"}
            /\ ~(At(c, "wait") /\ cl[c].name = n))
           => ~IsRunning(n) \/ Own(c, n)
        /\ At(c, "delete") /\ cl[c].name = n => ~IsRunning(n) \/ Own(c, n)
        /\ cl[c].pc \in {"destroy", "remove"} /\ cl[c].name = n => ~IsRunning(n)

\* A helper that is not up yet is waited for, or its client has given up on all.
SpawnOf(c) ==
    helper[c].up = "spawned" =>
        /\ cl[c].primary \in Name
        /\ cl[c].primary \notin lapse /\ ~Ended(c) =>
             \/ cl[c].pc \in {"bind", "network"} /\ cl[c].name = cl[c].primary
             \/ cl[c].pc \in {"rollback", "close"} /\ Added(c) = {}

\* Until its first member is up, nobody reaches a helper but through that member.
FreshOf(c) ==
    (/\ Active(c) /\ OwnsHelper(c) /\ cl[c].primary \notin lapse
     /\ cl[c].mark[cl[c].primary] = "missing") =>
        /\ \A m \in Name \ {cl[c].primary} : helper[c].mem[m] = "none" /\ entry[m].sock # c
        /\ Added(c) = {} /\ ~At(c, "next")
        /\ cl[c].pc \in NamePc => cl[c].name = cl[c].primary

\* What an up has running on its own helper is to be rolled back if it fails.
OwnedOf(c) ==
    \A n \in Name \ lapse :
        (cl[c].op = "up" /\ Working(c, n) /\ helper[c].mem[n] \in {"booting", "running"}) =>
            \/ /\ cl[c].mark[n] \in {"old", "new"}
               /\ ~(cl[c].pc \in {"stopPoll", "destroy"} /\ cl[c].name = n)
            \/ cl[c].pc \in {"wait", "stopCheck", "stopSend"} /\ cl[c].name = n

Good(c) == ShapeOf(c) /\ FilesOf(c) /\ MissOf(c) /\ SpawnOf(c) /\ FreshOf(c) /\ OwnedOf(c)

\* The inductive invariant.
Inv == /\ TypeOK /\ HelpersInv /\ Turn /\ DiskInEntry /\ EntryComplete
       /\ RunningKeepsDisk /\ Registration
       /\ \A c \in Client : Good(c)

\* A client that may yet copy a disk for n has not done so.
AheadAt(pc, todo, name, n) ==
    \/ pc \in {"idle", "look"}
    \/ pc \in {"next", "bind", "network", "load", "create", "disk"} /\ n \in todo
    \/ pc \in {"seed", "boot", "wait"} /\ n \in todo \ {name}
Ahead(c, n) == AheadAt(cl[c].pc, cl[c].todo, cl[c].name, n)
Once == \A c \in Client, n \in Name : Ahead(c, n) =>
            entry[n].disk # c /\ \A d \in Client : cl[d].had[n] # c
HadCfg == \A c \in Client, n \in Name :
            cl[c].had[n] # None /\ entry[n].disk = cl[c].had[n] => entry[n].cfg

\* What an up makes or destroys is new to it: the disk it found is gone, or there was none.
ClaimAt(pc, mark, name, existing, ret, n) ==
    \/ /\ name = n
       /\ \/ pc \in {"create", "disk", "delete", "destroy"}
          \/ pc \in {"seed", "boot", "wait"} /\ ~existing
          \/ pc \in StopPc /\ ret \in {"delete", "destroy"}
    \/ mark[n] = "new"
Claims(c, n) == ClaimAt(cl[c].pc, cl[c].mark, cl[c].name, cl[c].existing, cl[c].ret, n)
Spent(c, n) == cl[c].had[n] = None \/ entry[n].disk # cl[c].had[n]
NewOf(c) == cl[c].op = "up" => \A n \in Name : Claims(c, n) => Spent(c, n)

DiskInv == Once /\ HadCfg /\ \A c \in Client : NewOf(c)

-----------------------------------------------------------------------------
(* Effects of the actions on the client that takes them                    *)

\* c goes on with these locals; its command stays what it is.
Becomes(c, pc, todo, mark, name, existing, primary, via, ret) ==
    /\ cl' \in [Client -> ClientRec]
    /\ \A d \in Client \ {c} : cl'[d] = cl[d]
    /\ cl'[c].pc = pc /\ cl'[c].todo = todo /\ cl'[c].mark = mark /\ cl'[c].name = name
    /\ cl'[c].existing = existing /\ cl'[c].primary = primary /\ cl'[c].via = via
    /\ cl'[c].ret = ret
    /\ cl'[c].op = cl[c].op /\ cl'[c].names = cl[c].names /\ cl'[c].had = cl[c].had

Moves(c, pc) ==
    Becomes(c, pc, cl[c].todo, cl[c].mark, cl[c].name, cl[c].existing, cl[c].primary,
            cl[c].via, cl[c].ret)

Ends(c, pc) ==
    /\ cl' \in [Client -> ClientRec]
    /\ \A d \in Client \ {c} : cl'[d] = cl[d]
    /\ cl'[c].pc = pc /\ cl'[c].op = cl[c].op /\ cl'[c].primary = SpawnName(c)
    /\ cl'[c].names = {} /\ cl'[c].todo = {} /\ cl'[c].name = None
    /\ cl'[c].mark = NoMarks /\ cl'[c].had = NoDisks

\* The locals of a client have their types.
LEMMA Fields ==
  ASSUME TypeOK, NEW c \in Client
  PROVE  /\ cl[c] \in ClientRec /\ cl[c].pc \in Pc /\ cl[c].op \in Op
         /\ cl[c].names \subseteq Name /\ cl[c].todo \subseteq Name
         /\ cl[c].mark \in [Name -> Mark] /\ cl[c].name \in Name \cup {None}
         /\ cl[c].existing \in BOOLEAN /\ cl[c].primary \in Name \cup {None}
         /\ cl[c].via \in Client \cup {None} /\ cl[c].ret \in Pc
         /\ cl[c].had \in [Name -> Disk \cup {None}]
  <1>1. cl[c] \in ClientRec
    BY DEF TypeOK
  <1> QED
    BY <1>1 DEF ClientRec

\* A step of one client replaces its locals and nobody else's.
LEMMA PutClient ==
  ASSUME TypeOK, NEW c \in Client, NEW r \in ClientRec, cl' = [cl EXCEPT ![c] = r]
  PROVE  /\ cl' \in [Client -> ClientRec] /\ cl'[c] = r
         /\ \A d \in Client \ {c} : cl'[d] = cl[d]
  BY DEF TypeOK

\* A client that goes on changes its place alone.
LEMMA DoGoto ==
  ASSUME TypeOK, NEW c \in Client, NEW pc \in Pc \ {"ok", "err"}, Goto(c, pc)
  PROVE  Moves(c, pc)
  <1> DEFINE r == [cl[c] EXCEPT !.pc = pc]
  <1>1. cl' = [cl EXCEPT ![c] = r]
    BY DEF Goto
  <1>2. r \in ClientRec /\ r.pc = pc /\ r.op = cl[c].op /\ r.names = cl[c].names
        /\ r.todo = cl[c].todo /\ r.mark = cl[c].mark /\ r.name = cl[c].name
        /\ r.existing = cl[c].existing /\ r.primary = cl[c].primary
        /\ r.via = cl[c].via /\ r.ret = cl[c].ret /\ r.had = cl[c].had
    <2>1. cl[c] \in ClientRec
      BY Fields
    <2> QED
      BY <2>1 DEF ClientRec
  <1> HIDE DEF r
  <1> QED
    BY <1>1, <1>2, PutClient DEF Moves, Becomes

\* A command that ends drops its locals, but for the name its helper was spawned with.
LEMMA DoEnd ==
  ASSUME TypeOK, NEW c \in Client, NEW pc \in {"ok", "err"}, Goto(c, pc)
  PROVE  Ends(c, pc)
  <1> DEFINE r == [Idle EXCEPT !.pc = pc, !.op = cl[c].op, !.primary = SpawnName(c)]
  <1>1. cl' = [cl EXCEPT ![c] = r]
    BY DEF Goto
  <1>2. cl[c].op \in Op /\ SpawnName(c) \in Name \cup {None} /\ pc \in Pc
    BY Fields DEF SpawnName, Pc
  <1>3. r \in ClientRec /\ r.pc = pc /\ r.op = cl[c].op /\ r.primary = SpawnName(c)
        /\ r.names = {} /\ r.todo = {} /\ r.name = None /\ r.mark = NoMarks /\ r.had = NoDisks
    <2> HIDE DEF SpawnName
    <2> QED
      BY <1>2 DEF Idle, ClientRec, NoMarks, NoDisks, Pc, Mark, Disk
  <1> HIDE DEF r
  <1> QED
    BY <1>1, <1>3, PutClient DEF Ends

\* A call of control.Stop keeps where it returns to.
LEMMA DoCall ==
  ASSUME TypeOK, NEW c \in Client, NEW n \in Name, NEW ret \in Pc, CallStop(c, n, ret)
  PROVE  Becomes(c, "stopCheck", cl[c].todo, cl[c].mark, n, FALSE, cl[c].primary, None, ret)
  <1> DEFINE r == [cl[c] EXCEPT !.pc = "stopCheck", !.name = n, !.ret = ret, !.via = None,
                                !.existing = FALSE]
  <1>1. cl' = [cl EXCEPT ![c] = r]
    BY Fields DEF CallStop, TypeOK
  <1>2. r \in ClientRec /\ r.pc = "stopCheck" /\ r.op = cl[c].op /\ r.names = cl[c].names
        /\ r.todo = cl[c].todo /\ r.mark = cl[c].mark /\ r.name = n
        /\ r.existing = FALSE /\ r.primary = cl[c].primary
        /\ r.via = None /\ r.ret = ret /\ r.had = cl[c].had
    <2>1. cl[c] \in ClientRec
      BY Fields
    <2>2. r \in ClientRec
      BY <2>1 DEF ClientRec, Pc
    <2> QED
      BY <2>1, <2>2 DEF ClientRec
  <1> HIDE DEF r
  <1> QED
    BY <1>1, <1>2, PutClient DEF Becomes

\* A new list of names, and somewhere to go.
LEMMA DoTodo ==
  ASSUME TypeOK, NEW c \in Client, NEW pc \in Pc, NEW todo \in SUBSET Name,
         cl' = [cl EXCEPT ![c].pc = pc, ![c].todo = todo]
  PROVE  Becomes(c, pc, todo, cl[c].mark, cl[c].name, cl[c].existing, cl[c].primary, cl[c].via,
             cl[c].ret)
  <1> DEFINE r == [cl[c] EXCEPT !.pc = pc, !.todo = todo]
  <1>1. cl' = [cl EXCEPT ![c] = r]
    BY Fields DEF TypeOK
  <1>2. cl[c] \in ClientRec
    BY Fields
  <1>3. r \in ClientRec
    BY <1>2 DEF ClientRec, Pc
  <1>4. r.op = cl[c].op /\ r.names = cl[c].names /\ r.had = cl[c].had
        /\ r.pc = pc /\ r.todo = todo /\ r.mark = cl[c].mark /\ r.name = cl[c].name
               /\ r.existing = cl[c].existing /\ r.primary = cl[c].primary /\ r.via = cl[c].via
                      /\ r.ret = cl[c].ret
    BY <1>2 DEF ClientRec
  <1> HIDE DEF r
  <1> QED
    BY <1>1, <1>3, <1>4, PutClient, Zenon DEF Becomes

\* A name looked at.
LEMMA DoLook ==
  ASSUME TypeOK, NEW c \in Client, NEW todo \in SUBSET Name, NEW mark \in [Name -> Mark],
         cl' = [cl EXCEPT ![c].todo = todo, ![c].mark = mark]
  PROVE  Becomes(c, cl[c].pc, todo, mark, cl[c].name, cl[c].existing, cl[c].primary, cl[c].via,
             cl[c].ret)
  <1> DEFINE r == [cl[c] EXCEPT !.todo = todo, !.mark = mark]
  <1>1. cl' = [cl EXCEPT ![c] = r]
    BY Fields DEF TypeOK
  <1>2. cl[c] \in ClientRec
    BY Fields
  <1>3. r \in ClientRec
    BY <1>2 DEF ClientRec, Pc
  <1>4. r.op = cl[c].op /\ r.names = cl[c].names /\ r.had = cl[c].had
        /\ r.pc = cl[c].pc /\ r.todo = todo /\ r.mark = mark /\ r.name = cl[c].name
               /\ r.existing = cl[c].existing /\ r.primary = cl[c].primary /\ r.via = cl[c].via
                      /\ r.ret = cl[c].ret
    BY <1>2 DEF ClientRec
  <1> HIDE DEF r
  <1> QED
    BY <1>1, <1>3, <1>4, PutClient, Zenon DEF Becomes

\* A member whose helper is joined.
LEMMA DoPrimary ==
  ASSUME TypeOK, NEW c \in Client, NEW todo \in SUBSET Name, NEW s \in Name,
         cl' = [cl EXCEPT ![c].pc = "next", ![c].todo = todo, ![c].primary = s]
  PROVE  Becomes(c, "next", todo, cl[c].mark, cl[c].name, cl[c].existing, s, cl[c].via, cl[c].ret)
  <1> DEFINE r == [cl[c] EXCEPT !.pc = "next", !.todo = todo, !.primary = s]
  <1>1. cl' = [cl EXCEPT ![c] = r]
    BY Fields DEF TypeOK
  <1>2. cl[c] \in ClientRec
    BY Fields
  <1>3. r \in ClientRec
    BY <1>2 DEF ClientRec, Pc
  <1>4. r.op = cl[c].op /\ r.names = cl[c].names /\ r.had = cl[c].had
        /\ r.pc = "next" /\ r.todo = todo /\ r.mark = cl[c].mark /\ r.name = cl[c].name
               /\ r.existing = cl[c].existing /\ r.primary = s /\ r.via = cl[c].via
                      /\ r.ret = cl[c].ret
    BY <1>2 DEF ClientRec
  <1> HIDE DEF r
  <1> QED
    BY <1>1, <1>3, <1>4, PutClient, Zenon DEF Becomes

\* A member whose helper is spawned.
LEMMA DoSpawn ==
  ASSUME TypeOK, NEW c \in Client, NEW n \in Name, NEW pc \in {"bind", "network"},
         cl' = [cl EXCEPT ![c].pc = pc, ![c].name = n, ![c].primary = n]
  PROVE  Becomes(c, pc, cl[c].todo, cl[c].mark, n, cl[c].existing, n, cl[c].via, cl[c].ret)
  <1> DEFINE r == [cl[c] EXCEPT !.pc = pc, !.name = n, !.primary = n]
  <1>1. cl' = [cl EXCEPT ![c] = r]
    BY Fields DEF TypeOK
  <1>2. cl[c] \in ClientRec
    BY Fields
  <1>3. r \in ClientRec
    BY <1>2 DEF ClientRec, Pc
  <1>4. r.op = cl[c].op /\ r.names = cl[c].names /\ r.had = cl[c].had
        /\ r.pc = pc /\ r.todo = cl[c].todo /\ r.mark = cl[c].mark /\ r.name = n
               /\ r.existing = cl[c].existing /\ r.primary = n /\ r.via = cl[c].via
                      /\ r.ret = cl[c].ret
    BY <1>2 DEF ClientRec
  <1> HIDE DEF r
  <1> QED
    BY <1>1, <1>3, <1>4, PutClient, Zenon DEF Becomes

\* The member a client turns to.
LEMMA DoName ==
  ASSUME TypeOK, NEW c \in Client, NEW pc \in Pc, NEW n \in Name,
         cl' = [cl EXCEPT ![c].pc = pc, ![c].name = n]
  PROVE  Becomes(c, pc, cl[c].todo, cl[c].mark, n, cl[c].existing, cl[c].primary, cl[c].via,
             cl[c].ret)
  <1> DEFINE r == [cl[c] EXCEPT !.pc = pc, !.name = n]
  <1>1. cl' = [cl EXCEPT ![c] = r]
    BY Fields DEF TypeOK
  <1>2. cl[c] \in ClientRec
    BY Fields
  <1>3. r \in ClientRec
    BY <1>2 DEF ClientRec, Pc
  <1>4. r.op = cl[c].op /\ r.names = cl[c].names /\ r.had = cl[c].had
        /\ r.pc = pc /\ r.todo = cl[c].todo /\ r.mark = cl[c].mark /\ r.name = n
               /\ r.existing = cl[c].existing /\ r.primary = cl[c].primary /\ r.via = cl[c].via
                      /\ r.ret = cl[c].ret
    BY <1>2 DEF ClientRec
  <1> HIDE DEF r
  <1> QED
    BY <1>1, <1>3, <1>4, PutClient, Zenon DEF Becomes

\* Whether the member exists.
LEMMA DoExisting ==
  ASSUME TypeOK, NEW c \in Client, NEW pc \in Pc, NEW e \in BOOLEAN,
         cl' = [cl EXCEPT ![c].pc = pc, ![c].existing = e]
  PROVE  Becomes(c, pc, cl[c].todo, cl[c].mark, cl[c].name, e, cl[c].primary, cl[c].via, cl[c].ret)
  <1> DEFINE r == [cl[c] EXCEPT !.pc = pc, !.existing = e]
  <1>1. cl' = [cl EXCEPT ![c] = r]
    BY Fields DEF TypeOK
  <1>2. cl[c] \in ClientRec
    BY Fields
  <1>3. r \in ClientRec
    BY <1>2 DEF ClientRec, Pc
  <1>4. r.op = cl[c].op /\ r.names = cl[c].names /\ r.had = cl[c].had
        /\ r.pc = pc /\ r.todo = cl[c].todo /\ r.mark = cl[c].mark /\ r.name = cl[c].name
               /\ r.existing = e /\ r.primary = cl[c].primary /\ r.via = cl[c].via
                      /\ r.ret = cl[c].ret
    BY <1>2 DEF ClientRec
  <1> HIDE DEF r
  <1> QED
    BY <1>1, <1>3, <1>4, PutClient, Zenon DEF Becomes

\* The helper a boot was sent to.
LEMMA DoVia ==
  ASSUME TypeOK, NEW c \in Client, NEW h \in Client,
         cl' = [cl EXCEPT ![c].pc = "wait", ![c].via = h]
  PROVE  Becomes(c, "wait", cl[c].todo, cl[c].mark, cl[c].name, cl[c].existing, cl[c].primary, h,
             cl[c].ret)
  <1> DEFINE r == [cl[c] EXCEPT !.pc = "wait", !.via = h]
  <1>1. cl' = [cl EXCEPT ![c] = r]
    BY Fields DEF TypeOK
  <1>2. cl[c] \in ClientRec
    BY Fields
  <1>3. r \in ClientRec
    BY <1>2 DEF ClientRec, Pc
  <1>4. r.op = cl[c].op /\ r.names = cl[c].names /\ r.had = cl[c].had
        /\ r.pc = "wait" /\ r.todo = cl[c].todo /\ r.mark = cl[c].mark /\ r.name = cl[c].name
               /\ r.existing = cl[c].existing /\ r.primary = cl[c].primary /\ r.via = h
                      /\ r.ret = cl[c].ret
    BY <1>2 DEF ClientRec
  <1> HIDE DEF r
  <1> QED
    BY <1>1, <1>3, <1>4, PutClient, Zenon DEF Becomes

\* A member that is up.
LEMMA DoUp ==
  ASSUME TypeOK, NEW c \in Client, NEW todo \in SUBSET Name, NEW mark \in [Name -> Mark],
         cl' = [cl EXCEPT ![c].pc = "next", ![c].todo = todo, ![c].name = None,
                          ![c].via = None, ![c].existing = FALSE, ![c].mark = mark]
  PROVE  Becomes(c, "next", todo, mark, None, FALSE, cl[c].primary, None, cl[c].ret)
  <1> DEFINE r == [cl[c] EXCEPT !.pc = "next", !.todo = todo, !.name = None, !.via = None,
          !.existing = FALSE, !.mark = mark]
  <1>1. cl' = [cl EXCEPT ![c] = r]
    BY Fields DEF TypeOK
  <1>2. cl[c] \in ClientRec
    BY Fields
  <1>3. r \in ClientRec
    BY <1>2 DEF ClientRec, Pc
  <1>4. r.op = cl[c].op /\ r.names = cl[c].names /\ r.had = cl[c].had
        /\ r.pc = "next" /\ r.todo = todo /\ r.mark = mark /\ r.name = None /\ r.existing = FALSE
               /\ r.primary = cl[c].primary /\ r.via = None /\ r.ret = cl[c].ret
    BY <1>2 DEF ClientRec
  <1> HIDE DEF r
  <1> QED
    BY <1>1, <1>3, <1>4, PutClient, Zenon DEF Becomes

\* A member destroyed.
LEMMA DoLeave ==
  ASSUME TypeOK, NEW c \in Client, NEW mark \in [Name -> Mark],
         cl' = [cl EXCEPT ![c].pc = "rollback", ![c].mark = mark, ![c].name = None]
  PROVE  Becomes(c, "rollback", cl[c].todo, mark, None, cl[c].existing, cl[c].primary, cl[c].via,
             cl[c].ret)
  <1> DEFINE r == [cl[c] EXCEPT !.pc = "rollback", !.mark = mark, !.name = None]
  <1>1. cl' = [cl EXCEPT ![c] = r]
    BY Fields DEF TypeOK
  <1>2. cl[c] \in ClientRec
    BY Fields
  <1>3. r \in ClientRec
    BY <1>2 DEF ClientRec, Pc
  <1>4. r.op = cl[c].op /\ r.names = cl[c].names /\ r.had = cl[c].had
        /\ r.pc = "rollback" /\ r.todo = cl[c].todo /\ r.mark = mark /\ r.name = None
               /\ r.existing = cl[c].existing /\ r.primary = cl[c].primary /\ r.via = cl[c].via
                      /\ r.ret = cl[c].ret
    BY <1>2 DEF ClientRec
  <1> HIDE DEF r
  <1> QED
    BY <1>1, <1>3, <1>4, PutClient, Zenon DEF Becomes

\* A stop that returned.
LEMMA DoReturn ==
  ASSUME TypeOK, NEW c \in Client, NEW pc \in Pc, NEW todo \in SUBSET Name,
             NEW name \in Name \cup {None},
         NEW mark \in [Name -> Mark],
         cl' = [cl EXCEPT ![c].pc = pc, ![c].todo = todo, ![c].ret = "idle", ![c].name = name,
                          ![c].mark = mark]
  PROVE  Becomes(c, pc, todo, mark, name, cl[c].existing, cl[c].primary, cl[c].via, "idle")
  <1> DEFINE r == [cl[c] EXCEPT !.pc = pc, !.todo = todo, !.ret = "idle", !.name = name,
          !.mark = mark]
  <1>1. cl' = [cl EXCEPT ![c] = r]
    BY Fields DEF TypeOK
  <1>2. cl[c] \in ClientRec
    BY Fields
  <1>3. r \in ClientRec
    BY <1>2 DEF ClientRec, Pc
  <1>4. r.op = cl[c].op /\ r.names = cl[c].names /\ r.had = cl[c].had
        /\ r.pc = pc /\ r.todo = todo /\ r.mark = mark /\ r.name = name
               /\ r.existing = cl[c].existing /\ r.primary = cl[c].primary /\ r.via = cl[c].via
                      /\ r.ret = "idle"
    BY <1>2 DEF ClientRec
  <1> HIDE DEF r
  <1> QED
    BY <1>1, <1>3, <1>4, PutClient, Zenon DEF Becomes

\* A member deleted.
LEMMA DoRemoved ==
  ASSUME TypeOK, NEW c \in Client, NEW todo \in SUBSET Name,
         cl' = [cl EXCEPT ![c].pc = "rm", ![c].todo = todo, ![c].name = None]
  PROVE  Becomes(c, "rm", todo, cl[c].mark, None, cl[c].existing, cl[c].primary, cl[c].via,
             cl[c].ret)
  <1> DEFINE r == [cl[c] EXCEPT !.pc = "rm", !.todo = todo, !.name = None]
  <1>1. cl' = [cl EXCEPT ![c] = r]
    BY Fields DEF TypeOK
  <1>2. cl[c] \in ClientRec
    BY Fields
  <1>3. r \in ClientRec
    BY <1>2 DEF ClientRec, Pc
  <1>4. r.op = cl[c].op /\ r.names = cl[c].names /\ r.had = cl[c].had
        /\ r.pc = "rm" /\ r.todo = todo /\ r.mark = cl[c].mark /\ r.name = None
               /\ r.existing = cl[c].existing /\ r.primary = cl[c].primary /\ r.via = cl[c].via
                      /\ r.ret = cl[c].ret
    BY <1>2 DEF ClientRec
  <1> HIDE DEF r
  <1> QED
    BY <1>1, <1>3, <1>4, PutClient, Zenon DEF Becomes

\* A target that does not run.
LEMMA DoShrink ==
  ASSUME TypeOK, NEW c \in Client, NEW todo \in SUBSET Name, cl' = [cl EXCEPT ![c].todo = todo]
  PROVE  Becomes(c, cl[c].pc, todo, cl[c].mark, cl[c].name, cl[c].existing, cl[c].primary,
             cl[c].via, cl[c].ret)
  <1> DEFINE r == [cl[c] EXCEPT !.todo = todo]
  <1>1. cl' = [cl EXCEPT ![c] = r]
    BY Fields DEF TypeOK
  <1>2. cl[c] \in ClientRec
    BY Fields
  <1>3. r \in ClientRec
    BY <1>2 DEF ClientRec, Pc
  <1>4. r.op = cl[c].op /\ r.names = cl[c].names /\ r.had = cl[c].had
        /\ r.pc = cl[c].pc /\ r.todo = todo /\ r.mark = cl[c].mark /\ r.name = cl[c].name
               /\ r.existing = cl[c].existing /\ r.primary = cl[c].primary /\ r.via = cl[c].via
                      /\ r.ret = cl[c].ret
    BY <1>2 DEF ClientRec
  <1> HIDE DEF r
  <1> QED
    BY <1>1, <1>3, <1>4, PutClient, Zenon DEF Becomes

-----------------------------------------------------------------------------
(* Frames                                                                  *)

\* None is no client, no name and no disk.
LEMMA Apart == None \notin Client /\ None \notin Name /\ None \notin Disk
  BY ClientUpAssumption DEF Disk

Others(c) == \A d \in Client \ {c} : cl'[d] = cl[d]
PathsStay == \A n \in Name : entry'[n].pid = entry[n].pid /\ entry'[n].sock = entry[n].sock

\* A client that has left the work on a name counts no more.
Calm(c) == \A n \in Name \ lapse' : Working(c, n)' => Working(c, n)

\* What the invariants of others rest on, when c steps: its turn at a wait, and the
\* retreat of its orphaned helper.
Leaves(c) ==
    \A n \in Name \ lapse' :
        /\ At(c, "wait") /\ cl[c].name = n =>
             \/ At(c, "wait")' /\ cl'[c].name = n /\ cl'[c].via = cl[c].via
             \/ helper[cl[c].via].mem[n] # "booting"
        /\ Orphan(c, n) => Orphan(c, n)'

\* The clients of a name still take turns after a step of one that takes up no name.
LEMMA TurnStays ==
  ASSUME Turn, NEW c \in Client, Others(c), Calm(c), lapse \subseteq lapse'
  PROVE  Turn'
  <1> SUFFICES ASSUME NEW n \in Name \ lapse', NEW x \in Client, NEW y \in Client,
                      Working(x, n)', Working(y, n)'
               PROVE  x = y
    BY DEF Turn
  <1>1. ASSUME NEW d \in Client, Working(d, n)' PROVE Working(d, n)
    <2>1. CASE d = c
      BY <1>1, <2>1 DEF Calm
    <2>2. CASE d # c
      BY <1>1, <2>2 DEF Others, Working, Active, Ended
    <2> QED
      BY <2>1, <2>2
  <1> QED
    BY <1>1 DEF Turn

\* A client that does not step, when the paths and the helpers stay.
LEMMA GoodStays ==
  ASSUME NEW d \in Client, Good(d), FilesOf(d)', cl'[d] = cl[d], helper' = helper, PathsStay,
         lapse \subseteq lapse', TypeOK
  PROVE  Good(d)'
  <1>0. \A n \in Name : IsRunning(n)' <=> IsRunning(n)
    BY DEF IsRunning, Up, PathsStay
  <1>1. ShapeOf(d)'
    BY DEF Good, ShapeOf, Active, Ended, At, Added, Marked
  <1>2. MissOf(d)'
    BY <1>0 DEF Good, MissOf, Own, At, PathsStay
  <1>3. SpawnOf(d)'
    BY DEF Good, SpawnOf, At, Ended, Added, Marked
  <1>4. FreshOf(d)'
    <2>1. ASSUME Active(d)', OwnsHelper(d)', cl'[d].primary \notin lapse',
                 cl'[d].mark[cl[d].primary] = "missing"
          PROVE  /\ \A m \in Name \ {cl[d].primary} : helper[d].mem[m] = "none" /\ entry[m].sock # d
                 /\ Added(d) = {} /\ ~At(d, "next")
                 /\ cl[d].pc \in NamePc => cl[d].name = cl[d].primary
      BY <2>1 DEF Good, FreshOf, Active, Ended, At, OwnsHelper
    <2> QED
      BY <2>1 DEF FreshOf, Active, Ended, At, OwnsHelper, Added, Marked, PathsStay
  <1>5. OwnedOf(d)'
    BY DEF Good, OwnedOf, Working, Active, Ended
  <1> QED
    BY <1>1, <1>2, <1>3, <1>4, <1>5 DEF Good

\* A step of a client that leaves the paths and the helpers alone.
LEMMA PathsKeep ==
  ASSUME Inv, TypeOK', NEW c \in Client, Others(c), helper' = helper, PathsStay,
         lapse \subseteq lapse', cl'[c].op = cl[c].op \/ At(c, "idle"), Turn', Good(c)', Leaves(c),
         DiskInEntry', EntryComplete', RunningKeepsDisk',
         \A d \in Client \ {c} : FilesOf(d)'
  PROVE  Inv'
  <1>1. HelpersInv'
    BY DEF Inv, HelpersInv, PathsStay
  <1>2. \A d \in Client : Good(d)'
    BY GoodStays DEF Inv, Others
  <1>3. Registration'
    <2> SUFFICES ASSUME NEW h \in Client, NEW n \in Name \ lapse'
                 PROVE  /\ helper[h].mem[n] # "none" => LeadsTo(n, h)' \/ Orphan(h, n)'
                        /\ helper[h].mem[n] # "reaping"
                        /\ helper[h].mem[n] = "booting" => Awaited(n, h)'
      BY DEF Registration, Traced
    <2>1. /\ helper[h].mem[n] # "none" => LeadsTo(n, h) \/ Orphan(h, n)
          /\ helper[h].mem[n] # "reaping"
          /\ helper[h].mem[n] = "booting" => Awaited(n, h)
      BY DEF Inv, Registration, Traced
    <2>2. LeadsTo(n, h) => LeadsTo(n, h)'
      BY DEF LeadsTo, PathsStay
    <2>3. Orphan(h, n) => Orphan(h, n)'
      <3>1. CASE h = c
        BY <3>1 DEF Leaves
      <3>2. CASE h # c
        <4>1. cl'[h] = cl[h]
          BY <3>2 DEF Others
        <4>2. IsRunning(n)' <=> IsRunning(n)
          BY DEF IsRunning, Up, PathsStay
        <4> QED
          BY <4>1, <4>2 DEF Orphan, Bound, Working, Active, Ended, Added, Marked, PathsStay
      <3> QED
        BY <3>1, <3>2
    <2>4. helper[h].mem[n] = "booting" /\ Awaited(n, h) => Awaited(n, h)'
      <3> SUFFICES ASSUME helper[h].mem[n] = "booting", NEW d \in Client, At(d, "wait"),
                          cl[d].name = n, cl[d].via = h
                   PROVE  At(d, "wait")' /\ cl'[d].name = n /\ cl'[d].via = h
        BY DEF Awaited, At
      <3>1. CASE d = c
        BY <3>1 DEF Leaves
      <3>2. CASE d # c
        BY <3>2 DEF Others, At
      <3> QED
        BY <3>1, <3>2
    <2> QED
      BY <2>1, <2>2, <2>3, <2>4
  <1> QED
    BY <1>1, <1>2, <1>3 DEF Inv

\* A step of a client that changes nothing but the client, and what lapses.
LEMMA ClientOnly ==
  ASSUME Inv, TypeOK', NEW c \in Client, Others(c), entry' = entry, helper' = helper,
         lapse \subseteq lapse', cl'[c].op = cl[c].op \/ At(c, "idle"), Turn', Good(c)', Leaves(c),
         \A n \in Name \ lapse' :
            Making(c, n) => Making(c, n)' \/ Whole(n) \/ ~entry[n].cfg
  PROVE  Inv'
  <1>1. PathsStay
    BY DEF PathsStay
  <1>2. DiskInEntry' /\ RunningKeepsDisk'
    BY DEF Inv, DiskInEntry, RunningKeepsDisk
  <1>3. EntryComplete'
    <2> SUFFICES ASSUME NEW n \in Name \ lapse', entry[n].cfg, ~entry[n].cut, ~Whole(n)
                 PROVE  \E d \in Client : Making(d, n)'
      BY DEF EntryComplete, Making, Whole
    <2>1. PICK d \in Client : Making(d, n)
      BY DEF Inv, EntryComplete, Making, Whole
    <2>2. CASE d = c
      BY <2>1, <2>2
    <2>3. CASE d # c
      BY <2>1, <2>3 DEF Making, Others
    <2> QED
      BY <2>2, <2>3
  <1>4. \A d \in Client \ {c} : FilesOf(d)'
    BY DEF Inv, Good, FilesOf, Others, At, Whole
  <1> QED
    BY <1>1, <1>2, <1>3, <1>4, PathsKeep

-----------------------------------------------------------------------------
(* Steps of a client that change nothing but its locals                    *)

\* What a step that only goes on may do, and when.
Onward(c, q) ==
    \/ At(c, "next") /\ q = "rollback"
    \/ At(c, "next") /\ q = "using" /\ cl[c].op = "lib"
    \/ At(c, "bind") /\ q = "network"
    \/ At(c, "network") /\ q = "load" /\ (helper[c].up = "spawned" => cl[c].primary \in lapse)
    \/ At(c, "network") /\ q = "rollback"
    \/ At(c, "load") /\ q = "rollback"
    \/ At(c, "disk") /\ q = "delete"
    \/ At(c, "seed") /\ q = "delete" /\ ~cl[c].existing
    \/ At(c, "seed") /\ q = "rollback" /\ cl[c].existing
    \/ At(c, "rollback") /\ q = "close" /\ cl[c].op = "lib" /\ Added(c) = {}
    \/ At(c, "using") /\ q = "rollback"
    \/ At(c, "stopCheck") /\ q = "stopSend"

\* The steps on a member directory, one after the other.
Writes(c, q) ==
    \/ At(c, "create") /\ q \in {"disk", "rollback"}
    \/ At(c, "disk") /\ q = "seed"
    \/ At(c, "seed") /\ q = "boot"
    \/ At(c, "delete") /\ q = "rollback"

\* A step that only goes on keeps the locals in shape.
LEMMA OnwardShape ==
  ASSUME TypeOK, NEW c \in Client, ShapeOf(c), NEW q, Onward(c, q) \/ Writes(c, q),
         Moves(c, q), helper' = helper
  PROVE  ShapeOf(c)'
  <1>1. cl[c].pc \in Pc /\ Active(c) /\ Active(c)' /\ q \in Pc
    BY Fields DEF Onward, Writes, At, Active, Ended, Moves, Becomes, Pc
  <1>2. Added(c)' = Added(c)
    BY DEF Added, Marked, Moves, Becomes
  <1> USE DEF Moves, Becomes, At, Ended, NamePc, UpPc, StopPc
  <1>3. /\ cl'[c].pc \in NamePc => cl'[c].name \in cl'[c].names
        /\ cl'[c].pc \in UpPc => cl'[c].primary # None /\ cl'[c].name \in cl'[c].todo
        /\ cl'[c].pc \in UpPc \cup {"next"} => \A n \in cl'[c].todo : cl'[c].mark[n] = "missing"
    BY DEF Onward, Writes, ShapeOf
  <1>4. /\ At(c, "delete")' => cl'[c].mark[cl'[c].name] = "missing"
        /\ cl'[c].pc \in {"create", "disk"} => ~cl'[c].existing
        /\ At(c, "wait")' => cl'[c].via \in Client
        /\ cl'[c].pc \in {"using", "close"} => cl'[c].op = "lib"
        /\ cl'[c].pc \in {"rm", "remove"} => cl'[c].op = "rm"
    BY DEF Onward, Writes, ShapeOf
  <1>5. cl'[c].pc \in StopPc =>
         /\ cl'[c].ret \in {"delete", "rollback", "destroy", "err", "down", "remove"}
         /\ cl'[c].ret = "delete" => cl'[c].mark[cl'[c].name] = "missing"
         /\ cl'[c].ret = "err" => helper'[c].up = "none"
         /\ cl'[c].ret = "remove" => cl'[c].op = "rm"
         /\ cl'[c].ret \in {"down", "remove"} => cl'[c].primary = None
    BY DEF Onward, Writes, ShapeOf
  <1>6. /\ At(c, "idle")' => cl'[c].primary = None
        /\ cl'[c].todo \subseteq cl'[c].names
        /\ \A n \in Name : cl'[c].mark[n] # "no" => n \in cl'[c].names
        /\ Active(c)' /\ cl'[c].primary # None => cl'[c].primary \in cl'[c].names
        /\ cl'[c].primary = None => Added(c)' = {}
        /\ cl'[c].primary = None /\ ~Ended(c)' => helper'[c].up = "none"
        /\ cl'[c].pc \in {"look", "down", "rm", "remove"} => cl'[c].primary = None
    BY <1>1, <1>2 DEF Onward, Writes, ShapeOf, Active
  <1> QED
    BY <1>1, <1>3, <1>4, <1>5, <1>6 DEF ShapeOf

\* A step that only goes on, or writes a member directory, keeps what its client knows.
LEMMA OnwardGood ==
  ASSUME Inv, NEW c \in Client, NEW q, Onward(c, q) \/ Writes(c, q), Moves(c, q), PathsStay,
         UNCHANGED <<helper, lapse>>
  PROVE  /\ ShapeOf(c)' /\ MissOf(c)' /\ SpawnOf(c)' /\ FreshOf(c)' /\ OwnedOf(c)'
         /\ Turn' /\ Leaves(c) /\ cl'[c].op = cl[c].op /\ Others(c) /\ Active(c) /\ Active(c)'
  <1>0. TypeOK /\ Good(c)
    BY DEF Inv
  <1>1. cl[c].pc \in Pc /\ Active(c) /\ Active(c)' /\ Others(c)
    BY <1>0, Fields DEF Onward, Writes, At, Active, Ended, Moves, Becomes, Others
  <1>2. ShapeOf(c)'
    BY <1>0, OnwardShape DEF Good
  <1>3. Turn'
    <2>1. Calm(c)
      BY <1>1 DEF Calm, Working, Moves, Becomes
    <2> QED
      BY <2>1, <1>1, TurnStays DEF Inv
  <1>5. MissOf(c)'
    <2>1. \A n \in Name : (IsRunning(n)' <=> IsRunning(n)) /\ (Own(c, n)' <=> Own(c, n))
      BY DEF IsRunning, Up, Own, Moves, Becomes, PathsStay
    <2>2. /\ cl[c].pc \in UpPc => cl[c].name \in Name
          /\ cl[c].pc \in UpPc => cl[c].mark[cl[c].name] = "missing"
      BY <1>0, Fields DEF Good, ShapeOf
    <2> QED
      BY <1>0, <2>1, <2>2 DEF Good, MissOf, At, Onward, Writes, Moves, Becomes, UpPc
  <1>6. SpawnOf(c)'
    <2> SUFFICES ASSUME helper[c].up = "spawned"
                 PROVE  /\ cl[c].primary \in Name
                        /\ cl[c].primary \notin lapse =>
                             \/ q \in {"bind", "network"} /\ cl[c].name = cl[c].primary
                             \/ q \in {"rollback", "close"} /\ Added(c) = {}
      BY DEF SpawnOf, Moves, Becomes, Added, Marked
    <2>1. cl[c].primary \in Name
      BY <1>0 DEF Good, SpawnOf
    <2>2. ASSUME cl[c].primary \notin lapse
          PROVE  \/ cl[c].pc \in {"bind", "network"} /\ cl[c].name = cl[c].primary
                 \/ cl[c].pc \in {"rollback", "close"} /\ Added(c) = {}
      BY <1>0, <1>1, <2>2 DEF Good, SpawnOf, Active
    <2>3. ASSUME cl[c].primary \notin lapse, At(c, "network") PROVE Added(c) = {}
      <3>1. cl[c].name = cl[c].primary
        BY <2>2, <2>3 DEF At
      <3>2. cl[c].mark[cl[c].primary] = "missing"
        BY <1>0, <2>3, <3>1 DEF Good, ShapeOf, At, UpPc
      <3> QED
        BY <1>0, <1>1, <2>3, <3>2 DEF Good, FreshOf, OwnsHelper
    <2> QED
      BY <2>1, <2>2, <2>3 DEF At, Onward, Writes
  <1>7. FreshOf(c)'
    <2>1. Added(c)' = Added(c)
      BY DEF Added, Marked, Moves, Becomes
    <2>2. ASSUME OwnsHelper(c), cl[c].primary \notin lapse, cl[c].mark[cl[c].primary] = "missing"
          PROVE  /\ \A m \in Name \ {cl[c].primary} : helper[c].mem[m] = "none" /\ entry[m].sock # c
                 /\ Added(c) = {} /\ ~At(c, "next")
                 /\ cl[c].pc \in NamePc => cl[c].name = cl[c].primary
      BY <1>0, <1>1, <2>2 DEF Good, FreshOf
    <2>3. q # "next" /\ (q \in NamePc => cl[c].pc \in NamePc \/ At(c, "next"))
      BY DEF Onward, Writes, At, NamePc, UpPc, StopPc
    <2> QED
      BY <1>1, <2>1, <2>2, <2>3 DEF FreshOf, At, Moves, Becomes, OwnsHelper, PathsStay
  <1>8. OwnedOf(c)'
    BY <1>0, <1>1 DEF Good, OwnedOf, At, Onward, Writes, Moves, Becomes, Working
  <1>9. Leaves(c)
    <2>1. \A n \in Name \ lapse' : Orphan(c, n) => Orphan(c, n)'
      BY <1>1 DEF Orphan, Bound, Working, Added, Marked, At, Onward, Writes, Moves, Becomes,
                  IsRunning, Up, PathsStay
    <2> QED
      BY <2>1 DEF Leaves, At, Onward, Writes
  <1>10. cl'[c].op = cl[c].op
    BY DEF Moves, Becomes
  <1> QED
    BY <1>1, <1>2, <1>3, <1>5, <1>6, <1>7, <1>8, <1>9, <1>10

\* A step that only goes on keeps the invariant.
LEMMA OnwardKeeps ==
  ASSUME Inv, NEW c \in Client, NEW q, Onward(c, q), Moves(c, q),
         UNCHANGED <<entry, helper, lapse>>
  PROVE  Inv'
  <1>0. TypeOK /\ Good(c) /\ PathsStay /\ TypeOK'
    BY DEF Inv, PathsStay, Moves, Becomes, TypeOK
  <1>1. /\ ShapeOf(c)' /\ MissOf(c)' /\ SpawnOf(c)' /\ FreshOf(c)' /\ OwnedOf(c)'
        /\ Turn' /\ Leaves(c) /\ cl'[c].op = cl[c].op /\ Others(c)
    BY <1>0, OnwardGood
  <1>2. FilesOf(c)'
    BY <1>0 DEF Good, FilesOf, Whole, At, Onward, Moves, Becomes
  <1>3. \A n \in Name \ lapse' :
            Making(c, n) => Making(c, n)' \/ Whole(n) \/ ~entry[n].cfg
    BY <1>0 DEF Good, FilesOf, Making, At, Onward, Moves, Becomes
  <1> QED
    BY <1>0, <1>1, <1>2, <1>3, ClientOnly DEF Good

\* When a client may end: others rest on nothing of it, or its names have lapsed.
MayEnd(c) ==
    \/ cl[c].names \subseteq lapse'
    \/ /\ cl[c].pc \in {"look", "next", "network", "load", "seed", "rollback", "close",
                        "down", "rm"} \cup StopPc
       /\ At(c, "network") => helper[c].up # "spawned"
       /\ At(c, "seed") => cl[c].existing
       /\ cl[c].pc \in {"rollback", "close"} /\ Bound(c) => helper[c].up # "up"

\* A client that has ended is at work on nothing.
LEMMA EndShape ==
  ASSUME NEW c \in Client, NEW pc \in {"ok", "err"}, Ends(c, pc)
  PROVE  ShapeOf(c)' /\ ~Active(c)' /\ Added(c)' = {}
  <1>1. /\ cl'[c].pc \in {"ok", "err"} /\ cl'[c].names = {} /\ cl'[c].todo = {}
        /\ cl'[c].name = None /\ cl'[c].mark = NoMarks /\ \A n \in Name : cl'[c].mark[n] = "no"
    BY DEF Ends, NoMarks
  <1>2. Added(c)' = {}
    BY <1>1 DEF Added, Marked
  <1> QED
    BY <1>1, <1>2 DEF ShapeOf, Active, Ended, At, NamePc, UpPc, StopPc

\* A command may end where it has made nothing it does not leave whole.
LEMMA EndKeeps ==
  ASSUME Inv, NEW c \in Client, NEW pc \in {"ok", "err"}, Active(c), Ends(c, pc), MayEnd(c),
         UNCHANGED <<entry, helper>>, lapse \subseteq lapse', lapse' \subseteq Name \cup Client
  PROVE  Inv'
  <1>0. TypeOK /\ Good(c)
    BY DEF Inv
  <1>1. cl[c].pc \in Pc /\ ~Active(c)' /\ TypeOK' /\ Others(c) /\ ShapeOf(c)'
        /\ cl'[c].pc \in {"ok", "err"} /\ cl'[c].op = cl[c].op
    BY <1>0, Fields, EndShape DEF Ends, TypeOK, Others
  <1>3. Turn'
    <2>1. Calm(c)
      BY <1>1 DEF Calm, Working
    <2> QED
      BY <2>1, <1>1, TurnStays DEF Inv
  <1>4. FilesOf(c)' /\ MissOf(c)'
    BY <1>1 DEF FilesOf, MissOf, At, UpPc
  <1>6. SpawnOf(c)'
    <2>1. helper[c].up = "spawned" => cl'[c].primary \in Name
      BY <1>0 DEF Ends, SpawnName, Good, SpawnOf
    <2> QED
      BY <1>1, <2>1 DEF SpawnOf, Ended
  <1>7. FreshOf(c)' /\ OwnedOf(c)'
    BY <1>1 DEF FreshOf, OwnedOf, Working
  <1>9. Leaves(c)
    <2> SUFFICES ASSUME NEW n \in Name \ lapse'
                 PROVE  /\ At(c, "wait") /\ cl[c].name = n => FALSE
                        /\ Orphan(c, n) => Orphan(c, n)'
      BY DEF Leaves
    <2>1. ASSUME At(c, "wait"), cl[c].name = n PROVE FALSE
      <3>1. cl[c].name \in cl[c].names
        BY <1>0, <2>1 DEF Good, ShapeOf, At, NamePc, UpPc
      <3> QED
        BY <3>1, <2>1 DEF MayEnd, At, StopPc
    <2>2. ASSUME Orphan(c, n), ~Bound(c) PROVE Orphan(c, n)'
      BY <2>2, <1>1 DEF Orphan, Bound, At
    <2>3. ASSUME Orphan(c, n), Bound(c) PROVE FALSE
      <3>1. helper[c].up = "up"
        BY <2>3 DEF Orphan, Inv, HelpersInv
      <3>2. n \in cl[c].names /\ cl[c].pc \in {"rollback", "close"}
        BY <2>3 DEF Orphan, Working
      <3> QED
        BY <3>1, <3>2, <2>3 DEF MayEnd
    <2> QED
      BY <2>1, <2>2, <2>3
  <1>10. \A n \in Name \ lapse' :
            Making(c, n) => Making(c, n)' \/ Whole(n) \/ ~entry[n].cfg
    <2> SUFFICES ASSUME NEW n \in Name \ lapse', Making(c, n) PROVE Whole(n)
      OBVIOUS
    <2>1. n \in cl[c].names
      BY <1>0 DEF Good, ShapeOf, Making, NamePc, UpPc
    <2>2. At(c, "seed") /\ cl[c].existing
      BY <2>1 DEF MayEnd, Making, At, StopPc
    <2> QED
      BY <1>0, <2>2 DEF Good, FilesOf, Making
  <1> QED
    BY <1>0, <1>1, <1>3, <1>4, <1>6, <1>7, <1>9, <1>10, ClientOnly DEF Good

\* When a client turns to a stop, and where it is to go on after it.
MayCall(c, n, ret) ==
    \/ /\ cl[c].pc \in {"boot", "wait"} /\ n = cl[c].name /\ ret \in {"delete", "rollback", "err"}
       /\ ret = "err" => helper[c].up = "none"
       /\ At(c, "wait") => helper[cl[c].via].mem[n] # "booting"
    \/ At(c, "rollback") /\ n \in Added(c) /\ ret \in {"rollback", "destroy"}
    \/ At(c, "down") /\ n \in cl[c].todo /\ ret = "down"
    \/ At(c, "rm") /\ n \in cl[c].todo /\ ret = "remove"

Calls(c, n, ret) ==
    Becomes(c, "stopCheck", cl[c].todo, cl[c].mark, n, FALSE, cl[c].primary, None, ret)

\* A call of control.Stop keeps the locals in shape.
LEMMA CallShape ==
  ASSUME TypeOK, NEW c \in Client, NEW n \in Name, NEW ret, ShapeOf(c), MayCall(c, n, ret),
         Calls(c, n, ret), helper' = helper
  PROVE  ShapeOf(c)' /\ Active(c) /\ Active(c)' /\ n \in cl[c].names
  <1>1. cl[c].pc \in Pc /\ Active(c) /\ Active(c)'
    BY Fields DEF MayCall, At, Active, Ended, Calls, Becomes, Pc
  <1>2. Added(c)' = Added(c)
    BY DEF Added, Marked, Calls, Becomes
  <1>3. n \in cl[c].names
    <2>1. \A m \in Added(c) : cl[c].mark[m] # "no"
      BY DEF Added, Marked
    <2> QED
      BY <2>1 DEF MayCall, ShapeOf, At, NamePc, UpPc
  <1>4. /\ ret \in {"delete", "rollback", "destroy", "err", "down", "remove"}
        /\ ret = "delete" => cl[c].mark[n] = "missing"
        /\ ret = "err" => helper[c].up = "none"
        /\ ret = "remove" => cl[c].op = "rm"
        /\ ret \in {"down", "remove"} => cl[c].primary = None
    BY DEF MayCall, ShapeOf, At, UpPc
  <1>5. /\ cl[c].todo \subseteq cl[c].names
        /\ \A m \in Name : cl[c].mark[m] # "no" => m \in cl[c].names
        /\ cl[c].primary # None => cl[c].primary \in cl[c].names
        /\ cl[c].primary = None => Added(c) = {} /\ helper[c].up = "none"
    BY <1>1 DEF ShapeOf, Active
  <1>6. /\ cl'[c].pc = "stopCheck" /\ cl'[c].name = n /\ cl'[c].names = cl[c].names
        /\ cl'[c].todo = cl[c].todo /\ cl'[c].mark = cl[c].mark
        /\ cl'[c].primary = cl[c].primary /\ cl'[c].ret = ret /\ cl'[c].op = cl[c].op
    BY DEF Calls, Becomes
  <1> QED
    BY <1>1, <1>2, <1>3, <1>4, <1>5, <1>6 DEF ShapeOf, At, NamePc, UpPc, StopPc

\* A call of control.Stop keeps the invariant.
LEMMA CallKeeps ==
  ASSUME Inv, NEW c \in Client, NEW n \in Name, NEW ret, MayCall(c, n, ret),
         Calls(c, n, ret), UNCHANGED <<entry, helper, lapse>>
  PROVE  Inv'
  <1>0. TypeOK /\ Good(c)
    BY DEF Inv
  <1>1. TypeOK' /\ Others(c) /\ ShapeOf(c)' /\ Active(c) /\ Active(c)' /\ n \in cl[c].names
    BY <1>0, CallShape DEF Good, Calls, Becomes, TypeOK, Others
  <1>2. /\ cl'[c].pc = "stopCheck" /\ cl'[c].name = n /\ cl'[c].names = cl[c].names
        /\ cl'[c].mark = cl[c].mark /\ Added(c)' = Added(c)
        /\ cl'[c].primary = cl[c].primary /\ cl'[c].op = cl[c].op
    BY DEF Calls, Becomes, Added, Marked
  <1>3. Turn'
    <2>1. Calm(c)
      BY <1>1, <1>2 DEF Calm, Working
    <2> QED
      BY <2>1, <1>1, TurnStays DEF Inv
  <1>4. FilesOf(c)' /\ MissOf(c)'
    BY <1>2 DEF FilesOf, MissOf, At, UpPc
  <1>5. SpawnOf(c)'
    <2>1. helper[c].up = "spawned" => cl[c].primary \in Name
      BY <1>0 DEF Good, SpawnOf
    <2>2. helper[c].up = "spawned" /\ cl[c].primary \notin lapse =>
             \/ cl[c].pc \in {"bind", "network"}
             \/ cl[c].pc \in {"rollback", "close"} /\ Added(c) = {}
      BY <1>0, <1>1 DEF Good, SpawnOf, Active
    <2>3. cl[c].pc \notin {"bind", "network", "close"}
      BY DEF MayCall, At
    <2>4. helper[c].up = "spawned" => cl[c].primary \in lapse
      <3>1. CASE At(c, "rollback")
        <4>1. Added(c) # {}
          BY <3>1 DEF MayCall, At
        <4> QED
          BY <2>2, <4>1, <3>1 DEF At
      <3>2. CASE ~At(c, "rollback")
        BY <2>2, <2>3, <3>2 DEF At
      <3> QED
        BY <3>1, <3>2
    <2> QED
      BY <1>2, <2>1, <2>4 DEF SpawnOf
  <1>6. FreshOf(c)'
    <2> SUFFICES ASSUME OwnsHelper(c), cl[c].primary \notin lapse,
                        cl[c].mark[cl[c].primary] = "missing"
                 PROVE  /\ \A m \in Name \ {cl[c].primary} : helper[c].mem[m] = "none"
                               /\ entry[m].sock # c
                        /\ Added(c) = {} /\ n = cl[c].primary
      BY <1>2 DEF FreshOf, At, OwnsHelper
    <2>1. cl[c].primary # None
      BY <1>0, <1>1 DEF Good, ShapeOf, Active, OwnsHelper
    <2> QED
      BY <1>0, <1>1, <2>1 DEF Good, FreshOf, MayCall, NamePc, UpPc, ShapeOf, At
  <1>7. OwnedOf(c)'
    BY <1>0, <1>1, <1>2 DEF Good, OwnedOf, Working, MayCall, At
  <1>8. Leaves(c)
    <2>1. ~(Bound(c) /\ cl[c].pc \in {"rollback", "close"} /\ Added(c) = {})
      BY DEF MayCall, At
    <2>2. \A m \in Name \ lapse' : Orphan(c, m) => Orphan(c, m)'
      BY <2>1, <1>2 DEF Orphan, Bound
    <2> QED
      BY <2>2 DEF Leaves, MayCall, At
  <1>9. \A m \in Name \ lapse' :
            Making(c, m) => Making(c, m)' \/ Whole(m) \/ ~entry[m].cfg
    BY DEF Making, MayCall, At
  <1> QED
    BY <1>0, <1>1, <1>2, <1>3, <1>4, <1>5, <1>6, <1>7, <1>8, <1>9, ClientOnly DEF Good

\* A client goes on after a stop.
Returns(c, ok) ==
    /\ cl' \in [Client -> ClientRec] /\ Others(c)
    /\ cl'[c].pc = IF cl[c].ret = "remove" /\ ~ok THEN "rm" ELSE cl[c].ret
    /\ cl'[c].todo \subseteq cl[c].todo
    /\ cl'[c].name = IF cl[c].ret \in {"rollback", "down"} THEN None ELSE cl[c].name
    /\ \A m \in Name : \/ cl'[c].mark[m] = cl[c].mark[m]
                       \/ m = cl[c].name /\ cl[c].ret = "rollback" /\ cl'[c].mark[m] = "no"
    /\ cl[c].ret = "rollback" /\ cl[c].name \in Name => cl'[c].mark[cl[c].name] = "no"
    /\ cl'[c].op = cl[c].op /\ cl'[c].names = cl[c].names /\ cl'[c].had = cl[c].had
    /\ cl'[c].primary = cl[c].primary /\ cl'[c].existing = cl[c].existing

\* What the return of control.Stop does to its caller's locals.
LEMMA DoStopReturn ==
  ASSUME TypeOK, NEW c \in Client, NEW ok \in BOOLEAN, StopReturn(c, ok), cl[c].ret # "err",
         cl[c].name \in Name
  PROVE  Returns(c, ok)
  <1> DEFINE n == cl[c].name
             pc == IF cl[c].ret = "remove" /\ ~ok THEN "rm" ELSE cl[c].ret
             todo == IF cl[c].ret = "down" \/ (cl[c].ret = "remove" /\ ~ok)
                     THEN cl[c].todo \ {n} ELSE cl[c].todo
             name == IF cl[c].ret \in {"rollback", "down"} THEN None ELSE cl[c].name
             mark == [cl[c].mark EXCEPT ![n] = IF cl[c].ret = "rollback" THEN "no" ELSE @]
  <1>1. pc \in Pc /\ todo \in SUBSET Name /\ name \in Name \cup {None} /\ mark \in [Name -> Mark]
    BY Fields DEF Pc, Mark
  <1>2. cl' = [cl EXCEPT ![c].pc = pc, ![c].todo = todo, ![c].ret = "idle", ![c].name = name,
                         ![c].mark = mark]
    <2>1. cl[c] \in ClientRec
      BY Fields
    <2> QED
      BY <2>1 DEF StopReturn, TypeOK, ClientRec
  <1>3. /\ \A m \in Name : \/ mark[m] = cl[c].mark[m]
                           \/ m = cl[c].name /\ cl[c].ret = "rollback" /\ mark[m] = "no"
        /\ cl[c].ret = "rollback" => mark[cl[c].name] = "no"
        /\ todo \subseteq cl[c].todo
    BY Fields
  <1> HIDE DEF pc, todo, mark, name
  <1>4. Becomes(c, pc, todo, mark, name, cl[c].existing, cl[c].primary, cl[c].via, "idle")
    BY <1>1, <1>2, DoReturn
  <1>5. /\ cl' \in [Client -> ClientRec] /\ Others(c) /\ cl'[c].pc = pc
        /\ cl'[c].todo = todo /\ cl'[c].name = name /\ cl'[c].mark = mark
        /\ cl'[c].op = cl[c].op /\ cl'[c].names = cl[c].names /\ cl'[c].had = cl[c].had
        /\ cl'[c].primary = cl[c].primary /\ cl'[c].existing = cl[c].existing
    BY <1>4 DEF Becomes, Others
  <1> QED
    BY <1>3, <1>5 DEF Returns, pc, name

\* A return of control.Stop keeps the locals in shape.
LEMMA ReturnShape ==
  ASSUME TypeOK, NEW c \in Client, NEW ok \in BOOLEAN, ShapeOf(c), cl[c].pc \in StopPc,
         cl[c].ret # "err", Returns(c, ok), helper' = helper
  PROVE  ShapeOf(c)' /\ Active(c) /\ Active(c)' /\ cl[c].name \in cl[c].names
         /\ cl'[c].pc \in {"delete", "rollback", "destroy", "down", "remove", "rm"}
         /\ Added(c)' \subseteq Added(c)
  <1>1. /\ Active(c) /\ cl[c].name \in cl[c].names
        /\ cl[c].ret \in {"delete", "rollback", "destroy", "down", "remove"}
    BY DEF Active, Ended, ShapeOf, NamePc, StopPc, At
  <1>2. cl'[c].pc \in {"delete", "rollback", "destroy", "down", "remove", "rm"} /\ Active(c)'
    BY <1>1 DEF Returns, Active, Ended
  <1>3. Added(c)' \subseteq Added(c)
    BY DEF Added, Marked, Returns
  <1>4. /\ cl[c].todo \subseteq cl[c].names
        /\ \A m \in Name : cl[c].mark[m] # "no" => m \in cl[c].names
        /\ cl[c].primary # None => cl[c].primary \in cl[c].names
        /\ cl[c].primary = None => Added(c) = {} /\ helper[c].up = "none"
        /\ cl[c].ret = "delete" => cl[c].mark[cl[c].name] = "missing"
        /\ cl[c].ret = "remove" => cl[c].op = "rm"
        /\ cl[c].ret \in {"down", "remove"} => cl[c].primary = None
    BY <1>1 DEF ShapeOf, Active
  <1>5. /\ \A m \in Name : cl'[c].mark[m] # "no" => m \in cl'[c].names
        /\ cl'[c].todo \subseteq cl'[c].names
        /\ cl'[c].pc = "delete" => cl'[c].mark[cl'[c].name] = "missing"
        /\ cl'[c].pc \in {"down", "remove", "rm"} => cl'[c].primary = None
        /\ cl'[c].pc \in {"remove", "rm"} => cl'[c].op = "rm"
        /\ cl'[c].pc \in NamePc => cl'[c].name \in cl'[c].names
    <2>1. cl[c].names \subseteq Name
      BY Fields
    <2> QED
      BY <1>1, <1>4, <2>1 DEF Returns, NamePc, UpPc, StopPc
  <1>6. /\ cl'[c].primary # None => cl'[c].primary \in cl'[c].names
        /\ cl'[c].primary = None => Added(c)' = {} /\ helper'[c].up = "none"
    BY <1>3, <1>4 DEF Returns
  <1> QED
    BY <1>1, <1>2, <1>3, <1>5, <1>6 DEF ShapeOf, At, NamePc, UpPc, StopPc

\* A stop that returns: the member is down, or is left running and the name lapses
\* where the caller does not mind.
LEMMA ReturnKeeps ==
  ASSUME Inv, NEW c \in Client, NEW ok \in BOOLEAN, cl[c].pc \in StopPc, cl[c].ret # "err",
         Returns(c, ok), UNCHANGED <<entry, helper>>,
         lapse' = IF ~ok /\ cl[c].ret \in {"destroy",
             "delete"} THEN lapse \cup {cl[c].name} ELSE lapse,
         ~IsRunning(cl[c].name) \/ (~ok /\ At(c, "stopPoll"))
  PROVE  Inv'
  <1>0. TypeOK /\ Good(c)
    BY DEF Inv
  <1>1. /\ ShapeOf(c)' /\ Active(c) /\ Active(c)' /\ cl[c].name \in cl[c].names
        /\ cl'[c].pc \in {"delete", "rollback", "destroy", "down", "remove", "rm"}
        /\ Added(c)' \subseteq Added(c)
    BY <1>0, ReturnShape DEF Good
  <1>2. cl[c].name \in Name
    BY <1>0, <1>1, Fields
  <1>3. TypeOK' /\ Others(c) /\ lapse \subseteq lapse'
    BY <1>0, <1>2 DEF Returns, TypeOK, Others
  <1>4. Turn'
    <2>1. Calm(c)
      BY <1>1 DEF Calm, Working, Returns
    <2> QED
      BY <2>1, <1>3, TurnStays DEF Inv
  <1>5. FilesOf(c)'
    BY <1>1 DEF FilesOf, At
  <1>6. MissOf(c)'
    <2> SUFFICES ASSUME NEW n \in Name \ lapse', cl'[c].pc \in {"delete", "destroy", "remove"},
                        cl'[c].name = n
                 PROVE  ~IsRunning(n)'
      BY <1>1 DEF MissOf, At, UpPc
    <2>1. cl[c].name = n /\ ok
      BY Apart DEF Returns
    <2>2. ~IsRunning(n)
      BY <2>1
    <2> QED
      BY <2>2 DEF IsRunning, Up
  <1>7. SpawnOf(c)'
    <2>1. helper[c].up = "spawned" => cl[c].primary \in Name /\ cl[c].primary \in lapse
      BY <1>0, <1>1 DEF Good, SpawnOf, Active, StopPc
    <2> QED
      BY <2>1, <1>3 DEF SpawnOf, Returns
  <1>8. FreshOf(c)'
    <2> SUFFICES ASSUME OwnsHelper(c), cl[c].primary \notin lapse,
                        cl'[c].mark[cl[c].primary] = "missing"
                 PROVE  /\ \A m \in Name \ {cl[c].primary} : helper[c].mem[m] = "none"
                               /\ entry[m].sock # c
                        /\ Added(c)' = {} /\ (cl'[c].pc \in NamePc => cl'[c].name = cl[c].primary)
      BY <1>1, <1>3 DEF FreshOf, At, OwnsHelper, Returns
    <2>1. cl[c].primary \in Name
      BY <1>0, <1>1, Fields DEF Good, ShapeOf, Active, OwnsHelper
    <2>2. cl[c].mark[cl[c].primary] = "missing"
      BY <2>1 DEF Returns
    <2>3. /\ \A m \in Name \ {cl[c].primary} : helper[c].mem[m] = "none" /\ entry[m].sock # c
          /\ Added(c) = {} /\ cl[c].name = cl[c].primary
      BY <1>0, <1>1, <2>2 DEF Good, FreshOf, NamePc
    <2> QED
      BY <1>1, <2>3 DEF Returns, NamePc, UpPc, StopPc
  <1>9. OwnedOf(c)'
    <2> SUFFICES ASSUME NEW n \in Name \ lapse', cl[c].op = "up", Working(c, n),
                        helper[c].mem[n] \in {"booting", "running"}
                 PROVE  /\ cl'[c].mark[n] \in {"old", "new"}
                        /\ ~(cl'[c].pc \in {"stopPoll", "destroy"} /\ cl'[c].name = n)
      BY <1>1 DEF OwnedOf, Returns, Working
    <2>1. \/ /\ cl[c].mark[n] \in {"old", "new"}
             /\ ~(cl[c].pc \in {"stopPoll", "destroy"} /\ cl[c].name = n)
          \/ cl[c].pc \in {"wait", "stopCheck", "stopSend"} /\ cl[c].name = n
      BY <1>0, <1>3 DEF Good, OwnedOf
    <2>2. cl[c].name # n
      <3> SUFFICES ASSUME cl[c].name = n PROVE FALSE
        OBVIOUS
      <3>1. cl[c].pc # "stopPoll"
        BY <2>1
      <3>2. ~IsRunning(n)
        BY <3>1 DEF At
      <3>3. LeadsTo(n, c) \/ Orphan(c, n)
        BY <1>3 DEF Inv, Registration, Traced
      <3>4. LeadsTo(n, c)
        BY <3>3 DEF Orphan
      <3>5. helper[c].up = "up"
        BY DEF Inv, HelpersInv
      <3> QED
        BY <3>2, <3>4, <3>5, Apart DEF LeadsTo, IsRunning, Up
    <2> QED
      BY <2>1, <2>2, Apart DEF Returns, StopPc
  <1>10. Leaves(c)
    <2>1. \A m \in Name \ lapse' : Orphan(c, m) => Orphan(c, m)'
      <3>1. ASSUME NEW m \in Name \ lapse', Orphan(c, m) PROVE ~Bound(c)
        BY <3>1 DEF Orphan, StopPc
      <3>2. Bound(c)' <=> Bound(c)
        BY DEF Bound, Returns
      <3> QED
        BY <1>3, <3>1, <3>2 DEF Orphan
    <2> QED
      BY <2>1 DEF Leaves, At, StopPc
  <1>11. \A m \in Name \ lapse' :
            Making(c, m) => Making(c, m)' \/ Whole(m) \/ ~entry[m].cfg
    BY DEF Making, StopPc
  <1>12. cl'[c].op = cl[c].op
    BY DEF Returns
  <1> QED
    BY <1>0, <1>1, <1>3, <1>4, <1>5, <1>6, <1>7, <1>8, <1>9, <1>10, <1>11, <1>12, ClientOnly
    DEF Good

\* Nothing is said of a client's helper before it is spawned.
LEMMA NoHelper ==
  ASSUME Inv, NEW c \in Client, helper[c].up = "none", helper' = helper
  PROVE  SpawnOf(c)' /\ FreshOf(c)' /\ OwnedOf(c)' /\ \A n \in Name : ~Orphan(c, n)
  <1>1. \A n \in Name : helper[c].mem[n] = "none"
    BY DEF Inv, HelpersInv
  <1> QED
    BY <1>1 DEF SpawnOf, FreshOf, OwnedOf, OwnsHelper, Orphan

Begins(c, op, ns, marks, pc) ==
    /\ cl' \in [Client -> ClientRec] /\ Others(c)
    /\ cl'[c].pc = pc /\ cl'[c].op = op /\ cl'[c].names = ns /\ cl'[c].todo = ns
    /\ cl'[c].mark = [n \in Name |-> IF n \in ns THEN marks ELSE "no"]
    /\ cl'[c].name = cl[c].name /\ cl'[c].primary = cl[c].primary
    /\ cl'[c].had = [n \in Name |-> IF op = "up" /\ entry[n].cfg THEN entry[n].disk ELSE None]

\* A command starts with the names it was given.
LEMMA DoBegin ==
  ASSUME TypeOK, NEW c \in Client, NEW op \in Op, NEW ns \in SUBSET Name, NEW marks \in Mark,
         NEW pc \in Pc, Begin(c, op, ns, marks, pc)
  PROVE  Begins(c, op, ns, marks, pc)
  <1> DEFINE mark == [n \in Name |-> IF n \in ns THEN marks ELSE "no"]
             had == [n \in Name |-> IF op = "up" /\ entry[n].cfg THEN entry[n].disk ELSE None]
             r == [cl[c] EXCEPT !.pc = pc, !.op = op, !.names = ns, !.todo = ns, !.mark = mark,
                                !.had = had]
  <1>1. cl' = [cl EXCEPT ![c] = r]
    BY DEF Begin
  <1>2. mark \in [Name -> Mark]
    BY DEF Mark
  <1>3. had \in [Name -> Disk \cup {None}]
    BY DEF TypeOK, Entry
  <1> HIDE DEF mark, had
  <1>4. cl[c] \in ClientRec
    BY Fields
  <1>5. r \in ClientRec
    BY <1>2, <1>3, <1>4 DEF ClientRec
  <1>6. r.pc = pc /\ r.op = op /\ r.names = ns /\ r.todo = ns /\ r.mark = mark /\ r.had = had
        /\ r.name = cl[c].name /\ r.primary = cl[c].primary
    BY <1>4 DEF ClientRec
  <1> HIDE DEF r
  <1> QED
    BY <1>1, <1>5, <1>6, PutClient DEF Begins, Others, mark, had

\* A command that begins keeps the invariant: another one at a name ends the turns there.
LEMMA BeginKeeps ==
  ASSUME Inv, NEW c \in Client, NEW op, NEW ns \in SUBSET Name, NEW marks, NEW pc,
         <<op, marks, pc>> \in {<<"up", "no", "look">>, <<"lib", "missing", "next">>,
                                <<"down", "no", "down">>, <<"rm", "no", "rm">>},
         At(c, "idle"), Begin(c, op, ns, marks, pc)
  PROVE  Inv'
  <1>0. TypeOK /\ Good(c)
    BY DEF Inv
  <1>1. \/ op = "up" /\ marks = "no" /\ pc = "look"
        \/ op = "lib" /\ marks = "missing" /\ pc = "next"
        \/ op = "down" /\ marks = "no" /\ pc = "down"
        \/ op = "rm" /\ marks = "no" /\ pc = "rm"
    OBVIOUS
  <1>2. op \in Op /\ marks \in Mark /\ pc \in Pc
    BY <1>1 DEF Op, Mark, Pc
  <1>3. Begins(c, op, ns, marks, pc)
    BY <1>0, <1>2, DoBegin
  <1>4. /\ At(c, "idle") /\ UNCHANGED <<entry, helper>>
        /\ lapse' = lapse \cup {n \in ns : Busy(n)}
        /\ op = "lib" => \A n \in ns : ~IsRunning(n)
    BY DEF Begin
  <1>5. /\ ~Active(c) /\ cl[c].name = None /\ cl[c].primary = None /\ helper[c].up = "none"
    BY <1>0, <1>4 DEF Good, ShapeOf, Active, At, Ended
  <1>6. /\ cl'[c].pc = pc /\ cl'[c].op = op /\ cl'[c].names = ns /\ cl'[c].todo = ns
        /\ \A n \in Name : cl'[c].mark[n] = IF n \in ns THEN marks ELSE "no"
        /\ cl'[c].name = None /\ cl'[c].primary = None
        /\ TypeOK' /\ Others(c) /\ lapse \subseteq lapse'
    BY <1>0, <1>3, <1>4, <1>5 DEF Begins, TypeOK
  <1>7. ShapeOf(c)'
    <2>1. Added(c)' = {}
      BY <1>1, <1>6 DEF Added, Marked
    <2>2. Active(c)' /\ helper'[c].up = "none"
      BY <1>1, <1>4, <1>5, <1>6 DEF Active, Ended, At
    <2> QED
      BY <1>1, <1>6, <2>1, <2>2 DEF ShapeOf, At, NamePc, UpPc, StopPc
  <1>8. Turn'
    <2> SUFFICES ASSUME NEW n \in Name \ lapse', NEW d \in Client, NEW e \in Client,
                        Working(d, n)', Working(e, n)'
                 PROVE  d = e
      BY DEF Turn
    <2>1. \A x \in Client \ {c} : Working(x, n)' => Working(x, n)
      BY <1>6 DEF Others, Working, Active, Ended, At
    <2>2. \A x \in Client : Working(x, n) => n \notin ns
      BY <1>4 DEF Busy, Working
    <2>3. Working(c, n)' => n \in ns
      BY <1>6 DEF Working
    <2> QED
      BY <2>1, <2>2, <2>3, <1>4 DEF Inv, Turn
  <1>9. FilesOf(c)'
    BY <1>6, Apart DEF FilesOf
  <1>10. MissOf(c)'
    <2>1. \A n \in Name : IsRunning(n)' <=> IsRunning(n)
      BY <1>4 DEF IsRunning, Up
    <2> QED
      BY <1>1, <1>4, <1>6, <2>1 DEF MissOf, At
  <1>11. SpawnOf(c)' /\ FreshOf(c)' /\ OwnedOf(c)' /\ \A n \in Name : ~Orphan(c, n)
    BY <1>4, <1>5, NoHelper
  <1>12. Leaves(c)
    BY <1>4, <1>11 DEF Leaves, At
  <1>13. \A n \in Name \ lapse' :
            Making(c, n) => Making(c, n)' \/ Whole(n) \/ ~entry[n].cfg
    BY <1>4 DEF Making, At
  <1> QED
    BY <1>0, <1>4, <1>6, <1>7, <1>8, <1>9, <1>10, <1>11, <1>12, <1>13, ClientOnly DEF Good

\* Whether the targets are taken by name or by cluster.
LEMMA TargetNames == \A p : Targets(p) \subseteq Name
  BY DEF Targets, Listed

\* A client begins a command.
LEMMA CommandKeeps ==
  ASSUME Inv, NEW c \in Client, Command(c)
  PROVE  Inv'
  <1>0. At(c, "idle")
    BY DEF Command
  <1>1. ASSUME NEW ns \in SUBSET Name, RunUp(c, ns) PROVE Inv'
    BY <1>0, <1>1, BeginKeeps DEF RunUp
  <1>2. ASSUME NEW ns \in SUBSET Name, StartCluster(c, ns) PROVE Inv'
    BY <1>0, <1>2, BeginKeeps DEF StartCluster
  <1>3. ASSUME NEW p, RunDown(c, p) PROVE Inv'
    BY <1>0, <1>3, BeginKeeps, TargetNames DEF RunDown
  <1>4. ASSUME NEW p, RunRm(c, p) PROVE Inv'
    BY <1>0, <1>4, BeginKeeps, TargetNames DEF RunRm
  <1> QED
    BY <1>1, <1>2, <1>3, <1>4 DEF Command

-----------------------------------------------------------------------------
(* The actions of a client that leave store and helpers alone              *)

\* upMembers reads a pidfile.
LEMMA UpLookKeeps ==
  ASSUME Inv, NEW c \in Client, NEW n \in Name, UpLook(c, n)
  PROVE  Inv'
  <1>0. TypeOK /\ Good(c) /\ UNCHANGED <<entry, helper, lapse>> /\ At(c, "look") /\ n \in cl[c].todo
    BY DEF Inv, UpLook
  <1> DEFINE todo == cl[c].todo \ {n}
             mark == [cl[c].mark EXCEPT ![n] = IF IsRunning(n) THEN "running" ELSE "missing"]
  <1>1. todo \in SUBSET Name /\ mark \in [Name -> Mark]
    BY <1>0, Fields DEF Mark
  <1>2. cl' = [cl EXCEPT ![c].todo = todo, ![c].mark = mark]
    BY <1>0, Fields DEF UpLook, TypeOK, ClientRec
  <1>3. \A m \in Name : mark[m] = IF m = n THEN (IF IsRunning(n) THEN "running" ELSE "missing")
                                  ELSE cl[c].mark[m]
    BY <1>0, Fields
  <1>4. todo \subseteq cl[c].todo
    OBVIOUS
  <1> HIDE DEF todo, mark
  <1>5. Becomes(c, cl[c].pc, todo, mark, cl[c].name, cl[c].existing, cl[c].primary, cl[c].via,
            cl[c].ret)
    BY <1>0, <1>1, <1>2, DoLook
  <1>6. /\ TypeOK' /\ Others(c) /\ cl'[c].pc = "look" /\ cl'[c].todo = todo /\ cl'[c].mark = mark
        /\ cl'[c].name = cl[c].name /\ cl'[c].primary = cl[c].primary /\ cl'[c].op = cl[c].op
        /\ cl'[c].names = cl[c].names
    BY <1>0, <1>5 DEF Becomes, Others, TypeOK, At
  <1>7. /\ Active(c) /\ Active(c)' /\ cl[c].primary = None /\ helper[c].up = "none"
        /\ Added(c) = {} /\ cl[c].todo \subseteq cl[c].names
        /\ \A m \in Name : cl[c].mark[m] # "no" => m \in cl[c].names
    BY <1>0, <1>6 DEF Active, Ended, At, Good, ShapeOf
  <1>8. ShapeOf(c)'
    <2>1. Added(c)' = {}
      BY <1>3, <1>6, <1>7 DEF Added, Marked
    <2> QED
      BY <1>0, <1>3, <1>4, <1>6, <1>7, <2>1 DEF ShapeOf, At, NamePc, UpPc, StopPc
  <1>9. Turn'
    <2>1. Calm(c)
      BY <1>6, <1>7 DEF Calm, Working
    <2> QED
      BY <2>1, <1>0, <1>6, TurnStays DEF Inv
  <1>10. FilesOf(c)'
    BY <1>6 DEF FilesOf, At
  <1>11. MissOf(c)'
    <2>1. \A m \in Name : (IsRunning(m)' <=> IsRunning(m)) /\ ~Own(c, m)
      BY <1>0, <1>7, Apart DEF IsRunning, Up, Own
    <2> QED
      BY <1>0, <1>3, <1>6, <2>1 DEF MissOf, At, Good, UpPc
  <1>12. SpawnOf(c)' /\ FreshOf(c)' /\ OwnedOf(c)' /\ \A m \in Name : ~Orphan(c, m)
    BY <1>0, <1>7, NoHelper
  <1>13. Leaves(c)
    BY <1>0, <1>12 DEF Leaves, At
  <1>14. \A m \in Name \ lapse' :
            Making(c, m) => Making(c, m)' \/ Whole(m) \/ ~entry[m].cfg
    BY <1>0 DEF Making, At
  <1> QED
    BY <1>0, <1>6, <1>8, <1>9, <1>10, <1>11, <1>12, <1>13, <1>14, ClientOnly DEF Good

\* An up that found members to boot, with or without a helper to join.
LEMMA DecideKeeps ==
  ASSUME Inv, NEW c \in Client, At(c, "look"), NEW s \in Marked(c, "running") \cup {None},
         Becomes(c, "next", Marked(c, "missing"), cl[c].mark, cl[c].name, cl[c].existing, s,
                 cl[c].via, cl[c].ret),
         UNCHANGED <<entry, helper, lapse>>
  PROVE  Inv'
  <1>0. TypeOK /\ Good(c)
    BY DEF Inv
  <1>1. /\ TypeOK' /\ Others(c) /\ cl'[c].pc = "next" /\ cl'[c].todo = Marked(c, "missing")
        /\ cl'[c].mark = cl[c].mark /\ cl'[c].primary = s /\ cl'[c].op = cl[c].op
        /\ cl'[c].name = cl[c].name /\ cl'[c].names = cl[c].names
    BY <1>0 DEF Becomes, Others, TypeOK
  <1>2. /\ Active(c) /\ Active(c)' /\ cl[c].primary = None /\ helper[c].up = "none"
        /\ Added(c) = {} /\ Added(c)' = {}
        /\ \A m \in Name : cl[c].mark[m] # "no" => m \in cl[c].names
    BY <1>0, <1>1 DEF Active, Ended, At, Good, ShapeOf, Added, Marked
  <1>3. ShapeOf(c)'
    <2>1. s # None => s \in cl[c].names
      BY <1>2 DEF Marked
    <2>2. \A n \in Marked(c, "missing") : cl[c].mark[n] = "missing" /\ n \in cl[c].names
      BY <1>2 DEF Marked
    <2> QED
      BY <1>0, <1>1, <1>2, <2>1, <2>2 DEF ShapeOf, At, NamePc, UpPc, StopPc
  <1>4. Turn'
    <2>1. Calm(c)
      BY <1>1, <1>2 DEF Calm, Working
    <2> QED
      BY <2>1, <1>1, TurnStays DEF Inv
  <1>5. FilesOf(c)'
    BY <1>1 DEF FilesOf, At
  <1>6. MissOf(c)'
    <2>1. \A m \in Name : (IsRunning(m)' <=> IsRunning(m)) /\ ~Own(c, m)
      BY <1>0, <1>2, Apart DEF IsRunning, Up, Own
    <2> QED
      BY <1>0, <1>1, <2>1 DEF MissOf, At, Good, UpPc
  <1>7. SpawnOf(c)' /\ FreshOf(c)' /\ OwnedOf(c)' /\ \A m \in Name : ~Orphan(c, m)
    BY <1>2, NoHelper
  <1>8. Leaves(c)
    BY <1>7 DEF Leaves, At
  <1>9. \A m \in Name \ lapse' :
            Making(c, m) => Making(c, m)' \/ Whole(m) \/ ~entry[m].cfg
    BY DEF Making, At
  <1> QED
    BY <1>0, <1>1, <1>3, <1>4, <1>5, <1>6, <1>7, <1>8, <1>9, ClientOnly DEF Good

\* upMembers has read them all.
LEMMA UpDecideKeeps ==
  ASSUME Inv, NEW c \in Client, UpDecide(c)
  PROVE  Inv'
  <1>0. TypeOK /\ Good(c) /\ UNCHANGED <<entry, helper, lapse>> /\ At(c, "look") /\ Active(c)
        /\ cl[c].primary = None /\ Marked(c, "missing") \in SUBSET Name
    BY Zenon DEF Inv, UpDecide, At, Active, Ended, Good, ShapeOf, Marked
  <1>1. MayEnd(c)
    BY <1>0 DEF MayEnd, At
  <1>2. CASE Goto(c, "ok") \/ Goto(c, "err")
    <2>1. PICK q \in {"ok", "err"} : Goto(c, q)
      BY <1>2
    <2> QED
      BY <1>0, <1>1, <2>1, DoEnd, EndKeeps DEF TypeOK
  <1>3. CASE cl' = [cl EXCEPT ![c].pc = "next", ![c].todo = Marked(c, "missing")]
    <2>1. Becomes(c, "next", Marked(c, "missing"), cl[c].mark, cl[c].name, cl[c].existing,
                  cl[c].primary, cl[c].via, cl[c].ret)
      BY <1>0, <1>3, DoTodo DEF Pc
    <2> QED
      BY <1>0, <2>1, DecideKeeps
  <1>4. ASSUME NEW s \in Marked(c, "running"),
               cl' = [cl EXCEPT ![c].pc = "next", ![c].todo = Marked(c, "missing"),
                   ![c].primary = s]
        PROVE  Inv'
    <2>1. s \in Name
      BY DEF Marked
    <2>2. Becomes(c, "next", Marked(c, "missing"), cl[c].mark, cl[c].name, cl[c].existing,
                  s, cl[c].via, cl[c].ret)
      BY <1>0, <1>4, <2>1, DoPrimary
    <2> QED
      BY <1>0, <2>2, DecideKeeps
  <1> QED
    BY <1>2, <1>3, <1>4 DEF UpDecide

\* Where a failed step leaves a command.
LEMMA UnwindKeeps ==
  ASSUME Inv, NEW c \in Client, Goto(c, Unwind(c)), UNCHANGED <<entry, helper, lapse>>,
         \/ At(c, "network")
         \/ At(c, "load")
         \/ At(c, "seed") /\ cl[c].existing
  PROVE  Inv'
  <1>0. TypeOK /\ Active(c)
    BY DEF Inv, At, Active, Ended
  <1>1. CASE Unwind(c) = "rollback"
    <2>1. Moves(c, "rollback")
      BY <1>0, <1>1, DoGoto DEF Pc
    <2> QED
      BY <2>1, OnwardKeeps DEF Onward
  <1>2. CASE Unwind(c) = "err"
    <2>1. helper[c].up = "none"
      BY <1>2 DEF Unwind, OwnsHelper
    <2>2. Ends(c, "err") /\ MayEnd(c)
      BY <1>0, <1>2, <2>1, DoEnd DEF MayEnd, At
    <2> QED
      BY <1>0, <2>2, EndKeeps DEF TypeOK
  <1> QED
    BY <1>1, <1>2 DEF Unwind

\* A member whose helper there is.
LEMMA JoinKeeps ==
  ASSUME Inv, NEW c \in Client, NEW n \in cl[c].todo, At(c, "next"), cl[c].primary # None,
         NEW pc \in {"load", "network"}, cl' = [cl EXCEPT ![c].pc = pc, ![c].name = n],
         UNCHANGED <<entry, helper, lapse>>
  PROVE  Inv'
  <1>0. TypeOK /\ Good(c) /\ n \in Name /\ Active(c)
    BY Fields DEF Inv, At, Active, Ended
  <1>1. Becomes(c, pc, cl[c].todo, cl[c].mark, n, cl[c].existing, cl[c].primary, cl[c].via,
            cl[c].ret)
    BY <1>0, DoName DEF Pc
  <1>2. /\ TypeOK' /\ Others(c) /\ cl'[c].pc = pc /\ cl'[c].todo = cl[c].todo
        /\ cl'[c].mark = cl[c].mark /\ cl'[c].primary = cl[c].primary /\ cl'[c].op = cl[c].op
        /\ cl'[c].name = n /\ cl'[c].names = cl[c].names /\ Active(c)' /\ Added(c)' = Added(c)
    BY <1>0, <1>1 DEF Becomes, Others, TypeOK, Active, Ended, At, Added, Marked
  <1>3. ShapeOf(c)'
    <2>1. /\ cl[c].todo \subseteq cl[c].names
          /\ \A m \in Name : cl[c].mark[m] # "no" => m \in cl[c].names
          /\ cl[c].primary \in cl[c].names
          /\ \A m \in cl[c].todo : cl[c].mark[m] = "missing"
      BY <1>0 DEF Good, ShapeOf, At, UpPc
    <2> QED
      BY <1>2, <2>1 DEF ShapeOf, At, NamePc, UpPc, StopPc
  <1>4. Turn'
    <2>1. Calm(c)
      BY <1>0, <1>2 DEF Calm, Working
    <2> QED
      BY <2>1, <1>2, TurnStays DEF Inv
  <1>5. FilesOf(c)'
    BY <1>2 DEF FilesOf, At
  <1>6. MissOf(c)'
    <2>1. \A m \in Name : (IsRunning(m)' <=> IsRunning(m)) /\ (Own(c, m)' <=> Own(c, m))
      BY <1>2 DEF IsRunning, Up, Own
    <2> QED
      BY <1>0, <1>2, <2>1 DEF MissOf, At, Good, UpPc
  <1>7. SpawnOf(c)'
    BY <1>0, <1>2 DEF Good, SpawnOf, At, Active
  <1>8. FreshOf(c)'
    BY <1>0, <1>2 DEF Good, FreshOf, At, OwnsHelper
  <1>9. OwnedOf(c)'
    BY <1>0, <1>2 DEF Good, OwnedOf, At, Working
  <1>10. Leaves(c)
    <2>1. \A m \in Name \ lapse' : Orphan(c, m) => Orphan(c, m)'
      BY <1>2 DEF Orphan, Bound, At
    <2> QED
      BY <2>1 DEF Leaves, At
  <1>11. \A m \in Name \ lapse' :
            Making(c, m) => Making(c, m)' \/ Whole(m) \/ ~entry[m].cfg
    BY DEF Making, At
  <1> QED
    BY <1>0, <1>2, <1>3, <1>4, <1>5, <1>6, <1>7, <1>8, <1>9, <1>10, <1>11, ClientOnly DEF Good

\* The last member of the command is up.
LEMMA AllAddedKeeps ==
  ASSUME Inv, NEW c \in Client, AllAdded(c)
  PROVE  Inv'
  <1>0. TypeOK /\ Active(c) /\ At(c, "next") /\ UNCHANGED <<entry, helper, lapse>>
    BY DEF Inv, AllAdded, At, Active, Ended
  <1>1. CASE cl[c].op = "lib"
    <2>1. Moves(c, "using")
      BY <1>0, <1>1, DoGoto DEF AllAdded, Pc
    <2> QED
      BY <1>0, <1>1, <2>1, OnwardKeeps DEF Onward
  <1>2. CASE cl[c].op # "lib"
    <2>1. Ends(c, "ok") /\ MayEnd(c)
      BY <1>0, <1>2, DoEnd DEF AllAdded, MayEnd, At
    <2> QED
      BY <1>0, <2>1, EndKeeps DEF TypeOK
  <1> QED
    BY <1>1, <1>2

\* A helper that is not up yet answers nobody.
LEMMA NotYet ==
  ASSUME Inv, NEW c \in Client, At(c, "network"), Answers(c), helper[c].up = "spawned",
         cl[c].primary \notin lapse
  PROVE  FALSE
  <1>0. TypeOK /\ Good(c)
    BY DEF Inv
  <1> DEFINE p == cl[c].primary
  <1>1. p \in Name /\ cl[c].name = p /\ cl[c].mark[p] = "missing"
    BY <1>0 DEF Good, SpawnOf, ShapeOf, At, UpPc, Ended
  <1>2. IsRunning(p)
    BY <1>1 DEF Answers, Listening, IsRunning, Inv, HelpersInv
  <1>3. Own(c, p)
    BY <1>0, <1>1, <1>2 DEF Good, MissOf, At, UpPc
  <1> QED
    BY <1>1, <1>3 DEF Own, Inv, HelpersInv

\* What dialBind came to is seen by nobody but the helper at its end.
LEMMA DoBind ==
  ASSUME TypeOK, NEW c \in Client, Bind(c)
  PROVE  Moves(c, "network")
  <1>1. PICK held \in BOOLEAN : cl' = [cl EXCEPT ![c].pc = "network", ![c].bind = held]
    BY DEF Bind
  <1> DEFINE r == [cl[c] EXCEPT !.pc = "network", !.bind = held]
  <1>2. cl' = [cl EXCEPT ![c] = r]
    BY <1>1, Fields DEF TypeOK
  <1>3. cl[c] \in ClientRec
    BY Fields
  <1>4. r \in ClientRec
    BY <1>3 DEF ClientRec, Pc
  <1>5. r.op = cl[c].op /\ r.names = cl[c].names /\ r.had = cl[c].had
        /\ r.pc = "network" /\ r.todo = cl[c].todo /\ r.mark = cl[c].mark /\ r.name = cl[c].name
               /\ r.existing = cl[c].existing /\ r.primary = cl[c].primary /\ r.via = cl[c].via
                      /\ r.ret = cl[c].ret
    BY <1>3 DEF ClientRec
  <1> HIDE DEF r
  <1> QED
    BY <1>2, <1>4, <1>5, PutClient, Zenon DEF Becomes, Moves

\* The bind of a library's helper.
LEMMA BindKeeps ==
  ASSUME Inv, NEW c \in Client, Bind(c)
  PROVE  Inv'
  <1>1. TypeOK /\ At(c, "bind") /\ UNCHANGED <<entry, helper, lapse>>
    BY DEF Inv, Bind
  <1>2. Moves(c, "network")
    BY <1>1, DoBind
  <1> QED
    BY <1>1, <1>2, OnwardKeeps DEF Onward

\* The createnetwork request.
LEMMA CreateNetworkKeeps ==
  ASSUME Inv, NEW c \in Client, CreateNetwork(c)
  PROVE  Inv'
  <1>0. TypeOK /\ Good(c) /\ At(c, "network") /\ UNCHANGED <<entry, helper, lapse>> /\ Active(c)
    BY DEF Inv, CreateNetwork, At, Active, Ended
  <1>2. CASE Answers(c) /\ Goto(c, "load")
    <2>1. helper[c].up = "spawned" => cl[c].primary \in lapse
      BY <1>0, <1>2, NotYet
    <2>2. Moves(c, "load")
      BY <1>0, <1>2, DoGoto DEF Pc
    <2> QED
      BY <1>0, <2>1, <2>2, OnwardKeeps DEF Onward
  <1>3. CASE Goto(c, Unwind(c))
    BY <1>0, <1>3, UnwindKeeps
  <1> QED
    BY <1>2, <1>3 DEF CreateNetwork

\* The directory of a member is found, or is to be created.
Finds(c, e) == cl' = [cl EXCEPT ![c].pc = IF e THEN "seed" ELSE "create", ![c].existing = e]

\* A member found in the store, or to be created.
LEMMA ReservedKeeps ==
  ASSUME Inv, NEW c \in Client, At(c, "load"), UNCHANGED <<entry, helper, lapse>>,
         NEW e \in BOOLEAN, entry[cl[c].name].cfg = e, ~entry[cl[c].name].cut,
         Finds(c, e)
  PROVE  Inv'
  <1> DEFINE pc == IF e THEN "seed" ELSE "create"
  <1>0. TypeOK /\ Good(c) /\ Active(c) /\ pc \in {"seed", "create"}
    BY DEF Inv, At, Active, Ended
  <1>1. pc = "seed" <=> e
    OBVIOUS
  <1> HIDE DEF pc
  <1>2. Becomes(c, pc, cl[c].todo, cl[c].mark, cl[c].name, e, cl[c].primary, cl[c].via, cl[c].ret)
    BY <1>0, DoExisting DEF Pc, pc, Finds
  <1>3. /\ TypeOK' /\ Others(c) /\ cl'[c].pc = pc /\ cl'[c].todo = cl[c].todo
        /\ cl'[c].mark = cl[c].mark /\ cl'[c].primary = cl[c].primary /\ cl'[c].op = cl[c].op
        /\ cl'[c].name = cl[c].name /\ cl'[c].names = cl[c].names /\ Active(c)'
        /\ Added(c)' = Added(c) /\ cl'[c].existing = e
    BY <1>0, <1>2 DEF Becomes, Others, TypeOK, Active, Ended, At, Added, Marked
  <1>4. /\ cl[c].todo \subseteq cl[c].names
        /\ \A m \in Name : cl[c].mark[m] # "no" => m \in cl[c].names
        /\ cl[c].primary # None => cl[c].primary \in cl[c].names
        /\ \A m \in cl[c].todo : cl[c].mark[m] = "missing"
        /\ cl[c].name \in cl[c].names /\ cl[c].name \in cl[c].todo /\ cl[c].primary # None
    BY <1>0 DEF Good, ShapeOf, At, UpPc, NamePc, Active, Ended
  <1>5. ShapeOf(c)'
    BY <1>0, <1>1, <1>3, <1>4 DEF ShapeOf, At, NamePc, UpPc, StopPc
  <1>6. Turn'
    <2>1. Calm(c)
      BY <1>0, <1>3 DEF Calm, Working
    <2> QED
      BY <2>1, <1>3, TurnStays DEF Inv
  <1>7. FilesOf(c)'
    <2> SUFFICES ASSUME cl[c].name \in Name \ lapse, entry[cl[c].name].cfg
                 PROVE  Whole(cl[c].name)
      BY <1>0, <1>1, <1>3 DEF FilesOf, At, Whole
    <2>1. ASSUME NEW d \in Client, Making(d, cl[c].name) PROVE FALSE
      <3>1. Working(d, cl[c].name)
        BY <2>1 DEF Inv, Good, ShapeOf, Making, Working, NamePc, UpPc, Active, Ended, At
      <3>2. Working(c, cl[c].name)
        BY <1>0, <1>4 DEF Working
      <3>3. d = c
        BY <3>1, <3>2 DEF Inv, Turn
      <3> QED
        BY <2>1, <3>3 DEF Making, At
    <2> QED
      BY <2>1 DEF Inv, EntryComplete, Making, Whole
  <1>8. MissOf(c)'
    <2>1. \A m \in Name : (IsRunning(m)' <=> IsRunning(m)) /\ (Own(c, m)' <=> Own(c, m))
      BY <1>3 DEF IsRunning, Up, Own
    <2> QED
      BY <1>0, <1>3, <2>1 DEF MissOf, At, Good, UpPc
  <1>9. SpawnOf(c)'
    BY <1>0, <1>3 DEF Good, SpawnOf, At, Active
  <1>10. FreshOf(c)'
    <2> SUFFICES ASSUME OwnsHelper(c), cl[c].primary \notin lapse,
                        cl[c].mark[cl[c].primary] = "missing"
                 PROVE  /\ \A m \in Name \ {cl[c].primary} : helper[c].mem[m] = "none"
                               /\ entry[m].sock # c
                        /\ Added(c) = {} /\ cl[c].name = cl[c].primary
      BY <1>0, <1>3 DEF FreshOf, At, OwnsHelper
    <2> QED
      BY <1>0 DEF Good, FreshOf, At, NamePc, UpPc
  <1>11. OwnedOf(c)'
    BY <1>0, <1>3 DEF Good, OwnedOf, At, Working
  <1>12. Leaves(c)
    <2>1. \A m \in Name \ lapse' : Orphan(c, m) => Orphan(c, m)'
      BY <1>3 DEF Orphan, Bound, At
    <2> QED
      BY <2>1 DEF Leaves, At
  <1>13. \A m \in Name \ lapse' :
            Making(c, m) => Making(c, m)' \/ Whole(m) \/ ~entry[m].cfg
    BY DEF Making, At
  <1> QED
    BY <1>0, <1>3, <1>5, <1>6, <1>7, <1>8, <1>9, <1>10, <1>11, <1>12, <1>13, ClientOnly DEF Good

\* Exists, Load and the reservation.
LEMMA ReserveMemberKeeps ==
  ASSUME Inv, NEW c \in Client, ReserveMember(c)
  PROVE  Inv'
  <1>0. TypeOK /\ At(c, "load") /\ UNCHANGED <<entry, helper, lapse>> /\ cl[c].name \in Name
    BY Fields DEF Inv, Good, ShapeOf, ReserveMember, At, NamePc, UpPc
  <1>1. entry[cl[c].name].cfg \in BOOLEAN
    BY <1>0 DEF TypeOK, Entry
  <1>2. CASE Goto(c, Unwind(c))
    BY <1>0, <1>2, UnwindKeeps
  <1>3. CASE /\ ~entry[cl[c].name].cut
             /\ cl' = [cl EXCEPT ![c].pc = IF entry[cl[c].name].cfg THEN "seed" ELSE "create",
                                 ![c].existing = entry[cl[c].name].cfg]
    BY <1>0, <1>1, <1>3, ReservedKeeps DEF Finds
  <1> QED
    BY <1>2, <1>3 DEF ReserveMember

\* The stop of a member that failed to come up.
LEMMA StopFailedKeeps ==
  ASSUME Inv, NEW c \in Client, cl[c].pc \in {"boot", "wait"}, StopFailed(c),
         At(c, "wait") => helper[cl[c].via].mem[cl[c].name] # "booting",
         UNCHANGED <<entry, helper, lapse>>
  PROVE  Inv'
  <1>0. TypeOK /\ cl[c].name \in Name
    BY Fields DEF Inv, Good, ShapeOf, NamePc, UpPc
  <1>1. /\ Failed(c) \in {"delete", "rollback", "err"}
        /\ Failed(c) = "err" => helper[c].up = "none"
    BY DEF Failed, Unwind, OwnsHelper
  <1>2. Calls(c, cl[c].name, Failed(c))
    BY <1>0, <1>1, DoCall DEF StopFailed, Calls, Pc
  <1>3. MayCall(c, cl[c].name, Failed(c))
    BY <1>1 DEF MayCall, At
  <1> QED
    BY <1>0, <1>2, <1>3, CallKeeps

\* A member is done with.
ComesUp(c, n, k) ==
    cl' = [cl EXCEPT ![c].pc = "next", ![c].todo = @ \ {n}, ![c].name = None,
                     ![c].via = None, ![c].existing = FALSE, ![c].mark[n] = k]

\* A member that is up.
LEMMA MemberUpKeeps ==
  ASSUME Inv, NEW c \in Client, At(c, "wait"), UNCHANGED <<entry, helper, lapse>>,
         NEW n, cl[c].name = n, helper[cl[c].via].mem[n] = "running", NEW k \in {"old", "new"},
         ComesUp(c, n, k)
  PROVE  Inv'
  <1> DEFINE todo == cl[c].todo \ {n}
             mark == [cl[c].mark EXCEPT ![n] = k]
  <1>0. TypeOK /\ Good(c) /\ Active(c) /\ n \in Name
    BY Fields DEF Inv, Good, ShapeOf, NamePc, UpPc, At, Active, Ended
  <1>1. todo \in SUBSET Name /\ mark \in [Name -> Mark]
    BY <1>0, Fields DEF Mark
  <1>2. cl' = [cl EXCEPT ![c].pc = "next", ![c].todo = todo, ![c].name = None,
                         ![c].via = None, ![c].existing = FALSE, ![c].mark = mark]
    BY <1>0, Fields DEF TypeOK, ClientRec, ComesUp
  <1>3. \A m \in Name : mark[m] = IF m = n THEN k ELSE cl[c].mark[m]
    BY <1>0, Fields
  <1>4. todo \subseteq cl[c].todo /\ n \notin todo
    OBVIOUS
  <1> HIDE DEF todo, mark
  <1>5. Becomes(c, "next", todo, mark, None, FALSE, cl[c].primary, None, cl[c].ret)
    BY <1>0, <1>1, <1>2, DoUp
  <1>6. /\ TypeOK' /\ Others(c) /\ cl'[c].pc = "next" /\ cl'[c].todo = todo /\ cl'[c].mark = mark
        /\ cl'[c].name = None /\ cl'[c].primary = cl[c].primary /\ cl'[c].op = cl[c].op
        /\ cl'[c].names = cl[c].names /\ Active(c)'
    BY <1>0, <1>5 DEF Becomes, Others, TypeOK, At, Active, Ended
  <1>7. /\ cl[c].todo \subseteq cl[c].names
        /\ \A m \in Name : cl[c].mark[m] # "no" => m \in cl[c].names
        /\ cl[c].primary \in cl[c].names /\ cl[c].primary # None
        /\ \A m \in cl[c].todo : cl[c].mark[m] = "missing"
        /\ n \in cl[c].names
    BY <1>0 DEF Good, ShapeOf, At, UpPc, NamePc
  <1>8. ShapeOf(c)'
    <2>1. \A m \in todo : mark[m] = "missing"
      BY <1>0, <1>3, <1>4, <1>7, Fields
    <2>2. \A m \in Name : mark[m] # "no" => m \in cl[c].names
      BY <1>3, <1>7
    <2>3. todo \subseteq cl[c].names
      BY <1>4, <1>7
    <2> QED
      BY <1>6, <1>7, <2>1, <2>2, <2>3 DEF ShapeOf, At, NamePc, UpPc, StopPc
  <1>9. Turn'
    <2>1. Calm(c)
      BY <1>0, <1>6 DEF Calm, Working
    <2> QED
      BY <2>1, <1>6, TurnStays DEF Inv
  <1>10. FilesOf(c)'
    BY <1>6 DEF FilesOf, At
  <1>11. MissOf(c)'
    <2>1. \A m \in Name : (IsRunning(m)' <=> IsRunning(m)) /\ (Own(c, m)' <=> Own(c, m))
      BY <1>6 DEF IsRunning, Up, Own
    <2>2. ASSUME NEW m \in Name \ lapse, mark[m] = "missing"
          PROVE  ~IsRunning(m) \/ Own(c, m)
      <3>1. m # n /\ cl[c].mark[m] = "missing"
        BY <1>3, <2>2
      <3> QED
        BY <1>0, <3>1 DEF Good, MissOf, At, UpPc
    <2> QED
      BY <1>6, <2>1, <2>2 DEF MissOf, At
  <1>12. SpawnOf(c)'
    BY <1>0, <1>6 DEF Good, SpawnOf, At, Active
  <1>13. FreshOf(c)'
    <2> SUFFICES ASSUME OwnsHelper(c), cl[c].primary \notin lapse, mark[cl[c].primary] = "missing"
                 PROVE  FALSE
      BY <1>6 DEF FreshOf, OwnsHelper
    <2>1. cl[c].primary \in Name
      BY <1>0, <1>7, Fields
    <2>2. cl[c].primary # n /\ cl[c].mark[cl[c].primary] = "missing"
      BY <1>3, <2>1
    <2> QED
      BY <1>0, <2>2 DEF Good, FreshOf, At, NamePc, UpPc
  <1>14. OwnedOf(c)'
    <2> SUFFICES ASSUME NEW m \in Name \ lapse, cl[c].op = "up", Working(c, m),
                        helper[c].mem[m] \in {"booting", "running"}
                 PROVE  mark[m] \in {"old", "new"}
      BY <1>0, <1>6 DEF OwnedOf, Working
    <2> QED
      BY <1>0, <1>3 DEF Good, OwnedOf
  <1>15. Leaves(c)
    <2>1. \A m \in Name \ lapse' : Orphan(c, m) => Orphan(c, m)'
      BY <1>6 DEF Orphan, Bound, At
    <2> QED
      BY <2>1 DEF Leaves, At
  <1>16. \A m \in Name \ lapse' :
            Making(c, m) => Making(c, m)' \/ Whole(m) \/ ~entry[m].cfg
    BY DEF Making, At
  <1> QED
    BY <1>0, <1>6, <1>8, <1>9, <1>10, <1>11, <1>12, <1>13, <1>14, <1>15, <1>16, ClientOnly DEF Good

\* The wait for the address and for ssh.
LEMMA WaitMemberKeeps ==
  ASSUME Inv, NEW c \in Client, WaitMember(c)
  PROVE  Inv'
  <1>0. At(c, "wait") /\ UNCHANGED <<entry, helper, lapse>>
    BY DEF WaitMember
  <1> DEFINE n == cl[c].name
             k == IF cl[c].existing THEN "old" ELSE "new"
  <1>1. CASE /\ helper[cl[c].via].mem[n] = "running"
             /\ cl' = [cl EXCEPT ![c].pc = "next", ![c].todo = @ \ {n}, ![c].name = None,
                                 ![c].via = None, ![c].existing = FALSE, ![c].mark[n] = k]
    <2>1. k \in {"old", "new"}
      OBVIOUS
    <2> HIDE DEF n, k
    <2> QED
      BY <1>0, <1>1, <2>1, MemberUpKeeps, Zenon DEF n, ComesUp
  <1>2. CASE helper[cl[c].via].mem[n] # "booting" /\ StopFailed(c)
    BY <1>0, <1>2, StopFailedKeeps DEF At
  <1> QED
    BY <1>1, <1>2, Zenon DEF WaitMember

\* The rollback turns to a member it added.
LEMMA RollbackKeeps ==
  ASSUME Inv, NEW c \in Client, Rollback(c)
  PROVE  Inv'
  <1>0. TypeOK /\ At(c, "rollback") /\ UNCHANGED <<entry, helper, lapse>>
    BY DEF Inv, Rollback
  <1>1. PICK n \in Added(c) : CallStop(c, n, IF cl[c].op = "up" /\ cl[c].mark[n] = "old"
                                             THEN "rollback" ELSE "destroy")
    BY DEF Rollback
  <1>2. PICK ret \in {"rollback", "destroy"} : CallStop(c, n, ret)
    BY <1>1
  <1>3. n \in Name
    BY DEF Added, Marked
  <1>4. Calls(c, n, ret) /\ MayCall(c, n, ret)
    BY <1>0, <1>2, <1>3, DoCall DEF Calls, MayCall, Pc
  <1> QED
    BY <1>0, <1>3, <1>4, CallKeeps

\* The rollback is through.
LEMMA RolledBackKeeps ==
  ASSUME Inv, NEW c \in Client, RolledBack(c)
  PROVE  Inv'
  <1>0. /\ TypeOK /\ Active(c) /\ At(c, "rollback") /\ Added(c) = {}
        /\ UNCHANGED <<entry, helper, lapse>>
    BY DEF Inv, RolledBack, At, Active, Ended
  <1>1. CASE Bound(c)
    <2>1. Moves(c, "close")
      BY <1>0, <1>1, DoGoto DEF RolledBack, Pc
    <2> QED
      BY <1>0, <1>1, <2>1, OnwardKeeps DEF Onward, Bound
  <1>2. CASE ~Bound(c)
    <2>1. Ends(c, "err") /\ MayEnd(c)
      BY <1>0, <1>2, DoEnd DEF RolledBack, MayEnd, At
    <2> QED
      BY <1>0, <2>1, EndKeeps DEF TypeOK
  <1> QED
    BY <1>1, <1>2

\* The helper of a library's cluster is gone.
LEMMA ClosedKeeps ==
  ASSUME Inv, NEW c \in Client, Closed(c)
  PROVE  Inv'
  <1>0. TypeOK /\ Active(c) /\ At(c, "close") /\ UNCHANGED <<entry, helper, lapse>>
    BY DEF Inv, Closed, At, Active, Ended
  <1>1. Ends(c, "err") /\ MayEnd(c)
    BY <1>0, DoEnd DEF Closed, MayEnd, At
  <1> QED
    BY <1>0, <1>1, EndKeeps DEF TypeOK

\* The owner of a library's cluster ends it.
LEMMA EndClusterKeeps ==
  ASSUME Inv, NEW c \in Client, EndCluster(c)
  PROVE  Inv'
  <1>0. TypeOK /\ At(c, "using") /\ UNCHANGED <<entry, helper, lapse>>
    BY DEF Inv, EndCluster
  <1>1. Moves(c, "rollback")
    BY <1>0, DoGoto DEF EndCluster, Pc
  <1> QED
    BY <1>0, <1>1, OnwardKeeps DEF Onward

\* A stop that returns, to whatever is next or to the end of the command.
LEMMA StopReturnKeeps ==
  ASSUME Inv, NEW c \in Client, NEW ok \in BOOLEAN, cl[c].pc \in StopPc, StopReturn(c, ok),
         UNCHANGED <<entry, helper>>,
         lapse' = IF ~ok /\ cl[c].ret \in {"destroy",
             "delete"} THEN lapse \cup {cl[c].name} ELSE lapse,
         ~IsRunning(cl[c].name) \/ (~ok /\ At(c, "stopPoll"))
  PROVE  Inv'
  <1>0. TypeOK /\ Active(c) /\ cl[c].name \in Name
    BY Fields DEF Inv, Good, ShapeOf, NamePc, StopPc, Active, Ended, At
  <1>1. CASE cl[c].ret = "err"
    <2>1. Ends(c, "err") /\ MayEnd(c)
      BY <1>0, <1>1, DoEnd DEF StopReturn, MayEnd, At, StopPc
    <2>2. lapse' = lapse
      BY <1>1
    <2> QED
      BY <1>0, <2>1, <2>2, EndKeeps DEF TypeOK
  <1>2. CASE cl[c].ret # "err"
    <2>1. Returns(c, ok)
      BY <1>0, <1>2, DoStopReturn
    <2> QED
      BY <1>2, <2>1, ReturnKeeps
  <1> QED
    BY <1>1, <1>2

\* A stop that failed: what the caller deletes anyway lapses.
LEMMA StopErrorKeeps ==
  ASSUME Inv, NEW c \in Client, cl[c].pc \in StopPc, StopError(c), UNCHANGED <<entry, helper>>,
         ~IsRunning(cl[c].name) \/ At(c, "stopPoll")
  PROVE  Inv'
  <1>1. StopReturn(c, FALSE)
        /\ lapse' = IF cl[c].ret \in {"destroy", "delete"} THEN lapse \cup {cl[c].name} ELSE lapse
    BY DEF StopError
  <1> QED
    BY <1>1, StopReturnKeeps

\* control.Stop finds the member down, or sends the request.
LEMMA StopCheckKeeps ==
  ASSUME Inv, NEW c \in Client, StopCheck(c)
  PROVE  Inv'
  <1>0. TypeOK /\ At(c, "stopCheck") /\ UNCHANGED <<entry, helper, lapse>>
    BY DEF Inv, StopCheck
  <1>1. CASE IsRunning(cl[c].name)
    <2>1. Moves(c, "stopSend")
      BY <1>0, <1>1, DoGoto DEF StopCheck, Pc
    <2> QED
      BY <1>0, <2>1, OnwardKeeps DEF Onward
  <1>2. CASE ~IsRunning(cl[c].name)
    BY <1>0, <1>2, StopReturnKeeps DEF StopCheck, At, StopPc
  <1> QED
    BY <1>1, <1>2

\* control.Stop polls the pidfile.
LEMMA StopPollKeeps ==
  ASSUME Inv, NEW c \in Client, StopPoll(c)
  PROVE  Inv'
  <1>0. At(c, "stopPoll") /\ UNCHANGED <<entry, helper>> /\ cl[c].pc \in StopPc
    BY DEF StopPoll, At, StopPc
  <1>1. CASE ~IsRunning(cl[c].name) /\ StopReturn(c, TRUE) /\ UNCHANGED lapse
    BY <1>0, <1>1, StopReturnKeeps
  <1>2. CASE StopError(c)
    BY <1>0, <1>2, StopErrorKeeps
  <1> QED
    BY <1>1, <1>2 DEF StopPoll

\* A client of down or rm, that has no helper, turns to a name or is done with one.
LEMMA LoopKeeps ==
  ASSUME Inv, NEW c \in Client, UNCHANGED <<entry, helper, lapse>>, NEW n \in cl[c].todo,
         \/ At(c, "down") /\ cl' = [cl EXCEPT ![c].todo = @ \ {n}]
         \/ At(c, "rm") /\ ~IsRunning(n) /\ cl' = [cl EXCEPT ![c].pc = "remove", ![c].name = n]
  PROVE  Inv'
  <1>0. TypeOK /\ Good(c) /\ Active(c) /\ n \in Name
    BY Fields DEF Inv, At, Active, Ended
  <1>1. /\ cl[c].primary = None /\ helper[c].up = "none" /\ Added(c) = {}
        /\ cl[c].todo \subseteq cl[c].names
        /\ \A m \in Name : cl[c].mark[m] # "no" => m \in cl[c].names
        /\ At(c, "rm") => cl[c].op = "rm"
    BY <1>0 DEF Good, ShapeOf, At, Active
  <1>2. /\ TypeOK' /\ Others(c) /\ cl'[c].todo \subseteq cl[c].todo
        /\ \/ cl'[c].pc = "down" /\ cl'[c].name = cl[c].name
           \/ At(c, "rm") /\ cl'[c].pc = "remove" /\ cl'[c].name = n /\ ~IsRunning(n)
        /\ cl'[c].mark = cl[c].mark /\ cl'[c].primary = cl[c].primary /\ cl'[c].op = cl[c].op
        /\ cl'[c].names = cl[c].names
    <2>1. CASE At(c, "down") /\ cl' = [cl EXCEPT ![c].todo = @ \ {n}]
      <3> DEFINE todo == cl[c].todo \ {n}
      <3>1. cl' = [cl EXCEPT ![c].todo = todo] /\ todo \in SUBSET Name /\ todo \subseteq cl[c].todo
        BY <1>0, <2>1, Fields
      <3> HIDE DEF todo
      <3>2. Becomes(c, cl[c].pc, todo, cl[c].mark, cl[c].name, cl[c].existing, cl[c].primary,
                    cl[c].via, cl[c].ret)
        BY <1>0, <3>1, DoShrink
      <3> QED
        BY <1>0, <2>1, <3>1, <3>2 DEF Becomes, Others, TypeOK, At
    <2>2. CASE At(c, "rm") /\ ~IsRunning(n) /\ cl' = [cl EXCEPT ![c].pc = "remove", ![c].name = n]
      <3>1. Becomes(c, "remove", cl[c].todo, cl[c].mark, n, cl[c].existing, cl[c].primary,
                    cl[c].via, cl[c].ret)
        BY <1>0, <2>2, DoName DEF Pc
      <3> QED
        BY <1>0, <2>2, <3>1 DEF Becomes, Others, TypeOK
    <2> QED
      BY <2>1, <2>2
  <1>3. Active(c)' /\ Added(c)' = {}
    BY <1>1, <1>2 DEF Active, Ended, At, Added, Marked
  <1>4. ShapeOf(c)'
    BY <1>1, <1>2, <1>3 DEF ShapeOf, At, NamePc, UpPc, StopPc
  <1>5. Turn'
    <2>1. Calm(c)
      BY <1>0, <1>2 DEF Calm, Working
    <2> QED
      BY <2>1, <1>2, TurnStays DEF Inv
  <1>6. FilesOf(c)'
    BY <1>2 DEF FilesOf, At
  <1>7. MissOf(c)'
    BY <1>2 DEF MissOf, At, UpPc, IsRunning, Up
  <1>8. SpawnOf(c)' /\ FreshOf(c)' /\ OwnedOf(c)' /\ \A m \in Name : ~Orphan(c, m)
    BY <1>1, NoHelper
  <1>9. Leaves(c)
    BY <1>8 DEF Leaves, At
  <1>10. \A m \in Name \ lapse' :
            Making(c, m) => Making(c, m)' \/ Whole(m) \/ ~entry[m].cfg
    BY DEF Making, At
  <1> QED
    BY <1>0, <1>2, <1>4, <1>5, <1>6, <1>7, <1>8, <1>9, <1>10, ClientOnly DEF Good

\* The loop of down.
LEMMA DownNextKeeps ==
  ASSUME Inv, NEW c \in Client, NEW n \in Name, DownNext(c, n)
  PROVE  Inv'
  <1>0. TypeOK /\ At(c, "down") /\ n \in cl[c].todo /\ UNCHANGED <<entry, helper, lapse>>
    BY DEF Inv, DownNext
  <1>1. CASE CallStop(c, n, "down")
    <2>1. Calls(c, n, "down") /\ MayCall(c, n, "down")
      BY <1>0, <1>1, DoCall DEF Calls, MayCall, Pc
    <2> QED
      BY <1>0, <2>1, CallKeeps
  <1>2. CASE cl' = [cl EXCEPT ![c].todo = @ \ {n}]
    BY <1>0, <1>2, LoopKeeps
  <1> QED
    BY <1>1, <1>2 DEF DownNext

\* The loop of rm.
LEMMA RmNextKeeps ==
  ASSUME Inv, NEW c \in Client, NEW n \in Name, RmNext(c, n)
  PROVE  Inv'
  <1>0. TypeOK /\ At(c, "rm") /\ n \in cl[c].todo /\ UNCHANGED <<entry, helper, lapse>>
    BY DEF Inv, RmNext
  <1>1. CASE CallStop(c, n, "remove")
    <2>1. Calls(c, n, "remove") /\ MayCall(c, n, "remove")
      BY <1>0, <1>1, DoCall DEF Calls, MayCall, Pc
    <2> QED
      BY <1>0, <2>1, CallKeeps
  <1>2. CASE ~IsRunning(n) /\ cl' = [cl EXCEPT ![c].pc = "remove", ![c].name = n]
    BY <1>0, <1>2, LoopKeeps
  <1> QED
    BY <1>1, <1>2 DEF RmNext

\* The loops of down and rm are through.
LEMMA LoopDoneKeeps ==
  ASSUME Inv, NEW c \in Client, LoopDone(c)
  PROVE  Inv'
  <1>0. TypeOK /\ Active(c) /\ cl[c].pc \in {"down", "rm"} /\ UNCHANGED <<entry, helper, lapse>>
    BY DEF Inv, LoopDone, Active, Ended, At
  <1>1. Ends(c, "ok") /\ MayEnd(c)
    BY <1>0, DoEnd DEF LoopDone, MayEnd, At
  <1> QED
    BY <1>0, <1>1, EndKeeps DEF TypeOK

\* A client that dies: its names lapse.
LEMMA ClientCrashKeeps ==
  ASSUME Inv, NEW c \in Client, ClientCrash(c)
  PROVE  Inv'
  <1>0. /\ TypeOK /\ Active(c) /\ UNCHANGED <<entry, helper>>
        /\ lapse' = lapse \cup cl[c].names /\ cl[c].names \subseteq Name
    BY Fields DEF Inv, ClientCrash
  <1>1. Ends(c, "err") /\ MayEnd(c)
    BY <1>0, DoEnd DEF ClientCrash, MayEnd
  <1> QED
    BY <1>0, <1>1, EndKeeps DEF TypeOK

-----------------------------------------------------------------------------
(* The steps that write into a member directory                            *)

\* An entry that is written into.
LEMMA EntryFields ==
  ASSUME TypeOK, NEW n \in Name
  PROVE  /\ entry[n] \in Entry /\ entry[n].dir \in BOOLEAN /\ entry[n].cfg \in BOOLEAN
         /\ entry[n].cut \in BOOLEAN /\ entry[n].seed \in BOOLEAN
         /\ entry[n].disk \in Disk \cup {None}
         /\ entry[n].pid \in Client \cup {None} /\ entry[n].sock \in Client \cup {None}
  <1>1. entry[n] \in Entry
    BY DEF TypeOK
  <1> QED
    BY <1>1 DEF Entry

\* The member n is written into, its paths stay.
Filled(n, cfg, disk, seed) ==
    /\ entry' \in [Name -> Entry]
    /\ \A m \in Name \ {n} : entry'[m] = entry[m]
    /\ entry'[n].cfg = cfg /\ entry'[n].disk = disk /\ entry'[n].seed = seed
    /\ entry'[n].pid = entry[n].pid /\ entry'[n].sock = entry[n].sock

\* store.Create writes config.json.
LEMMA FillCfg ==
  ASSUME TypeOK, NEW n \in Name, entry' = [entry EXCEPT ![n] = Saved(@)]
  PROVE  Filled(n, TRUE, entry[n].disk, entry[n].seed)
  <1>1. entry[n] \in Entry
    BY EntryFields
  <1> QED
    BY <1>1 DEF Filled, TypeOK, Entry, Saved

\* What a Create that fails leaves behind does not load, if it is new.
Broken(n) ==
    /\ entry' \in [Name -> Entry]
    /\ \A m \in Name \ {n} : entry'[m] = entry[m]
    /\ entry'[n].disk = entry[n].disk /\ entry'[n].seed = entry[n].seed
    /\ entry'[n].pid = entry[n].pid /\ entry'[n].sock = entry[n].sock
    /\ entry[n].cfg => entry'[n].cfg
    /\ entry'[n].cfg /\ ~entry'[n].cut => entry[n].cfg /\ ~entry[n].cut

\* store.Create fails.
LEMMA FillBroken ==
  ASSUME TypeOK, NEW n \in Name, NEW e \in Unsaved(entry[n]), entry' = [entry EXCEPT ![n] = e]
  PROVE  Broken(n)
  <1>1. entry[n] \in Entry
    BY EntryFields
  <1>2. \/ e = entry[n]
        \/ e = [entry[n] EXCEPT !.dir = TRUE]
        \/ e = [entry[n] EXCEPT !.dir = TRUE, !.cfg = TRUE, !.cut = TRUE]
    BY DEF Unsaved
  <1>3. /\ e \in Entry /\ e.disk = entry[n].disk /\ e.seed = entry[n].seed
        /\ e.pid = entry[n].pid /\ e.sock = entry[n].sock
        /\ entry[n].cfg => e.cfg
        /\ e.cfg /\ ~e.cut => entry[n].cfg /\ ~entry[n].cut
    BY <1>1, <1>2 DEF Entry
  <1> QED
    BY <1>1, <1>3 DEF Broken, TypeOK

\* The disk is copied.
LEMMA FillDisk ==
  ASSUME TypeOK, NEW n \in Name, NEW c \in Client, entry' = [entry EXCEPT ![n].disk = c]
  PROVE  Filled(n, entry[n].cfg, c, entry[n].seed)
  <1>1. entry[n] \in Entry
    BY EntryFields
  <1> QED
    BY <1>1 DEF Filled, TypeOK, Entry, Disk

\* The seed is written.
LEMMA FillSeed ==
  ASSUME TypeOK, NEW n \in Name, NEW s \in BOOLEAN, entry' = [entry EXCEPT ![n].seed = s]
  PROVE  Filled(n, entry[n].cfg, entry[n].disk, s)
  <1>1. entry[n] \in Entry
    BY EntryFields
  <1> QED
    BY <1>1 DEF Filled, TypeOK, Entry

\* Clients and names whose turn it is not are not disturbed.
LEMMA WriteKeeps ==
  ASSUME Inv, NEW c \in Client, NEW q, NEW n \in Name, cl[c].name = n, NEW cfg, NEW disk, NEW seed,
         Filled(n, cfg, disk, seed), Moves(c, q), UNCHANGED <<helper, lapse>>,
         \/ At(c, "create") /\ q = "disk" /\ cfg = TRUE /\ disk = entry[n].disk
                /\ seed = entry[n].seed
         \/ At(c, "disk") /\ q = "seed" /\ cfg = entry[n].cfg /\ disk = c /\ seed = entry[n].seed
         \/ At(c, "seed") /\ q = "boot" /\ cfg = entry[n].cfg /\ disk = entry[n].disk
            /\ seed = (entry[n].seed \/ ~cl[c].existing)
  PROVE  Inv'
  <1>0. TypeOK /\ Good(c) /\ Writes(c, q) /\ PathsStay /\ TypeOK' /\ n \in cl[c].names
    BY DEF Inv, Good, ShapeOf, NamePc, UpPc, At, Writes, Filled, PathsStay, Moves, Becomes, TypeOK
  <1>1. /\ ShapeOf(c)' /\ MissOf(c)' /\ SpawnOf(c)' /\ FreshOf(c)' /\ OwnedOf(c)'
        /\ Turn' /\ Leaves(c) /\ cl'[c].op = cl[c].op /\ Others(c) /\ Active(c) /\ Active(c)'
    BY <1>0, OnwardGood
  <1>2. /\ n \notin lapse /\ At(c, "create") => ~entry[n].cfg /\ entry[n].disk = None
        /\ n \notin lapse /\ At(c, "disk") => entry[n].cfg /\ entry[n].disk = None
        /\ n \notin lapse /\ At(c, "seed") => entry[n].disk # None /\ (cl[c].existing => Whole(n))
        /\ cl[c].pc \in {"create", "disk"} => ~cl[c].existing
    BY <1>0 DEF Inv, Good, FilesOf, DiskInEntry, ShapeOf
  <1>3. DiskInEntry'
    BY <1>2 DEF Inv, DiskInEntry, Filled, At
  <1>4. EntryComplete'
    <2> SUFFICES ASSUME NEW m \in Name \ lapse, entry'[m].cfg, ~entry'[m].cut, ~Whole(m)'
                 PROVE  \E d \in Client : Making(d, m)'
      BY DEF EntryComplete, Making, Whole
    <2>1. CASE m = n
      <3>1. q # "boot"
        BY <1>2, <2>1, Apart DEF Filled, Whole, At
      <3>2. Making(c, n)'
        BY <3>1 DEF Making, Moves, Becomes
      <3> QED
        BY <2>1, <3>2
    <2>2. CASE m # n
      <3>1. entry'[m] = entry[m]
        BY <2>2 DEF Filled
      <3>2. PICK d \in Client : Making(d, m)
        BY <2>2, <3>1 DEF Inv, EntryComplete, Making, Whole
      <3>3. d # c
        BY <2>2, <3>2 DEF Making
      <3> QED
        BY <1>1, <3>2, <3>3 DEF Others, Making
    <2> QED
      BY <2>1, <2>2
  <1>5. RunningKeepsDisk'
    <2> SUFFICES ASSUME NEW h \in Client, NEW m \in Name \ lapse, helper[h].run[m] # None
                 PROVE  entry'[m].disk = helper[h].run[m]
      BY DEF RunningKeepsDisk
    <2>1. entry[m].disk = helper[h].run[m]
      BY DEF Inv, RunningKeepsDisk
    <2> QED
      BY <1>2, <2>1 DEF Filled, At
  <1>6. FilesOf(c)'
    <2> SUFFICES ASSUME n \notin lapse
                 PROVE  /\ q = "disk" => entry'[n].cfg /\ entry'[n].disk = None
                        /\ q = "seed" => entry'[n].disk # None /\ (cl[c].existing => Whole(n)')
      BY <1>0 DEF FilesOf, At, Writes, Moves, Becomes
    <2> QED
      BY <1>2, Apart DEF Filled, At
  <1>7. \A d \in Client \ {c} : FilesOf(d)'
    <2> SUFFICES ASSUME NEW d \in Client \ {c}, NEW m \in Name \ lapse, cl[d].name = m,
                        cl[d].pc \in {"create", "disk", "seed"}
                 PROVE  m # n
      BY <1>1 DEF Inv, Good, FilesOf, Others, At, Whole, Filled
    <2>1. Working(d, m)
      BY DEF Inv, Good, ShapeOf, Working, Active, Ended, At, NamePc, UpPc
    <2>2. Working(c, n)
      BY <1>0, <1>1 DEF Working
    <2> QED
      BY <2>1, <2>2 DEF Inv, Turn
  <1> QED
    BY <1>0, <1>1, <1>3, <1>4, <1>5, <1>6, <1>7, PathsKeep DEF Good

\* A failed write: the deferred delete of a new member, or the unwinding.
LEMMA FailedKeeps ==
  ASSUME Inv, NEW c \in Client, cl[c].pc \in {"disk", "seed"}, Goto(c, Failed(c)),
         UNCHANGED <<entry, helper, lapse>>
  PROVE  Inv'
  <1>0. TypeOK /\ (At(c, "disk") => ~cl[c].existing)
    BY DEF Inv, Good, ShapeOf, At
  <1>1. CASE cl[c].existing
    BY <1>0, <1>1, UnwindKeeps DEF Failed, At
  <1>2. CASE ~cl[c].existing
    <2>1. Moves(c, "delete")
      BY <1>0, <1>2, DoGoto DEF Failed, Pc
    <2> QED
      BY <1>2, <2>1, OnwardKeeps DEF Onward, At
  <1> QED
    BY <1>1, <1>2

\* A Create that fails keeps the invariant: what it leaves behind does not load.
LEMMA BrokenKeeps ==
  ASSUME Inv, NEW c \in Client, At(c, "create"), Broken(cl[c].name), Goto(c, Unwind(c)),
         UNCHANGED <<helper, lapse>>
  PROVE  Inv'
  <1> DEFINE n == cl[c].name
  <1>0. /\ TypeOK /\ Good(c) /\ Active(c) /\ PathsStay /\ n \in cl[c].names /\ n \in Name
    BY Fields DEF Inv, Good, ShapeOf, NamePc, UpPc, At, Active, Ended, Broken, PathsStay
  <1>1. DiskInEntry'
    BY DEF Inv, DiskInEntry, Broken
  <1>2. RunningKeepsDisk'
    BY DEF Inv, RunningKeepsDisk, Broken
  <1>3. Others(c) => EntryComplete'
    <2> SUFFICES ASSUME Others(c), NEW m \in Name \ lapse, entry'[m].cfg, ~entry'[m].cut, ~Whole(m)'
                 PROVE  \E d \in Client : Making(d, m)'
      BY DEF EntryComplete, Making, Whole
    <2>1. entry[m].cfg /\ ~entry[m].cut /\ ~Whole(m)
      BY DEF Broken, Whole
    <2>2. PICK d \in Client : Making(d, m)
      BY <2>1 DEF Inv, EntryComplete, Making, Whole
    <2>3. d # c
      BY <2>2 DEF Making, At
    <2> QED
      BY <2>2, <2>3 DEF Others, Making
  <1>4. Others(c) => \A d \in Client \ {c} : FilesOf(d)'
    <2> SUFFICES ASSUME Others(c), NEW d \in Client \ {c}, NEW m \in Name \ lapse, cl[d].name = m,
                        cl[d].pc \in {"create", "disk", "seed"}
                 PROVE  m # n
      BY DEF Inv, Good, FilesOf, Others, At, Whole, Broken
    <2>1. Working(d, m)
      BY DEF Inv, Good, ShapeOf, Working, Active, Ended, At, NamePc, UpPc
    <2>2. Working(c, n)
      BY <1>0 DEF Working
    <2> QED
      BY <2>1, <2>2 DEF Inv, Turn
  <1>5. CASE Unwind(c) = "rollback"
    <2>1. Moves(c, "rollback")
      BY <1>0, <1>5, DoGoto DEF Pc
    <2>2. /\ ShapeOf(c)' /\ MissOf(c)' /\ SpawnOf(c)' /\ FreshOf(c)' /\ OwnedOf(c)'
          /\ Turn' /\ Leaves(c) /\ cl'[c].op = cl[c].op /\ Others(c)
      BY <1>0, <2>1, OnwardGood DEF Writes
    <2>3. FilesOf(c)' /\ TypeOK'
      BY <1>0, <2>1 DEF FilesOf, At, Moves, Becomes, TypeOK, Broken
    <2> QED
      BY <1>0, <1>1, <1>2, <1>3, <1>4, <2>2, <2>3, PathsKeep DEF Good
  <1>6. CASE Unwind(c) = "err"
    <2>1. helper[c].up = "none"
      BY <1>6 DEF Unwind, OwnsHelper
    <2>2. Ends(c, "err")
      BY <1>0, <1>6, DoEnd
    <2>3. ShapeOf(c)' /\ ~Active(c)' /\ TypeOK' /\ Others(c)
          /\ cl'[c].pc = "err" /\ cl'[c].op = cl[c].op
      BY <1>0, <2>2, EndShape DEF Ends, TypeOK, Others, Broken
    <2>4. Turn'
      <3>1. Calm(c)
        BY <2>3 DEF Calm, Working
      <3> QED
        BY <3>1, <2>3, TurnStays DEF Inv
    <2>5. FilesOf(c)' /\ MissOf(c)'
      BY <2>3 DEF FilesOf, MissOf, At, UpPc
    <2>6. SpawnOf(c)' /\ FreshOf(c)' /\ OwnedOf(c)' /\ \A m \in Name : ~Orphan(c, m)
      BY <1>0, <2>1, NoHelper
    <2>7. Leaves(c)
      BY <2>6 DEF Leaves, At
    <2> QED
      BY <1>0, <1>1, <1>2, <1>3, <1>4, <2>3, <2>4, <2>5, <2>6, <2>7, PathsKeep DEF Good
  <1> QED
    BY <1>5, <1>6 DEF Unwind

\* store.Create keeps the invariant: the directory it fills is its own.
LEMMA CreateEntryKeeps ==
  ASSUME Inv, NEW c \in Client, CreateEntry(c)
  PROVE  Inv'
  <1> DEFINE n == cl[c].name
  <1>0. TypeOK /\ n \in Name /\ At(c, "create") /\ UNCHANGED <<helper, lapse>>
    BY Fields DEF Inv, Good, ShapeOf, NamePc, UpPc, At, CreateEntry
  <1>1. CASE entry' = [entry EXCEPT ![n] = Saved(@)] /\ Goto(c, "disk")
    <2>1. Moves(c, "disk")
      BY <1>0, <1>1, DoGoto DEF Pc
    <2>2. Filled(n, TRUE, entry[n].disk, entry[n].seed)
      BY <1>0, <1>1, FillCfg
    <2> QED
      BY <1>0, <2>1, <2>2, WriteKeeps
  <1>2. ASSUME NEW e \in Unsaved(entry[n]), entry' = [entry EXCEPT ![n] = e], Goto(c, Unwind(c))
        PROVE  Inv'
    <2>1. Broken(n)
      BY <1>0, <1>2, FillBroken
    <2> QED
      BY <1>0, <1>2, <2>1, BrokenKeeps
  <1> QED
    BY <1>1, <1>2 DEF CreateEntry

\* The disk copy keeps the invariant: nothing runs on the disk it replaces.
LEMMA CopyDiskKeeps ==
  ASSUME Inv, NEW c \in Client, CopyDisk(c)
  PROVE  Inv'
  <1>0. TypeOK /\ cl[c].name \in Name /\ At(c, "disk") /\ UNCHANGED <<helper, lapse>>
    BY Fields DEF Inv, Good, ShapeOf, NamePc, UpPc, At, CopyDisk
  <1>1. CASE Goto(c, Failed(c)) /\ UNCHANGED entry
    BY <1>0, <1>1, FailedKeeps DEF At
  <1>2. CASE entry' = [entry EXCEPT ![cl[c].name].disk = c] /\ Goto(c, "seed")
    <2>1. Moves(c, "seed")
      BY <1>0, <1>2, DoGoto DEF Pc
    <2>2. Filled(cl[c].name, entry[cl[c].name].cfg, c, entry[cl[c].name].seed)
      BY <1>0, <1>2, FillDisk
    <2> QED
      BY <1>0, <2>1, <2>2, WriteKeeps
  <1> QED
    BY <1>1, <1>2 DEF CopyDisk

\* The seed keeps the invariant.
LEMMA CreateSeedKeeps ==
  ASSUME Inv, NEW c \in Client, CreateSeed(c)
  PROVE  Inv'
  <1>0. TypeOK /\ cl[c].name \in Name /\ At(c, "seed") /\ UNCHANGED <<helper, lapse>>
    BY Fields DEF Inv, Good, ShapeOf, NamePc, UpPc, At, CreateSeed
  <1>1. CASE Goto(c, Failed(c)) /\ UNCHANGED entry
    BY <1>0, <1>1, FailedKeeps DEF At
  <1>2. CASE /\ entry' = [entry EXCEPT ![cl[c].name].seed = @ \/ ~cl[c].existing]
             /\ Goto(c, "boot")
    <2> DEFINE s == entry[cl[c].name].seed \/ ~cl[c].existing
    <2>1. Moves(c, "boot")
      BY <1>0, <1>2, DoGoto DEF Pc
    <2>2. s \in BOOLEAN
      OBVIOUS
    <2>3. entry' = [entry EXCEPT ![cl[c].name].seed = s]
      BY <1>0, <1>2 DEF TypeOK
    <2>4. s = (entry[cl[c].name].seed \/ ~cl[c].existing)
      OBVIOUS
    <2> HIDE DEF s
    <2>5. Filled(cl[c].name, entry[cl[c].name].cfg, entry[cl[c].name].disk, s)
      BY <1>0, <2>2, <2>3, FillSeed
    <2> QED
      BY <1>0, <2>1, <2>4, <2>5, WriteKeeps
  <1> QED
    BY <1>1, <1>2 DEF CreateSeed

-----------------------------------------------------------------------------
(* Deletions                                                               *)

Deleted(n) ==
    /\ entry' \in [Name -> Entry]
    /\ \A m \in Name \ {n} : entry'[m] = entry[m]
    /\ ~entry'[n].cfg /\ entry'[n].disk = None /\ entry'[n].pid = None /\ entry'[n].sock = None

\* store.Delete leaves nothing of a directory.
LEMMA DoDelete ==
  ASSUME TypeOK, NEW n \in Name, Delete(n)
  PROVE  Deleted(n)
  BY DEF Delete, Deleted, Absent, TypeOK, Entry

\* Who has a member that is deleted: the client's own helper, before the boot, or an orphan.
LEMMA WhoHas ==
  ASSUME Inv, NEW c \in Client, cl[c].pc \in {"delete", "destroy", "remove"},
         NEW n \in Name \ lapse, cl[c].name = n, NEW h \in Client, helper[h].mem[n] # "none"
  PROVE  \/ h = c /\ At(c, "delete") /\ Own(c, n) /\ helper[c].mem[n] = "starting"
         \/ Orphan(h, n) /\ ~Bound(h)
  <1>1. Good(c) /\ helper[h].up = "up" /\ n \in cl[c].names /\ Active(c)
    BY DEF Inv, Good, ShapeOf, HelpersInv, NamePc, Active, Ended, At
  <1>2. CASE LeadsTo(n, h)
    <2>1. IsRunning(n)
      BY <1>1, <1>2, Apart DEF LeadsTo, IsRunning, Up
    <2>2. At(c, "delete") /\ Own(c, n)
      BY <1>1, <2>1 DEF Good, MissOf, At
    <2> QED
      BY <1>2, <2>2 DEF Own, LeadsTo
  <1>3. CASE Orphan(h, n)
    <2>1. ASSUME Bound(h) PROVE FALSE
      <3>1. Working(h, n) /\ cl[h].pc \in {"rollback", "close"}
        BY <1>3, <2>1 DEF Orphan
      <3>2. Working(c, n)
        BY <1>1 DEF Working
      <3>3. h = c
        BY <3>1, <3>2 DEF Inv, Turn
      <3> QED
        BY <3>1, <3>3
    <2> QED
      BY <1>3, <2>1
  <1> QED
    BY <1>2, <1>3 DEF Inv, Registration, Traced

\* A client that does not step, when a member is deleted.
LEMMA GoodAfterDelete ==
  ASSUME Inv, NEW c \in Client, cl[c].pc \in {"delete", "destroy", "remove"},
         NEW n \in Name, cl[c].name = n, Deleted(n), helper' = helper, lapse \subseteq lapse',
         NEW d \in Client \ {c}, cl'[d] = cl[d]
  PROVE  Good(d)'
  <1>0. TypeOK /\ Good(d) /\ Good(c)
    BY DEF Inv
  <1>1. \A m \in Name : IsRunning(m)' => IsRunning(m)
    BY DEF IsRunning, Up, Deleted
  <1>2. ~IsRunning(n)'
    BY DEF IsRunning, Up, Deleted
  <1>3. ShapeOf(d)'
    BY <1>0 DEF Good, ShapeOf, Active, Ended, At, Added, Marked
  <1>4. FilesOf(d)'
    <2> SUFFICES ASSUME NEW m \in Name \ lapse', cl[d].name = m,
                        cl[d].pc \in {"create", "disk", "seed"}
                 PROVE  m # n
      BY <1>0 DEF Good, FilesOf, At, Whole, Deleted
    <2>1. Working(d, m)
      BY <1>0 DEF Good, ShapeOf, Working, Active, Ended, At, NamePc, UpPc
    <2>2. Working(c, n)
      BY <1>0 DEF Good, ShapeOf, Working, Active, Ended, At, NamePc
    <2> QED
      BY <2>1, <2>2 DEF Inv, Turn
  <1>5. MissOf(d)'
    <2>1. \A m \in Name \ {n} : Own(d, m) => Own(d, m)'
      BY DEF Own, Deleted
    <2> QED
      BY <1>0, <1>1, <1>2, <2>1 DEF Good, MissOf, At
  <1>6. SpawnOf(d)'
    BY <1>0 DEF Good, SpawnOf, At, Ended, Added, Marked
  <1>7. FreshOf(d)'
    <2>1. ASSUME Active(d)', OwnsHelper(d)', cl'[d].primary \notin lapse',
                 cl'[d].mark[cl[d].primary] = "missing"
          PROVE  /\ \A m \in Name \ {cl[d].primary} : helper[d].mem[m] = "none" /\ entry[m].sock # d
                 /\ Added(d) = {} /\ ~At(d, "next")
                 /\ cl[d].pc \in NamePc => cl[d].name = cl[d].primary
      BY <1>0, <2>1 DEF Good, FreshOf, Active, Ended, At, OwnsHelper
    <2>2. \A m \in Name : entry'[m].sock = entry[m].sock \/ entry'[m].sock = None
      BY DEF Deleted
    <2> QED
      BY <2>1, <2>2, Apart DEF FreshOf, Active, Ended, At, OwnsHelper, Added, Marked
  <1>8. OwnedOf(d)'
    BY <1>0 DEF Good, OwnedOf, Working, Active, Ended
  <1> QED
    BY <1>3, <1>4, <1>5, <1>6, <1>7, <1>8 DEF Good

\* A delete keeps the invariant when nothing runs there but what lapses.
LEMMA DeleteKeeps ==
  ASSUME Inv, TypeOK', NEW c \in Client, cl[c].pc \in {"delete", "destroy", "remove"},
         NEW n \in Name, cl[c].name = n, Deleted(n), helper' = helper, lapse \subseteq lapse',
         At(c, "delete") => \A h \in Client : helper[h].mem[n] # "none" => h \in lapse',
         Others(c), cl'[c].op = cl[c].op, Turn', Good(c)',
         At(c, "delete") /\ Own(c, n) =>
            At(c, "rollback")' /\ cl'[c].names = cl[c].names /\ Added(c)' = Added(c)
  PROVE  Inv'
  <1>0. Good(c) /\ Working(c, n)
    BY DEF Inv, Good, ShapeOf, NamePc, Working, Active, Ended, At
  <1>1. HelpersInv'
    BY DEF Inv, HelpersInv, Deleted
  <1>2. DiskInEntry'
    BY DEF Inv, DiskInEntry, Deleted
  <1>3. EntryComplete'
    <2> SUFFICES ASSUME NEW m \in Name \ lapse', entry'[m].cfg, ~entry'[m].cut, ~Whole(m)'
                 PROVE  \E d \in Client : Making(d, m)'
      BY DEF EntryComplete, Making, Whole
    <2>1. m # n /\ entry'[m] = entry[m]
      BY DEF Deleted
    <2>2. PICK d \in Client : Making(d, m)
      BY <2>1 DEF Inv, EntryComplete, Making, Whole
    <2>3. d # c
      BY <2>1, <2>2 DEF Making
    <2> QED
      BY <2>2, <2>3 DEF Others, Making
  <1>4. RunningKeepsDisk'
    <2> SUFFICES ASSUME NEW h \in Client, NEW m \in Name \ lapse', helper[h].run[m] # None
                 PROVE  entry'[m].disk = helper[h].run[m]
      BY DEF RunningKeepsDisk
    <2>1. entry[m].disk = helper[h].run[m]
      BY DEF Inv, RunningKeepsDisk
    <2>2. helper[h].mem[m] \in {"booting", "running", "stopping", "reaping"}
      BY DEF Inv, HelpersInv
    <2>3. m # n
      BY <2>2, WhoHas DEF Orphan
    <2> QED
      BY <2>1, <2>3 DEF Deleted
  <1>5. \A d \in Client : Good(d)'
    BY GoodAfterDelete DEF Others
  <1>6. Registration'
    <2> SUFFICES ASSUME NEW h \in Client, NEW m \in Name \ lapse'
                 PROVE  /\ helper[h].mem[m] # "none" => LeadsTo(m, h)' \/ Orphan(h, m)'
                        /\ helper[h].mem[m] # "reaping"
                        /\ helper[h].mem[m] = "booting" => Awaited(m, h)'
      BY DEF Registration, Traced
    <2>1. /\ helper[h].mem[m] # "none" => LeadsTo(m, h) \/ Orphan(h, m)
          /\ helper[h].mem[m] # "reaping"
          /\ helper[h].mem[m] = "booting" => Awaited(m, h)
      BY DEF Inv, Registration, Traced
    <2>2. \A x \in Name : entry'[x].sock = entry[x].sock \/ entry'[x].sock = None
      BY DEF Deleted
    <2>3. Bound(h)' <=> Bound(h)
      BY DEF Bound, Others
    <2>4. Orphan(h, m) => Orphan(h, m)'
      <3> SUFFICES ASSUME Orphan(h, m) PROVE Orphan(h, m)'
        OBVIOUS
      <3>1. /\ h \in lapse' /\ helper'[h].mem[m] = "starting"
            /\ \A x \in Name \ {m} : helper'[h].mem[x] = "none"
            /\ \A x \in Name : entry'[x].sock # h
        BY <2>2, Apart DEF Orphan
      <3>2. CASE Bound(h)
        <4>1. h # c
          BY <3>2 DEF Orphan
        <4>2. ~IsRunning(m)'
          BY <3>2 DEF Orphan, IsRunning, Up, Deleted
        <4> QED
          BY <3>1, <3>2, <4>1, <4>2 DEF Orphan, Others, Working, Active, Ended, At, Added, Marked
      <3>3. CASE ~Bound(h)
        BY <2>3, <3>1, <3>3 DEF Orphan
      <3> QED
        BY <3>2, <3>3
    <2>5. LeadsTo(m, h) /\ helper[h].mem[m] # "none" => LeadsTo(m, h)' \/ Orphan(h, m)'
      <3>1. CASE m # n
        BY <3>1 DEF LeadsTo, Deleted
      <3>2. CASE m = n /\ helper[h].mem[m] # "none"
        <4>1. \/ h = c /\ At(c, "delete") /\ Own(c, n) /\ helper[c].mem[n] = "starting"
              \/ Orphan(h, n)
          BY <3>2, WhoHas
        <4>2. CASE h = c /\ At(c, "delete") /\ Own(c, n) /\ helper[c].mem[n] = "starting"
          <5>1. /\ \A x \in Name \ {n} : helper[c].mem[x] = "none" /\ entry[x].sock # c
                /\ Added(c) = {}
            <6>1. OwnsHelper(c) /\ cl[c].primary = n /\ cl[c].mark[n] = "missing" /\ n \notin lapse
              BY <1>0, <3>2, <4>2 DEF Inv, HelpersInv, OwnsHelper, Own, Good, ShapeOf
            <6> QED
              BY <1>0, <6>1 DEF Good, FreshOf, Working
          <5>2. \A x \in Name : entry'[x].sock # c
            BY <5>1, Apart DEF Deleted
          <5>3. Working(c, n)' /\ At(c, "rollback")' /\ Added(c)' = {} /\ ~IsRunning(n)'
            BY <1>0, <4>2, <5>1 DEF Working, Active, Ended, At, IsRunning, Up, Deleted
          <5>4. c \in lapse'
            BY <4>2
          <5> QED
            BY <3>2, <4>2, <5>1, <5>2, <5>3, <5>4 DEF Orphan, At
        <4> QED
          BY <2>4, <3>2, <4>1, <4>2
      <3> QED
        BY <3>1, <3>2
    <2>6. Awaited(m, h) => Awaited(m, h)'
      <3> SUFFICES ASSUME NEW d \in Client, At(d, "wait"), cl[d].name = m, cl[d].via = h
                   PROVE  At(d, "wait")' /\ cl'[d].name = m /\ cl'[d].via = h
        BY DEF Awaited, At
      <3> QED
        BY DEF Others, At
    <2> QED
      BY <2>1, <2>4, <2>5, <2>6
  <1> QED
    BY <1>1, <1>2, <1>3, <1>4, <1>5, <1>6 DEF Inv

\* Where a client goes on after a deletion, or without one.
Retreats(c) ==
    /\ Others(c) /\ cl'[c].pc \in {"rollback", "rm"} /\ Active(c)'
    /\ cl'[c].op = cl[c].op /\ cl'[c].names = cl[c].names /\ cl'[c].primary = cl[c].primary
    /\ \A m \in Name : \/ cl'[c].mark[m] = cl[c].mark[m]
                       \/ m = cl[c].name /\ At(c, "destroy") /\ cl'[c].mark[m] = "no"

\* A client that gives a member up keeps what it knows.
LEMMA RetreatGood ==
  ASSUME Inv, NEW c \in Client, cl[c].pc \in {"delete", "destroy", "remove"},
         Retreats(c), ShapeOf(c)', helper' = helper, lapse \subseteq lapse',
         \A m \in Name : entry'[m].sock = entry[m].sock \/ entry'[m].sock = None
  PROVE  Good(c)' /\ Turn'
  <1>0. TypeOK /\ Good(c) /\ Active(c)
    BY DEF Inv, Active, Ended, At
  <1>1. Turn'
    <2>1. Calm(c)
      BY <1>0 DEF Calm, Working, Retreats
    <2> QED
      BY <2>1, TurnStays DEF Inv, Retreats
  <1>2. FilesOf(c)' /\ MissOf(c)'
    BY DEF FilesOf, MissOf, At, Retreats, UpPc
  <1>3. SpawnOf(c)'
    BY <1>0 DEF Good, SpawnOf, Active, At, Retreats
  <1>4. Added(c)' \subseteq Added(c)
    BY DEF Added, Marked, Retreats
  <1>5. FreshOf(c)'
    <2> SUFFICES ASSUME OwnsHelper(c), cl[c].primary \notin lapse,
                        cl'[c].mark[cl[c].primary] = "missing"
                 PROVE  /\ \A m \in Name \ {cl[c].primary} : helper[c].mem[m] = "none"
                               /\ entry[m].sock # c
                        /\ Added(c) = {}
      BY <1>4, Apart DEF FreshOf, At, OwnsHelper, Retreats, NamePc, UpPc, StopPc
    <2>1. cl[c].primary \in Name
      BY <1>0, Fields DEF Good, ShapeOf, OwnsHelper, Active
    <2>2. cl[c].mark[cl[c].primary] = "missing"
      BY <2>1 DEF Retreats
    <2> QED
      BY <1>0, <2>2 DEF Good, FreshOf
  <1>6. OwnedOf(c)'
    <2> SUFFICES ASSUME NEW m \in Name \ lapse, cl[c].op = "up", Working(c, m),
                        helper[c].mem[m] \in {"booting", "running"}
                 PROVE  cl'[c].mark[m] \in {"old", "new"}
      BY <1>0 DEF OwnedOf, Working, Retreats
    <2>1. /\ cl[c].mark[m] \in {"old", "new"}
          /\ ~(cl[c].pc \in {"stopPoll", "destroy"} /\ cl[c].name = m)
      BY <1>0 DEF Good, OwnedOf
    <2> QED
      BY <2>1 DEF Retreats, At
  <1> QED
    BY <1>1, <1>2, <1>3, <1>5, <1>6 DEF Good

\* The deferred delete of a member that failed to come up.
LEMMA DeleteFailedKeeps ==
  ASSUME Inv, NEW c \in Client, DeleteFailed(c)
  PROVE  Inv'
  <1> DEFINE n == cl[c].name
  <1>0. /\ TypeOK /\ n \in Name /\ At(c, "delete") /\ Delete(n) /\ Goto(c, Unwind(c))
        /\ lapse' = lapse \cup {h \in Client : helper[h].mem[n] # "none"} /\ helper' = helper
        /\ Good(c) /\ Active(c)
    BY Fields DEF Inv, Good, ShapeOf, NamePc, At, Active, Ended, DeleteFailed
  <1>1. Deleted(n)
    BY <1>0, DoDelete
  <1>2. \A m \in Name : entry'[m].sock = entry[m].sock \/ entry'[m].sock = None
    BY <1>1 DEF Deleted
  <1>3. lapse' \subseteq Name \cup Client
    BY <1>0 DEF TypeOK
  <1> HIDE DEF n
  <1>4. CASE Unwind(c) = "rollback"
    <2>1. Moves(c, "rollback")
      BY <1>0, <1>4, DoGoto DEF Pc
    <2>2. ShapeOf(c)'
      BY <1>0, <2>1, OnwardShape DEF Good, Writes
    <2>3. TypeOK' /\ Retreats(c) /\ Others(c) /\ cl'[c].op = cl[c].op
      BY <1>0, <1>1, <1>3, <2>1 DEF TypeOK, Deleted, Moves, Becomes, Retreats, Others, Active,
          Ended, At
    <2>4. Good(c)' /\ Turn'
      BY <1>0, <1>2, <2>2, <2>3, RetreatGood DEF At
    <2>5. At(c, "rollback")' /\ cl'[c].names = cl[c].names /\ Added(c)' = Added(c)
      BY <2>1 DEF Moves, Becomes, At, Added, Marked
    <2> QED
      BY <1>0, <1>1, <2>3, <2>4, <2>5, DeleteKeeps DEF At, n
  <1>5. CASE Unwind(c) = "err"
    <2>1. helper[c].up = "none"
      BY <1>5 DEF Unwind, OwnsHelper
    <2>2. Ends(c, "err")
      BY <1>0, <1>5, DoEnd
    <2>3. ShapeOf(c)' /\ ~Active(c)' /\ Added(c)' = {}
      BY <2>2, EndShape
    <2>4. TypeOK' /\ Others(c) /\ cl'[c].op = cl[c].op /\ cl'[c].pc = "err"
      BY <1>0, <1>1, <1>3, <2>2 DEF TypeOK, Deleted, Ends, Others
    <2>5. Turn'
      <3>1. Calm(c)
        BY <2>3 DEF Calm, Working
      <3> QED
        BY <1>0, <2>4, <3>1, TurnStays DEF Inv
    <2>6. Good(c)'
      BY <1>0, <2>1, <2>3, <2>4, NoHelper DEF Good, FilesOf, MissOf, At, UpPc
    <2>7. ~Own(c, n)
      BY <1>0, <2>1 DEF Own, Inv, HelpersInv
    <2> QED
      BY <1>0, <1>1, <2>4, <2>5, <2>6, <2>7, DeleteKeeps DEF At, n
  <1> QED
    BY <1>4, <1>5 DEF Unwind

\* The delete in VM.Destroy, after the stop.
LEMMA DestroyKeeps ==
  ASSUME Inv, NEW c \in Client, Destroy(c)
  PROVE  Inv'
  <1> DEFINE n == cl[c].name
             mark == [cl[c].mark EXCEPT ![n] = "no"]
  <1>0. /\ TypeOK /\ n \in Name /\ At(c, "destroy") /\ UNCHANGED <<helper, lapse>>
        /\ Good(c) /\ Active(c)
    BY Fields DEF Inv, Good, ShapeOf, NamePc, At, Active, Ended, Destroy
  <1>1. mark \in [Name -> Mark]
    BY <1>0, Fields DEF Mark
  <1>2. cl' = [cl EXCEPT ![c].pc = "rollback", ![c].mark = mark, ![c].name = None]
    BY <1>0, Fields DEF Destroy, TypeOK, ClientRec
  <1>3. \A m \in Name : mark[m] = IF m = n THEN "no" ELSE cl[c].mark[m]
    BY <1>0, Fields
  <1> HIDE DEF mark
  <1>4. Becomes(c, "rollback", cl[c].todo, mark, None, cl[c].existing, cl[c].primary, cl[c].via,
                cl[c].ret)
    BY <1>0, <1>1, <1>2, DoLeave
  <1>5. CASE entry' = entry \/ Deleted(n)
    <2>1. /\ TypeOK' /\ Others(c) /\ cl'[c].pc = "rollback" /\ cl'[c].todo = cl[c].todo
          /\ cl'[c].mark = mark /\ cl'[c].name = None /\ cl'[c].primary = cl[c].primary
          /\ cl'[c].op = cl[c].op /\ cl'[c].names = cl[c].names /\ Active(c)'
      BY <1>0, <1>4, <1>5 DEF Becomes, Others, TypeOK, Deleted, Active, Ended, At
    <2>2. Retreats(c)
      BY <1>0, <1>3, <2>1 DEF Retreats
    <2>3. ShapeOf(c)'
      <3>1. Added(c)' \subseteq Added(c)
        BY <1>3, <2>1 DEF Added, Marked
      <3>2. /\ cl[c].todo \subseteq cl[c].names
            /\ \A m \in Name : cl[c].mark[m] # "no" => m \in cl[c].names
            /\ cl[c].primary # None => cl[c].primary \in cl[c].names
            /\ cl[c].primary = None => Added(c) = {} /\ helper[c].up = "none"
        BY <1>0 DEF Good, ShapeOf, At, Active, Ended
      <3> QED
        BY <1>0, <1>3, <2>1, <3>1, <3>2 DEF ShapeOf, At, NamePc, UpPc, StopPc
    <2>4. \A m \in Name : entry'[m].sock = entry[m].sock \/ entry'[m].sock = None
      BY <1>5 DEF Deleted
    <2>5. Good(c)' /\ Turn'
      BY <1>0, <2>2, <2>3, <2>4, RetreatGood DEF At
    <2>6. CASE entry' = entry
      <3>1. Leaves(c)
        <4>1. \A m \in Name \ lapse' : Orphan(c, m) => Orphan(c, m)'
          BY <1>0, <2>1, <2>6 DEF Orphan, Bound, At
        <4> QED
          BY <1>0, <4>1 DEF Leaves, At
      <3>2. \A m \in Name \ lapse' :
              Making(c, m) => Making(c, m)' \/ Whole(m) \/ ~entry[m].cfg
        BY <1>0 DEF Making, At
      <3> QED
        BY <1>0, <2>1, <2>5, <2>6, <3>1, <3>2, ClientOnly
    <2>7. CASE Deleted(n)
      <3> HIDE DEF n
      <3> QED
        BY <1>0, <2>1, <2>5, <2>7, DeleteKeeps DEF At, n
    <2> QED
      BY <1>5, <2>6, <2>7
  <1> QED
    BY <1>0, <1>5, DoDelete DEF Destroy

\* The delete of rm, after the stop.
LEMMA RmDeleteKeeps ==
  ASSUME Inv, NEW c \in Client, RmDelete(c)
  PROVE  Inv'
  <1> DEFINE n == cl[c].name
             todo == cl[c].todo \ {n}
  <1>0. /\ TypeOK /\ n \in Name /\ At(c, "remove") /\ UNCHANGED <<helper, lapse>>
        /\ Good(c) /\ Active(c) /\ Delete(n)
    BY Fields DEF Inv, Good, ShapeOf, NamePc, At, Active, Ended, RmDelete
  <1>1. todo \in SUBSET Name /\ todo \subseteq cl[c].todo
    BY <1>0, Fields
  <1>2. cl' = [cl EXCEPT ![c].pc = "rm", ![c].todo = todo, ![c].name = None]
    BY <1>0, Fields DEF RmDelete, TypeOK, ClientRec
  <1> HIDE DEF todo
  <1>3. Becomes(c, "rm", todo, cl[c].mark, None, cl[c].existing, cl[c].primary, cl[c].via,
                cl[c].ret)
    BY <1>0, <1>1, <1>2, DoRemoved
  <1>4. Deleted(n)
    BY <1>0, DoDelete
  <1>5. /\ TypeOK' /\ Others(c) /\ cl'[c].pc = "rm" /\ cl'[c].todo = todo
        /\ cl'[c].mark = cl[c].mark /\ cl'[c].name = None /\ cl'[c].primary = cl[c].primary
        /\ cl'[c].op = cl[c].op /\ cl'[c].names = cl[c].names /\ Active(c)'
    BY <1>0, <1>3, <1>4 DEF Becomes, Others, TypeOK, Deleted, Active, Ended, At
  <1>6. Retreats(c)
    BY <1>5 DEF Retreats
  <1>7. ShapeOf(c)'
    <2>1. Added(c)' = Added(c)
      BY <1>5 DEF Added, Marked
    <2>2. /\ cl[c].todo \subseteq cl[c].names
          /\ \A m \in Name : cl[c].mark[m] # "no" => m \in cl[c].names
          /\ cl[c].primary = None /\ Added(c) = {} /\ helper[c].up = "none" /\ cl[c].op = "rm"
      BY <1>0 DEF Good, ShapeOf, At, Active, Ended
    <2> QED
      BY <1>0, <1>1, <1>5, <2>1, <2>2 DEF ShapeOf, At, NamePc, UpPc, StopPc
  <1>8. \A m \in Name : entry'[m].sock = entry[m].sock \/ entry'[m].sock = None
    BY <1>4 DEF Deleted
  <1>9. Good(c)' /\ Turn'
    BY <1>0, <1>6, <1>7, <1>8, RetreatGood DEF At
  <1> HIDE DEF n
  <1> QED
    BY <1>0, <1>4, <1>5, <1>9, DeleteKeeps DEF At, n

-----------------------------------------------------------------------------
(* Steps of the helpers, and of clients upon them                          *)

\* The members of a helper have their types.
LEMMA HelperFields ==
  ASSUME TypeOK, NEW h \in Client
  PROVE  /\ helper[h] \in Helper /\ helper[h].up \in {"none", "spawned", "up", "gone"}
         /\ helper[h].mem \in [Name -> MemberState] /\ helper[h].run \in [Name -> Disk \cup {None}]
  <1>1. helper[h] \in Helper
    BY DEF TypeOK
  <1> QED
    BY <1>1 DEF Helper

\* The member n of the helper h, in a new state.
Put(h, n, s, d) ==
    /\ helper' \in [Client -> Helper]
    /\ \A g \in Client \ {h} : helper'[g] = helper[g]
    /\ helper'[h].mem[n] = s /\ helper'[h].run[n] = d
    /\ \A m \in Name \ {n} : helper'[h].mem[m] = helper[h].mem[m]
           /\ helper'[h].run[m] = helper[h].run[m]

\* A step on one member of a helper leaves its other members alone.
LEMMA DoPut ==
  ASSUME TypeOK, NEW h \in Client, NEW n \in Name, NEW s \in MemberState,
             NEW d \in Disk \cup {None},
         helper' = [helper EXCEPT ![h].mem[n] = s, ![h].run[n] = d]
  PROVE  Put(h, n, s, d) /\ helper'[h].up = helper[h].up
  <1>1. helper[h] \in Helper
    BY HelperFields
  <1> DEFINE r == [helper[h] EXCEPT !.mem[n] = s, !.run[n] = d]
  <1>2. r \in Helper
    BY <1>1 DEF Helper
  <1>3. /\ r.up = helper[h].up /\ r.mem[n] = s /\ r.run[n] = d
        /\ \A m \in Name \ {n} : r.mem[m] = helper[h].mem[m] /\ r.run[m] = helper[h].run[m]
    BY <1>1 DEF Helper
  <1>4. helper' = [helper EXCEPT ![h] = r]
    BY <1>1 DEF TypeOK, Helper
  <1> HIDE DEF r
  <1> QED
    BY <1>2, <1>3, <1>4, Zenon DEF TypeOK, Put

\* A helper that comes up has its first member registered.
LEMMA DoServe ==
  ASSUME TypeOK, NEW h \in Client, NEW n \in Name,
         helper' = [helper EXCEPT ![h].up = "up", ![h].mem[n] = "starting"]
  PROVE  Put(h, n, "starting", helper[h].run[n]) /\ helper'[h].up = "up"
  <1>1. helper[h] \in Helper
    BY HelperFields
  <1> DEFINE r == [helper[h] EXCEPT !.up = "up", !.mem[n] = "starting"]
  <1>2. r \in Helper
    BY <1>1 DEF Helper, MemberState
  <1>3. /\ r.up = "up" /\ r.mem[n] = "starting" /\ r.run = helper[h].run
        /\ \A m \in Name \ {n} : r.mem[m] = helper[h].mem[m]
    BY <1>1 DEF Helper
  <1>4. helper' = [helper EXCEPT ![h] = r]
    BY <1>1 DEF TypeOK, Helper
  <1> HIDE DEF r
  <1> QED
    BY <1>2, <1>3, <1>4 DEF TypeOK, Put

\* A request changes the state of one member.
LEMMA DoMem ==
  ASSUME TypeOK, NEW h \in Client, NEW n \in Name, NEW s \in MemberState,
         helper' = [helper EXCEPT ![h].mem[n] = s]
  PROVE  Put(h, n, s, helper[h].run[n]) /\ helper'[h].up = helper[h].up
  <1>1. helper[h] \in Helper
    BY HelperFields
  <1> DEFINE r == [helper[h] EXCEPT !.mem[n] = s]
  <1>2. r \in Helper
    BY <1>1 DEF Helper
  <1>3. /\ r.up = helper[h].up /\ r.mem[n] = s /\ r.run = helper[h].run
        /\ \A m \in Name \ {n} : r.mem[m] = helper[h].mem[m]
    BY <1>1 DEF Helper
  <1>4. helper' = [helper EXCEPT ![h] = r]
    BY <1>1 DEF TypeOK, Helper
  <1> HIDE DEF r
  <1> QED
    BY <1>2, <1>3, <1>4 DEF TypeOK, Put

\* A spawn changes the client's own helper.
LEMMA DoSpawned ==
  ASSUME TypeOK, NEW h \in Client, helper' = [helper EXCEPT ![h].up = "spawned"]
  PROVE  /\ helper' \in [Client -> Helper] /\ \A g \in Client \ {h} : helper'[g] = helper[g]
         /\ helper'[h].up = "spawned" /\ helper'[h].mem = helper[h].mem
         /\ helper'[h].run = helper[h].run
  <1>1. helper[h] \in Helper
    BY HelperFields
  <1> DEFINE r == [helper[h] EXCEPT !.up = "spawned"]
  <1>2. r \in Helper /\ r.up = "spawned" /\ r.mem = helper[h].mem /\ r.run = helper[h].run
    BY <1>1 DEF Helper
  <1>4. helper' = [helper EXCEPT ![h] = r]
    BY <1>1 DEF TypeOK, Helper
  <1> HIDE DEF r
  <1> QED
    BY <1>2, <1>4 DEF TypeOK

\* A helper that is gone has no member and no VM.
LEMMA DoGone ==
  ASSUME TypeOK, NEW h \in Client, Gone(h)
  PROVE  /\ helper' \in [Client -> Helper] /\ \A g \in Client \ {h} : helper'[g] = helper[g]
         /\ helper'[h].up = "gone"
         /\ \A n \in Name : helper'[h].mem[n] = "none" /\ helper'[h].run[n] = None
  <1> DEFINE r == [up |-> "gone", mem |-> [n \in Name |-> "none"], run |-> [n \in Name |-> None]]
  <1>1. r \in Helper
    BY DEF Helper, MemberState
  <1>2. helper' = [helper EXCEPT ![h] = r]
    BY DEF Gone
  <1>3. r.up = "gone" /\ \A n \in Name : r.mem[n] = "none" /\ r.run[n] = None
    OBVIOUS
  <1> HIDE DEF r
  <1> QED
    BY <1>1, <1>2, <1>3 DEF TypeOK

\* The paths of n, in a new state; the rest of the directory stays.
Led(n, h) ==
    /\ entry' \in [Name -> Entry]
    /\ \A m \in Name \ {n} : entry'[m] = entry[m]
    /\ entry'[n].cfg = entry[n].cfg /\ entry'[n].cut = entry[n].cut
    /\ entry'[n].disk = entry[n].disk /\ entry'[n].seed = entry[n].seed
    /\ entry'[n].pid = h /\ entry'[n].sock = h

\* register leads both paths to the helper.
LEMMA DoRegistered ==
  ASSUME TypeOK, NEW n \in Name, NEW h \in Client,
         entry' = [entry EXCEPT ![n] = Registered(@, h)]
  PROVE  Led(n, h)
  <1>1. entry[n] \in Entry
    BY EntryFields
  <1> QED
    BY <1>1 DEF Led, Registered, TypeOK, Entry

\* retire takes both paths away.
LEMMA DoRetired ==
  ASSUME TypeOK, NEW n \in Name, entry' = [entry EXCEPT ![n] = Retired(@)]
  PROVE  Led(n, None)
  <1>1. entry[n] \in Entry
    BY EntryFields
  <1> QED
    BY <1>1 DEF Led, Retired, TypeOK, Entry

\* The contents of every directory stay.
DisksStay == \A n \in Name : /\ entry'[n].cfg = entry[n].cfg /\ entry'[n].cut = entry[n].cut
                             /\ entry'[n].disk = entry[n].disk /\ entry'[n].seed = entry[n].seed

\* A client that does not step, when a helper changes.
LEMMA GoodUnder ==
  ASSUME NEW d \in Client, TypeOK, Good(d), cl'[d] = cl[d], lapse \subseteq lapse', DisksStay,
         helper'[d].up = "none" <=> helper[d].up = "none",
         helper'[d].up = "spawned" => helper[d].up = "spawned",
         \A n \in Name \ lapse' : Working(d, n) =>
            /\ IsRunning(n)' =>
                  IsRunning(n) \/ (Own(d, n)' /\ cl[d].pc \notin {"destroy", "remove"})
            /\ Own(d, n) => Own(d, n)' \/ ~IsRunning(n)',
         \A n \in Name \ lapse' : Working(d, n) /\ helper'[d].mem[n] \in {"booting", "running"} =>
            helper[d].mem[n] \in {"booting", "running"},
         (/\ Active(d) /\ OwnsHelper(d) /\ cl[d].primary \notin lapse'
          /\ cl[d].mark[cl[d].primary] = "missing") =>
            \A m \in Name \ {cl[d].primary} :
               /\ helper[d].mem[m] = "none" => helper'[d].mem[m] = "none"
               /\ entry[m].sock # d => entry'[m].sock # d
  PROVE  Good(d)'
  <1>1. ShapeOf(d)'
    BY DEF Good, ShapeOf, Active, Ended, At, Added, Marked
  <1>2. FilesOf(d)'
    BY DEF Good, FilesOf, At, Whole, DisksStay
  <1>3. MissOf(d)'
    <2> SUFFICES ASSUME NEW n \in Name \ lapse'
                 PROVE  /\ (/\ cl[d].mark[n] = "missing" /\ cl[d].pc \in UpPc \cup {"look", "next"}
                            /\ ~(At(d, "wait") /\ cl[d].name = n))
                           => ~IsRunning(n)' \/ Own(d, n)'
                        /\ At(d, "delete") /\ cl[d].name = n => ~IsRunning(n)' \/ Own(d, n)'
                        /\ cl[d].pc \in {"destroy", "remove"} /\ cl[d].name = n => ~IsRunning(n)'
      BY DEF MissOf, At
    <2>1. /\ (/\ cl[d].mark[n] = "missing" /\ cl[d].pc \in UpPc \cup {"look", "next"}
              /\ ~(At(d, "wait") /\ cl[d].name = n))
             => Working(d, n) /\ (~IsRunning(n) \/ Own(d, n))
          /\ At(d, "delete") /\ cl[d].name = n => Working(d, n) /\ (~IsRunning(n) \/ Own(d, n))
          /\ cl[d].pc \in {"destroy", "remove"} /\ cl[d].name = n => Working(d, n) /\ ~IsRunning(n)
      BY DEF Good, MissOf, ShapeOf, Working, Active, Ended, At, NamePc, UpPc
    <2> QED
      BY <2>1 DEF At
  <1>4. SpawnOf(d)'
    BY DEF Good, SpawnOf, At, Ended, Added, Marked
  <1>5. FreshOf(d)'
    <2>1. ASSUME Active(d)', OwnsHelper(d)', cl'[d].primary \notin lapse',
                 cl'[d].mark[cl[d].primary] = "missing"
          PROVE  /\ \A m \in Name \ {cl[d].primary} : helper[d].mem[m] = "none" /\ entry[m].sock # d
                 /\ Added(d) = {} /\ ~At(d, "next") /\ Active(d) /\ OwnsHelper(d)
                 /\ cl[d].pc \in NamePc => cl[d].name = cl[d].primary
      BY <2>1 DEF Good, FreshOf, Active, Ended, At, OwnsHelper
    <2> QED
      BY <2>1 DEF FreshOf, Active, Ended, At, OwnsHelper, Added, Marked
  <1>6. OwnedOf(d)'
    BY DEF Good, OwnedOf, Working, Active, Ended
  <1> QED
    BY <1>1, <1>2, <1>3, <1>4, <1>5, <1>6 DEF Good

\* The parts of the invariant that rest on the directories alone.
LEMMA DisksKeep ==
  ASSUME Inv, DisksStay, lapse \subseteq lapse',
         \A d \in Client, n \in Name \ lapse' : Making(d, n) => Making(d, n)'
  PROVE  DiskInEntry' /\ EntryComplete'
  BY DEF Inv, DisksStay, DiskInEntry, EntryComplete, Making

\* An orphan that is left alone.
LEMMA OrphanStays ==
  ASSUME NEW h \in Client, NEW n \in Name, Orphan(h, n), helper'[h] = helper[h],
         cl'[h] = cl[h] \/ (cl'[h].op = cl[h].op /\ cl[h].pc \notin {"rollback", "close"}),
         lapse \subseteq lapse', \A m \in Name : entry'[m].sock # h,
         Bound(h) /\ IsRunning(n)' => IsRunning(n)
  PROVE  Orphan(h, n)'
  BY DEF Orphan, Bound, Working, Active, Ended, Added, Marked

\* A step of a helper keeps the invariant when it keeps what concerns helpers.
LEMMA HelperKeeps ==
  ASSUME Inv, TypeOK', cl' = cl, lapse \subseteq lapse', DisksStay, HelpersInv', RunningKeepsDisk',
         Registration', \A d \in Client : Good(d)'
  PROVE  Inv'
  <1>1. Turn'
    BY DEF Inv, Turn, Working, Active, Ended, At
  <1>2. DiskInEntry' /\ EntryComplete'
    <2>1. \A d \in Client, n \in Name \ lapse' : Making(d, n) => Making(d, n)'
      BY DEF Making
    <2> QED
      BY <2>1, DisksKeep
  <1> QED
    BY <1>1, <1>2 DEF Inv

\* A step of a helper leaves the waits of clients alone.
LEMMA AwaitedStays ==
  ASSUME cl' = cl
  PROVE  \A n \in Name, h \in Client : Awaited(n, h) <=> Awaited(n, h)'
  BY DEF Awaited, At

\* The state of a member that has no boot pending, or had one, changes in its helper alone.
LEMMA MemberKeeps ==
  ASSUME Inv, NEW h \in Client, NEW n \in Name, NEW s, NEW d, Put(h, n, s, d),
         helper'[h].up = helper[h].up, helper[h].up = "up", UNCHANGED <<entry, cl, lapse>>,
         d = None \/ d = helper[h].run[n],
         \/ helper[h].mem[n] = "booting" /\ s = "running"
         \/ helper[h].mem[n] = "booting" /\ s = "error" /\ d = None
         \/ helper[h].mem[n] = "stopping" /\ s = "stopping"
         \/ helper[h].mem[n] = "reaping" /\ s = "none" /\ d = None
  PROVE  Inv'
  <1>0. TypeOK /\ TypeOK' /\ DisksStay
    BY DEF Inv, TypeOK, Put, DisksStay
  <1>1. \A m \in Name : IsRunning(m)' <=> IsRunning(m)
    BY <1>0, EntryFields DEF IsRunning, Up, Put
  <1>2. HelpersInv'
    <2>1. \A m \in Name : entry[m].pid # None => helper'[entry[m].pid].up \in {"up", "gone"}
      BY <1>0, EntryFields DEF Inv, HelpersInv, Put
    <2>2. ASSUME NEW g \in Client, NEW m \in Name
          PROVE  /\ helper'[g].mem[m] # "none" => helper'[g].up = "up"
                 /\ helper'[g].run[m] # None =>
                      helper'[g].mem[m] \in {"booting", "running", "stopping", "reaping"}
      <3>1. CASE g = h /\ m = n
        BY <3>1 DEF Put
      <3>2. CASE g # h \/ m # n
        BY <3>2 DEF Inv, HelpersInv, Put
      <3> QED
        BY <3>1, <3>2
    <2> QED
      BY <2>1, <2>2 DEF Inv, HelpersInv
  <1>3. RunningKeepsDisk'
    <2> SUFFICES ASSUME NEW g \in Client, NEW m \in Name \ lapse, helper'[g].run[m] # None
                 PROVE  entry[m].disk = helper'[g].run[m]
      BY DEF RunningKeepsDisk
    <2>1. helper'[g].run[m] = helper[g].run[m]
      BY DEF Put
    <2> QED
      BY <2>1 DEF Inv, RunningKeepsDisk
  <1>4. Registration'
    <2> SUFFICES ASSUME NEW g \in Client, NEW m \in Name \ lapse PROVE Traced(g, m)'
      BY DEF Registration
    <2>1. Traced(g, m)
      BY DEF Inv, Registration
    <2>2. LeadsTo(m, g)' <=> LeadsTo(m, g)
      BY DEF LeadsTo
    <2>3. CASE g # h
      <3>1. helper'[g] = helper[g]
        BY <2>3 DEF Put
      <3>2. Orphan(g, m) => Orphan(g, m)'
        BY <1>1, <3>1, OrphanStays DEF Orphan
      <3> QED
        BY <2>1, <2>2, <3>1, <3>2, AwaitedStays DEF Traced
    <2>4. CASE g = h
      <3>1. ~Orphan(h, m)
        BY DEF Orphan
      <3>2. CASE m = n
        <4>1. helper'[h].mem[m] = s /\ helper[h].mem[m] # "none" /\ helper[h].mem[m] # "reaping"
          BY <2>1, <2>4, <3>2 DEF Put, Traced
        <4> QED
          BY <2>1, <2>2, <2>4, <3>1, <3>2, <4>1 DEF Traced
      <3>3. CASE m # n
        <4>1. helper'[h].mem[m] = helper[h].mem[m]
          BY <3>3 DEF Put
        <4> QED
          BY <2>1, <2>2, <2>4, <3>1, <4>1, AwaitedStays DEF Traced
      <3> QED
        BY <3>2, <3>3
    <2> QED
      BY <2>3, <2>4
  <1>5. ASSUME NEW e \in Client PROVE Good(e)'
    <2>1. Good(e) /\ cl'[e] = cl[e] /\ helper'[e].up = helper[e].up
      BY DEF Inv, Put
    <2>2. \A m \in Name : Own(e, m) => Own(e, m)'
      BY DEF Own, Put
    <2>3. \A m \in Name : helper'[e].mem[m] \in {"booting", "running"} =>
                             helper[e].mem[m] \in {"booting", "running"}
      BY DEF Put
    <2>4. \A m \in Name : helper[e].mem[m] = "none" => helper'[e].mem[m] = "none"
      BY DEF Put
    <2> QED
      BY <1>0, <1>1, <2>1, <2>2, <2>3, <2>4, GoodUnder
  <1> QED
    BY <1>0, <1>2, <1>3, <1>4, <1>5, HelperKeeps

\* A boot that ends, well or not.
LEMMA HelperBootedKeeps ==
  ASSUME Inv, NEW h \in Client, NEW n \in Name, HelperBooted(h, n)
  PROVE  Inv'
  <1>0. /\ TypeOK /\ helper[h].up = "up" /\ helper[h].mem[n] = "booting"
        /\ UNCHANGED <<entry, cl, lapse>> /\ helper[h].run[n] \in Disk \cup {None}
    BY HelperFields DEF Inv, HelperBooted, Up
  <1>1. CASE SetMember(h, n, "running", helper[h].run[n])
    <2> DEFINE d == helper[h].run[n]
    <2>1. d \in Disk \cup {None}
      BY <1>0
    <2> HIDE DEF d
    <2>2. Put(h, n, "running", d) /\ helper'[h].up = helper[h].up
      BY <1>0, <1>1, <2>1, DoPut DEF SetMember, MemberState, d
    <2> QED
      BY <1>0, <2>2, MemberKeeps DEF d
  <1>2. CASE SetMember(h, n, "error", None)
    <2>1. Put(h, n, "error", None) /\ helper'[h].up = helper[h].up
      BY <1>0, <1>2, DoPut DEF SetMember, MemberState
    <2> QED
      BY <1>0, <2>1, MemberKeeps
  <1> QED
    BY <1>1, <1>2 DEF HelperBooted

\* A VM that goes down.
LEMMA HelperStopVMKeeps ==
  ASSUME Inv, NEW h \in Client, NEW n \in Name, HelperStopVM(h, n)
  PROVE  Inv'
  <1>0. TypeOK /\ helper[h].up = "up" /\ UNCHANGED <<entry, cl, lapse>>
    BY DEF Inv, HelperStopVM, Up
  <1>1. CASE helper[h].mem[n] = "stopping" /\ SetMember(h, n, "stopping", None)
    <2>1. Put(h, n, "stopping", None) /\ helper'[h].up = helper[h].up
      BY <1>0, <1>1, DoPut DEF SetMember, MemberState
    <2> QED
      BY <1>0, <1>1, <2>1, MemberKeeps
  <1>2. CASE helper[h].mem[n] = "reaping" /\ SetMember(h, n, "none", None)
    <2>1. Put(h, n, "none", None) /\ helper'[h].up = helper[h].up
      BY <1>0, <1>2, DoPut DEF SetMember, MemberState
    <2> QED
      BY <1>0, <1>2, <2>1, MemberKeeps
  <1> QED
    BY <1>1, <1>2 DEF HelperStopVM

\* The retirement of a member that is down.
LEMMA HelperRetireKeeps ==
  ASSUME Inv, NEW h \in Client, NEW n \in Name, HelperRetire(h, n)
  PROVE  Inv'
  <1>0. /\ TypeOK /\ helper[h].up = "up" /\ UNCHANGED <<cl, lapse>>
        /\ helper[h].mem[n] = "stopping"
    BY DEF Inv, HelperRetire, Up
  <1>1. Put(h, n, "none", None) /\ helper'[h].up = helper[h].up
    BY <1>0, DoPut, Zenon DEF HelperRetire, SetMember, MemberState
  <1>2. Led(n, None)
    BY <1>0, DoRetired DEF HelperRetire
  <1>3. TypeOK' /\ DisksStay
    BY <1>0, <1>1, <1>2 DEF TypeOK, Put, Led, DisksStay
  <1>4. \A m \in Name : IsRunning(m)' => IsRunning(m)
    BY <1>0, <1>1, <1>2, EntryFields DEF IsRunning, Up, Put, Led
  <1>5. \A m \in Name : entry'[m].sock = entry[m].sock \/ entry'[m].sock = None
    BY <1>2 DEF Led
  <1>6. HelpersInv'
    <2>1. \A m \in Name : entry'[m].pid = entry'[m].sock
                          /\ (entry'[m].pid # None => helper'[entry'[m].pid].up \in {"up", "gone"})
      BY <1>0, <1>1, <1>2, EntryFields DEF Inv, HelpersInv, Put, Led
    <2>2. ASSUME NEW g \in Client, NEW m \in Name
          PROVE  /\ helper'[g].mem[m] # "none" => helper'[g].up = "up"
                 /\ helper'[g].run[m] # None =>
                      helper'[g].mem[m] \in {"booting", "running", "stopping", "reaping"}
      BY <1>1 DEF Inv, HelpersInv, Put
    <2> QED
      BY <2>1, <2>2 DEF HelpersInv
  <1>7. RunningKeepsDisk'
    BY <1>0, <1>1, <1>3 DEF Inv, RunningKeepsDisk, Put, DisksStay
  <1>8. Registration'
    <2> SUFFICES ASSUME NEW g \in Client, NEW m \in Name \ lapse PROVE Traced(g, m)'
      BY <1>0 DEF Registration
    <2>1. Traced(g, m)
      BY DEF Inv, Registration
    <2>2. CASE g # h
      <3>1. helper'[g] = helper[g]
        BY <1>1, <2>2 DEF Put
      <3>2. Orphan(g, m) => Orphan(g, m)'
        BY <1>0, <1>4, <1>5, <3>1, Apart, OrphanStays DEF Orphan
      <3>3. LeadsTo(m, g) /\ helper[g].mem[m] # "none" => LeadsTo(m, g)'
        <4>1. CASE m # n
          BY <1>2, <4>1 DEF LeadsTo, Led
        <4>2. CASE m = n
          <5>1. Traced(h, n)
            BY <4>2 DEF Inv, Registration
          <5>2. LeadsTo(n, h)
            BY <1>0, <5>1 DEF Traced, Orphan
          <5> QED
            BY <2>2, <4>2, <5>2 DEF LeadsTo
        <4> QED
          BY <4>1, <4>2
      <3> QED
        BY <1>0, <2>1, <3>1, <3>2, <3>3, AwaitedStays DEF Traced
    <2>3. CASE g = h
      <3>1. ~Orphan(h, m)
        BY <1>0 DEF Orphan
      <3>2. CASE m = n
        <4>1. helper'[h].mem[m] = "none"
          BY <1>1, <3>2 DEF Put
        <4> QED
          BY <2>3, <4>1 DEF Traced
      <3>3. CASE m # n
        <4>1. helper'[h].mem[m] = helper[h].mem[m] /\ (LeadsTo(m, h)' <=> LeadsTo(m, h))
          BY <1>1, <1>2, <3>3 DEF Put, LeadsTo, Led
        <4> QED
          BY <1>0, <2>1, <2>3, <3>1, <4>1, AwaitedStays DEF Traced
      <3> QED
        BY <3>2, <3>3
    <2> QED
      BY <2>2, <2>3
  <1>9. ASSUME NEW e \in Client PROVE Good(e)'
    <2>1. Good(e) /\ cl'[e] = cl[e] /\ helper'[e].up = helper[e].up
      BY <1>0, <1>1 DEF Inv, Put
    <2>2. \A m \in Name : Own(e, m) => Own(e, m)' \/ ~IsRunning(m)'
      <3>1. ~IsRunning(n)'
        BY <1>2 DEF IsRunning, Up, Led
      <3>2. \A m \in Name \ {n} : Own(e, m) => Own(e, m)'
        BY <1>0, <1>1, <1>2 DEF Own, Put, Led
      <3> QED
        BY <3>1, <3>2
    <2>3. \A m \in Name : helper'[e].mem[m] \in {"booting", "running"} =>
                             helper[e].mem[m] \in {"booting", "running"}
      BY <1>1 DEF Put
    <2>4. \A m \in Name : helper[e].mem[m] = "none" => helper'[e].mem[m] = "none"
      BY <1>1 DEF Put
    <2> QED
      BY <1>0, <1>3, <1>4, <1>5, <2>1, <2>2, <2>3, <2>4, Apart, GoodUnder
  <1> QED
    BY <1>0, <1>3, <1>6, <1>7, <1>8, <1>9, HelperKeeps

\* A helper that comes up: it serves the client that spawned it or one that has given it
\* up, and meets nobody else, or the name lapses.
LEMMA HelperServeKeeps ==
  ASSUME Inv, NEW h \in Client, HelperServe(h)
  PROVE  Inv'
  <1> DEFINE n == cl[h].primary
  <1>0. TypeOK /\ Good(h) /\ helper[h].up = "spawned" /\ cl' = cl /\ n \in Name
        /\ cl[h].primary = n /\ lapse' = lapse \cup {m \in {n} : Met(h, m)}
    BY DEF Inv, HelperServe, Good, SpawnOf
  <1>1. Put(h, n, "starting", helper[h].run[n]) /\ helper'[h].up = "up"
    BY <1>0, DoServe DEF HelperServe
  <1>2. Led(n, h)
    BY <1>0, DoRegistered DEF HelperServe
  <1>3. n \notin lapse' =>
            /\ n \notin lapse
            /\ \A d \in Client \ {h} : helper[d].mem[n] = "none" /\ ~Working(d, n)
            /\ cl[h].pc \in {"bind", "network", "rollback", "close"} \/ ~Working(h, n)
    <2> SUFFICES ASSUME n \notin lapse'
                 PROVE  /\ n \notin lapse
                        /\ \A d \in Client \ {h} : helper[d].mem[n] = "none" /\ ~Working(d, n)
                        /\ cl[h].pc \in {"bind", "network", "rollback", "close"} \/ ~Working(h, n)
      OBVIOUS
    <2>1. n \notin lapse /\ ~Met(h, n)
      BY <1>0
    <2>2. \A d \in Client \ {h} : helper[d].mem[n] = "none" /\ ~Working(d, n)
      BY <2>1 DEF Met, Working
    <2>3. cl[h].pc \in {"bind", "network", "rollback", "close"} \/ ~Working(h, n)
      BY <1>0, <2>1 DEF Good, SpawnOf, Working, Active
    <2> QED
      BY <2>1, <2>2, <2>3
  <1> HIDE DEF n
  <1>4. TypeOK' /\ DisksStay /\ lapse \subseteq lapse'
    BY <1>0, <1>1, <1>2 DEF TypeOK, Put, Led, DisksStay
  <1>5. \A m \in Name : helper[h].mem[m] = "none" /\ helper[h].run[m] = None /\ entry[m].pid # h
                        /\ entry[m].sock # h
    BY <1>0, Apart, EntryFields, HelperFields DEF Inv, HelpersInv, MemberState
  <1>6. \A m \in Name \ {n} : IsRunning(m)' <=> IsRunning(m)
    BY <1>0, <1>1, <1>2, <1>5, EntryFields DEF IsRunning, Up, Put, Led
  <1>8. HelpersInv'
    <2>1. \A m \in Name : entry'[m].pid = entry'[m].sock
                          /\ (entry'[m].pid # None => helper'[entry'[m].pid].up \in {"up", "gone"})
      <3> SUFFICES ASSUME NEW m \in Name
                   PROVE  entry'[m].pid = entry'[m].sock
                          /\ (entry'[m].pid # None => helper'[entry'[m].pid].up \in {"up", "gone"})
        OBVIOUS
      <3>1. CASE m = n
        BY <1>1, <1>2, <3>1 DEF Led
      <3>2. CASE m # n
        BY <1>0, <1>1, <1>2, <1>5, <3>2, EntryFields DEF Inv, HelpersInv, Put, Led
      <3> QED
        BY <3>1, <3>2
    <2>2. ASSUME NEW g \in Client, NEW m \in Name
          PROVE  /\ helper'[g].mem[m] # "none" => helper'[g].up = "up"
                 /\ helper'[g].run[m] # None =>
                      helper'[g].mem[m] \in {"booting", "running", "stopping", "reaping"}
      <3>1. CASE g = h
        BY <1>0, <1>1, <1>5, <3>1 DEF Put
      <3>2. CASE g # h
        BY <1>1, <3>2 DEF Inv, HelpersInv, Put
      <3> QED
        BY <3>1, <3>2
    <2> QED
      BY <2>1, <2>2 DEF HelpersInv
  <1>9. RunningKeepsDisk'
    <2>1. \A g \in Client, m \in Name : helper'[g].run[m] = helper[g].run[m]
      BY <1>0, <1>1 DEF Put
    <2> QED
      BY <1>0, <1>4, <2>1 DEF Inv, RunningKeepsDisk, DisksStay
  <1>10. Registration'
    <2> SUFFICES ASSUME NEW g \in Client, NEW m \in Name \ lapse' PROVE Traced(g, m)'
      BY DEF Registration
    <2>1. Traced(g, m)
      BY <1>4 DEF Inv, Registration
    <2>2. CASE g # h
      <3>1. helper'[g] = helper[g]
        BY <1>1, <2>2 DEF Put
      <3>2. Orphan(g, m) => Orphan(g, m)'
        <4> SUFFICES ASSUME Orphan(g, m) PROVE Orphan(g, m)'
          OBVIOUS
        <4>1. \A x \in Name : entry'[x].sock # g
          BY <1>2, <2>2 DEF Orphan, Led
        <4>2. ASSUME Bound(g), m = n PROVE FALSE
          <5>1. Working(g, n)
            BY <4>2 DEF Orphan
          <5> QED
            BY <1>3, <2>2, <4>2, <5>1
        <4> QED
          BY <1>0, <1>4, <1>6, <3>1, <4>1, <4>2, OrphanStays
      <3>3. LeadsTo(m, g) /\ helper[g].mem[m] # "none" => LeadsTo(m, g)'
        <4>1. CASE m # n
          BY <1>2, <4>1 DEF LeadsTo, Led
        <4>2. ASSUME m = n, LeadsTo(m, g), helper[g].mem[m] # "none" PROVE FALSE
          BY <1>3, <2>2, <4>2
        <4> QED
          BY <4>1, <4>2
      <3> QED
        BY <1>0, <2>1, <3>1, <3>2, <3>3, AwaitedStays DEF Traced
    <2>3. CASE g = h
      <3>1. CASE m = n
        BY <1>1, <1>2, <2>3, <3>1 DEF Put, Led, Traced, LeadsTo
      <3>2. CASE m # n
        <4>1. helper'[h].mem[m] = "none"
          BY <1>1, <1>5, <3>2 DEF Put
        <4> QED
          BY <2>3, <4>1 DEF Traced
      <3> QED
        BY <3>1, <3>2
    <2> QED
      BY <2>2, <2>3
  <1>11. ASSUME NEW e \in Client PROVE Good(e)'
    <2>1. Good(e) /\ cl'[e] = cl[e]
      BY <1>0 DEF Inv
    <2>2. /\ helper'[e].up = "none" <=> helper[e].up = "none"
          /\ helper'[e].up = "spawned" => helper[e].up = "spawned"
      BY <1>0, <1>1 DEF Put
    <2>3. ASSUME NEW m \in Name \ lapse', Working(e, m)
          PROVE  /\ IsRunning(m)' =>
                      IsRunning(m) \/ (Own(e, m)' /\ cl[e].pc \notin {"destroy", "remove"})
                 /\ Own(e, m) => Own(e, m)' \/ ~IsRunning(m)'
      <3>1. CASE m # n
        BY <1>0, <1>1, <1>2, <1>6, <3>1 DEF Own, Put, Led
      <3>2. CASE m = n
        <4>1. e = h /\ cl[h].pc \in {"bind", "network", "rollback", "close"}
          BY <1>3, <2>3, <3>2
        <4>2. Own(h, m)'
          BY <1>0, <1>1, <1>2, <3>2 DEF Own, Put, Led
        <4> QED
          BY <3>2, <4>1, <4>2
      <3> QED
        BY <3>1, <3>2
    <2>4. \A m \in Name : helper'[e].mem[m] \in {"booting", "running"} =>
                             helper[e].mem[m] \in {"booting", "running"}
      BY <1>1 DEF Put
    <2>5. \A m \in Name \ {cl[e].primary} :
             /\ helper[e].mem[m] = "none" => helper'[e].mem[m] = "none"
             /\ entry[m].sock # e => entry'[m].sock # e
      BY <1>1, <1>2, <2>1 DEF Put, Led, n
    <2> QED
      BY <1>0, <1>4, <2>1, <2>2, <2>3, <2>4, <2>5, GoodUnder
  <1> QED
    BY <1>0, <1>4, <1>8, <1>9, <1>10, <1>11, HelperKeeps

\* A helper ends; what it retires leads to nobody else.
LEMMA GoneKeeps ==
  ASSUME Inv, NEW h \in Client, Gone(h), helper[h].up \in {"spawned", "up"}, UNCHANGED <<cl,
             lapse>>,
         entry' \in [Name -> Entry], DisksStay,
         \A n \in Name : \/ entry'[n].pid = entry[n].pid /\ entry'[n].sock = entry[n].sock
                         \/ entry'[n].pid = None /\ entry'[n].sock = None,
         \A n \in Name \ lapse, g \in Client \ {h} :
            LeadsTo(n, g) /\ helper[g].mem[n] # "none" => LeadsTo(n, g)'
  PROVE  Inv'
  <1>0. /\ TypeOK /\ helper' \in [Client -> Helper]
               /\ \A g \in Client \ {h} : helper'[g] = helper[g]
        /\ helper'[h].up = "gone"
        /\ \A n \in Name : helper'[h].mem[n] = "none" /\ helper'[h].run[n] = None
    BY DoGone DEF Inv
  <1>1. TypeOK'
    BY <1>0 DEF TypeOK
  <1>2. \A m \in Name : IsRunning(m)' => IsRunning(m)
    <2> SUFFICES ASSUME NEW m \in Name, IsRunning(m)' PROVE IsRunning(m)
      OBVIOUS
    <2>1. entry'[m].pid = entry[m].pid /\ entry[m].pid \in Client
      BY <1>0, EntryFields DEF IsRunning, Up
    <2> QED
      BY <1>0, <2>1 DEF IsRunning, Up
  <1>3. \A m \in Name : entry'[m].sock = entry[m].sock \/ entry'[m].sock = None
    OBVIOUS
  <1>4. HelpersInv'
    <2>1. ASSUME NEW m \in Name
          PROVE  entry'[m].pid = entry'[m].sock
                 /\ (entry'[m].pid # None => helper'[entry'[m].pid].up \in {"up", "gone"})
      <3>1. CASE entry'[m].pid = None /\ entry'[m].sock = None
        BY <3>1
      <3>2. CASE entry'[m].pid = entry[m].pid /\ entry'[m].sock = entry[m].sock
        <4>1. CASE entry[m].pid = h
          BY <1>0, <3>2, <4>1 DEF Inv, HelpersInv
        <4>2. CASE entry[m].pid # h
          BY <1>0, <3>2, <4>2, EntryFields DEF Inv, HelpersInv
        <4> QED
          BY <4>1, <4>2
      <3> QED
        BY <3>1, <3>2
    <2>2. ASSUME NEW g \in Client, NEW m \in Name
          PROVE  /\ helper'[g].mem[m] # "none" => helper'[g].up = "up"
                 /\ helper'[g].run[m] # None =>
                      helper'[g].mem[m] \in {"booting", "running", "stopping", "reaping"}
      BY <1>0 DEF Inv, HelpersInv
    <2> QED
      BY <2>1, <2>2 DEF HelpersInv
  <1>5. RunningKeepsDisk'
    <2> SUFFICES ASSUME NEW g \in Client, NEW m \in Name \ lapse, helper'[g].run[m] # None
                 PROVE  entry'[m].disk = helper'[g].run[m]
      BY DEF RunningKeepsDisk
    <2>1. g # h /\ helper'[g] = helper[g]
      BY <1>0
    <2> QED
      BY <2>1 DEF Inv, RunningKeepsDisk, DisksStay
  <1>6. Registration'
    <2> SUFFICES ASSUME NEW g \in Client, NEW m \in Name \ lapse PROVE Traced(g, m)'
      BY DEF Registration
    <2>1. CASE g = h
      BY <1>0, <2>1 DEF Traced
    <2>2. CASE g # h
      <3>1. Traced(g, m) /\ helper'[g] = helper[g]
        BY <1>0, <2>2 DEF Inv, Registration
      <3>2. Orphan(g, m) => Orphan(g, m)'
        BY <1>2, <1>3, <3>1, Apart, OrphanStays DEF Orphan
      <3> QED
        BY <2>2, <3>1, <3>2, AwaitedStays DEF Traced
    <2> QED
      BY <2>1, <2>2
  <1>7. ASSUME NEW e \in Client PROVE Good(e)'
    <2>1. Good(e) /\ cl'[e] = cl[e]
      BY DEF Inv
    <2>2. /\ helper'[e].up = "none" <=> helper[e].up = "none"
          /\ helper'[e].up = "spawned" => helper[e].up = "spawned"
      BY <1>0
    <2>3. \A m \in Name : Own(e, m) => Own(e, m)' \/ ~IsRunning(m)'
      <3> SUFFICES ASSUME NEW m \in Name, Own(e, m), IsRunning(m)' PROVE Own(e, m)'
        OBVIOUS
      <3>1. entry'[m].pid = e /\ entry[m].pid = e
        BY DEF IsRunning, Up, Own
      <3>2. e # h
        BY <1>0, <3>1 DEF IsRunning, Up
      <3> QED
        BY <1>0, <3>1, <3>2 DEF Own
    <2>4. \A m \in Name : helper'[e].mem[m] \in {"booting", "running"} =>
                             helper[e].mem[m] \in {"booting", "running"}
      BY <1>0
    <2>5. \A m \in Name : helper[e].mem[m] = "none" => helper'[e].mem[m] = "none"
      BY <1>0
    <2> QED
      BY <1>0, <1>2, <1>3, <2>1, <2>2, <2>3, <2>4, <2>5, Apart, GoodUnder
  <1> QED
    BY <1>1, <1>4, <1>5, <1>6, <1>7, HelperKeeps

\* A helper that dies leaves its files, and nothing runs.
LEMMA HelperCrashKeeps ==
  ASSUME Inv, NEW h \in Client, HelperCrash(h)
  PROVE  Inv'
  <1>1. Gone(h) /\ helper[h].up \in {"spawned", "up"} /\ UNCHANGED <<entry, cl, lapse>> /\ TypeOK
    BY DEF HelperCrash, Inv
  <1>2. entry' \in [Name -> Entry] /\ DisksStay
    BY <1>1 DEF TypeOK, DisksStay
  <1>3. \A n \in Name, g \in Client : LeadsTo(n, g) => LeadsTo(n, g)'
    BY <1>1 DEF LeadsTo
  <1> QED
    BY <1>1, <1>2, <1>3, GoneKeeps

\* A helper that ends retires what it has left.
LEMMA HelperEndKeeps ==
  ASSUME Inv, NEW h \in Client, HelperEnd(h)
  PROVE  Inv'
  <1>1. Gone(h) /\ helper[h].up = "up" /\ UNCHANGED <<cl, lapse>> /\ TypeOK
    BY DEF HelperEnd, Up, Inv
  <1>2. \A n \in Name : entry'[n] = IF helper[h].mem[n] \in {"none", "reaping"} THEN entry[n]
                                    ELSE Retired(entry[n])
    BY DEF HelperEnd
  <1>3. ASSUME NEW n \in Name
        PROVE  /\ Retired(entry[n]) \in Entry
               /\ Retired(entry[n]).cfg = entry[n].cfg /\ Retired(entry[n]).cut = entry[n].cut
               /\ Retired(entry[n]).disk = entry[n].disk
               /\ Retired(entry[n]).seed = entry[n].seed
               /\ Retired(entry[n]).pid = None /\ Retired(entry[n]).sock = None
    <2>1. entry[n] \in Entry
      BY <1>1, EntryFields
    <2> QED
      BY <2>1 DEF Retired, Entry
  <1>4. entry' \in [Name -> Entry]
    <2>1. entry' = [n \in Name |-> IF helper[h].mem[n] \in {"none", "reaping"} THEN entry[n]
                                   ELSE Retired(entry[n])]
      BY DEF HelperEnd
    <2> QED
      BY <1>1, <1>3, <2>1, EntryFields
  <1>5. DisksStay
    BY <1>2, <1>3 DEF DisksStay
  <1>6. \A n \in Name : \/ entry'[n].pid = entry[n].pid /\ entry'[n].sock = entry[n].sock
                        \/ entry'[n].pid = None /\ entry'[n].sock = None
    BY <1>2, <1>3
  <1>7. ASSUME NEW n \in Name \ lapse, NEW g \in Client \ {h}, LeadsTo(n, g),
               helper[g].mem[n] # "none"
        PROVE  helper[h].mem[n] = "none"
    <2> SUFFICES ASSUME helper[h].mem[n] # "none" PROVE FALSE
      OBVIOUS
    <2>1. ~LeadsTo(n, h)
      BY <1>7 DEF LeadsTo
    <2>2. Orphan(h, n)
      BY <2>1 DEF Inv, Registration, Traced
    <2>3. Bound(h)
      BY <2>2 DEF HelperEnd, Orphan
    <2>4. IsRunning(n)
      BY <1>7, Apart DEF LeadsTo, IsRunning, Up, Inv, HelpersInv
    <2> QED
      BY <2>2, <2>3, <2>4 DEF Orphan
  <1>8. \A n \in Name \ lapse, g \in Client \ {h} :
            LeadsTo(n, g) /\ helper[g].mem[n] # "none" => LeadsTo(n, g)'
    BY <1>2, <1>7 DEF LeadsTo
  <1> QED
    BY <1>1, <1>4, <1>5, <1>6, <1>8, GoneKeeps

-----------------------------------------------------------------------------
(* Steps of a client upon a helper                                         *)

\* A step of a client upon a helper keeps the invariant when it keeps what concerns helpers.
LEMMA StepKeeps ==
  ASSUME Inv, TypeOK', NEW c \in Client, Others(c), Active(c), cl'[c].names = cl[c].names,
         lapse' = lapse, DisksStay, \A n \in Name : ~Making(c, n),
         HelpersInv', RunningKeepsDisk', Registration', \A d \in Client : Good(d)'
  PROVE  Inv'
  <1>1. Turn'
    <2>1. Calm(c)
      BY DEF Calm, Working
    <2> QED
      BY <2>1, TurnStays DEF Inv
  <1>2. DiskInEntry' /\ EntryComplete'
    <2>1. \A d \in Client, n \in Name \ lapse' : Making(d, n) => Making(d, n)'
      BY DEF Making, Others
    <2> QED
      BY <2>1, DisksKeep
  <1> QED
    BY <1>1, <1>2 DEF Inv

\* The waits of other clients go on.
LEMMA AwaitedOn ==
  ASSUME NEW c \in Client, Others(c), ~At(c, "wait")
  PROVE  \A n \in Name, h \in Client : Awaited(n, h) => Awaited(n, h)'
  <1> SUFFICES ASSUME NEW n \in Name, NEW h \in Client, NEW d \in Client, At(d, "wait"),
                      cl[d].name = n, cl[d].via = h
               PROVE  At(d, "wait")' /\ cl'[d].name = n /\ cl'[d].via = h
    BY DEF Awaited, At
  <1> QED
    BY DEF Others, At

\* Spawn of the helper.
LEMMA SpawnKeeps ==
  ASSUME Inv, NEW c \in Client, At(c, "next"), NEW n \in cl[c].todo, cl[c].primary = None,
         helper' = [helper EXCEPT ![c].up = "spawned"], NEW pc \in {"bind", "network"},
         cl' = [cl EXCEPT ![c].pc = pc, ![c].name = n, ![c].primary = n],
         UNCHANGED <<entry, lapse>>
  PROVE  Inv'
  <1>0. TypeOK /\ Good(c) /\ Active(c) /\ n \in Name
    BY Fields DEF Inv, At, Active, Ended
  <1>1. Becomes(c, pc, cl[c].todo, cl[c].mark, n, cl[c].existing, n, cl[c].via, cl[c].ret)
    BY <1>0, DoSpawn
  <1>2. /\ helper' \in [Client -> Helper] /\ \A g \in Client \ {c} : helper'[g] = helper[g]
        /\ helper'[c].up = "spawned" /\ helper'[c].mem = helper[c].mem
        /\ helper'[c].run = helper[c].run
    BY <1>0, DoSpawned
  <1>3. /\ TypeOK' /\ Others(c) /\ cl'[c].pc = pc /\ cl'[c].todo = cl[c].todo
        /\ cl'[c].mark = cl[c].mark /\ cl'[c].primary = n /\ cl'[c].op = cl[c].op
        /\ cl'[c].name = n /\ cl'[c].names = cl[c].names /\ Active(c)' /\ Added(c)' = Added(c)
    BY <1>0, <1>1, <1>2 DEF Becomes, Others, TypeOK, Active, Ended, At, Added, Marked
  <1>4. /\ helper[c].up = "none" /\ Added(c) = {} /\ cl[c].todo \subseteq cl[c].names
        /\ \A m \in Name : cl[c].mark[m] # "no" => m \in cl[c].names
        /\ \A m \in cl[c].todo : cl[c].mark[m] = "missing"
    BY <1>0 DEF Good, ShapeOf, At, Active
  <1>5. \A m \in Name : /\ helper[c].mem[m] = "none" /\ helper[c].run[m] = None
                        /\ entry[m].pid # c /\ entry[m].sock # c
    BY <1>0, <1>4, Apart, EntryFields, HelperFields DEF Inv, HelpersInv
  <1>6. \A m \in Name : IsRunning(m)' <=> IsRunning(m)
    BY <1>0, <1>2, <1>5, EntryFields DEF IsRunning, Up
  <1>7. DisksStay
    BY DEF DisksStay
  <1>8. HelpersInv'
    <2>1. ASSUME NEW m \in Name
          PROVE  /\ entry[m].pid = entry[m].sock
                 /\ entry[m].pid # None => helper'[entry[m].pid].up \in {"up", "gone"}
      BY <1>0, <1>2, <1>5, EntryFields DEF Inv, HelpersInv
    <2>2. ASSUME NEW g \in Client, NEW m \in Name
          PROVE  /\ helper'[g].mem[m] # "none" => helper'[g].up = "up"
                 /\ helper'[g].run[m] # None =>
                      helper'[g].mem[m] \in {"booting", "running", "stopping", "reaping"}
      BY <1>2, <1>5 DEF Inv, HelpersInv
    <2> QED
      BY <2>1, <2>2 DEF HelpersInv
  <1>9. \A g \in Client : helper'[g].mem = helper[g].mem /\ helper'[g].run = helper[g].run
    BY <1>2
  <1>10. RunningKeepsDisk'
    BY <1>9 DEF Inv, RunningKeepsDisk
  <1>11. Registration'
    <2> SUFFICES ASSUME NEW g \in Client, NEW m \in Name \ lapse PROVE Traced(g, m)'
      BY DEF Registration
    <2>1. Traced(g, m) /\ (LeadsTo(m, g)' <=> LeadsTo(m, g))
      BY DEF Inv, Registration, LeadsTo
    <2>2. CASE g = c
      BY <1>5, <1>9, <2>2 DEF Traced
    <2>3. CASE g # c
      <3>1. Orphan(g, m) => Orphan(g, m)'
        <4>1. cl'[g] = cl[g] /\ helper'[g] = helper[g]
          BY <1>2, <1>3, <2>3 DEF Others
        <4>2. Orphan(g, m) => \A x \in Name : entry'[x].sock # g
          BY DEF Orphan
        <4> QED
          BY <1>6, <4>1, <4>2, OrphanStays
      <3>2. Awaited(m, g) => Awaited(m, g)'
        BY <1>3, AwaitedOn DEF At
      <3> QED
        BY <1>9, <2>1, <3>1, <3>2 DEF Traced
    <2> QED
      BY <2>2, <2>3
  <1>12. ShapeOf(c)'
    BY <1>0, <1>3, <1>4, Apart DEF ShapeOf, At, NamePc, UpPc, StopPc
  <1>13. MissOf(c)'
    <2>1. \A m \in Name : ~Own(c, m)
      BY <1>5 DEF Own
    <2> QED
      BY <1>0, <1>3, <1>6, <2>1 DEF MissOf, At, Good, UpPc
  <1>14. FilesOf(c)' /\ SpawnOf(c)'
    BY <1>0, <1>3 DEF FilesOf, SpawnOf, At
  <1>15. FreshOf(c)'
    BY <1>3, <1>4, <1>5, <1>9 DEF FreshOf, At
  <1>16. OwnedOf(c)'
    BY <1>5, <1>9 DEF OwnedOf
  <1>17. ASSUME NEW d \in Client \ {c} PROVE Good(d)'
    <2>1. Good(d) /\ cl'[d] = cl[d] /\ helper'[d] = helper[d]
      BY <1>2, <1>3 DEF Inv, Others
    <2>2. \A m \in Name : Own(d, m)' <=> Own(d, m)
      BY <2>1 DEF Own
    <2> QED
      BY <1>0, <1>6, <1>7, <2>1, <2>2, GoodUnder
  <1> QED
    BY <1>0, <1>3, <1>7, <1>8, <1>10, <1>11, <1>12, <1>13, <1>14, <1>15, <1>16, <1>17, StepKeeps
    DEF Good, Making, At

\* Cluster.Add takes the next member.
LEMMA AddMemberKeeps ==
  ASSUME Inv, NEW c \in Client, NEW n \in Name, AddMember(c, n)
  PROVE  Inv'
  <1>0. TypeOK /\ At(c, "next") /\ n \in cl[c].todo /\ UNCHANGED <<entry, lapse>>
    BY DEF Inv, AddMember
  <1>1. CASE Goto(c, "rollback") /\ UNCHANGED helper
    <2>1. Moves(c, "rollback")
      BY <1>0, <1>1, DoGoto DEF Pc
    <2> QED
      BY <1>0, <1>1, <2>1, OnwardKeeps DEF Onward
  <1>2. CASE /\ cl[c].primary = None
             /\ helper' = [helper EXCEPT ![c].up = "spawned"]
             /\ cl' = [cl EXCEPT ![c].pc = IF Bound(c) THEN "bind" ELSE "network",
                                 ![c].name = n, ![c].primary = n]
    <2>1. PICK pc \in {"bind", "network"} : cl' = [cl EXCEPT ![c].pc = pc, ![c].name = n,
                                                             ![c].primary = n]
      BY <1>2
    <2> QED
      BY <1>0, <1>2, <2>1, SpawnKeeps
  <1>3. CASE /\ cl[c].primary # None
             /\ cl' = [cl EXCEPT ![c].pc = IF OwnsHelper(c) THEN "load" ELSE "network",
                                 ![c].name = n]
             /\ UNCHANGED helper
    <2>1. PICK pc \in {"load", "network"} : cl' = [cl EXCEPT ![c].pc = pc, ![c].name = n]
      BY <1>3
    <2> QED
      BY <1>0, <1>3, <2>1, JoinKeeps
  <1> QED
    BY <1>1, <1>2, <1>3 DEF AddMember

\* The helper that takes a boot has the member registered, and nobody else runs it.
LEMMA BootTaken ==
  ASSUME Inv, NEW c \in Client, At(c, "boot"), NEW n \in Name \ lapse, cl[c].name = n,
         NEW h \in Client, entry[cl[c].primary].sock = h, helper[h].up = "up"
  PROVE  \/ LeadsTo(n, h) /\ helper[h].mem[n] = "starting"
         \/ ~IsRunning(n) /\ helper[h].mem[n] = "none"
  <1>1. /\ TypeOK /\ Good(c) /\ cl[c].mark[n] = "missing" /\ cl[c].primary \in Name
    BY Fields DEF Inv, Good, ShapeOf, At, UpPc
  <1>2. CASE Own(c, n)
    <2>1. cl[c].primary = n /\ entry[n].pid = c /\ entry[n].sock = c
      BY <1>2 DEF Own, Inv, HelpersInv
    <2> QED
      BY <1>2, <2>1 DEF Own, LeadsTo
  <1>3. CASE ~IsRunning(n)
    <2>1. ~LeadsTo(n, h)
      BY <1>3, Apart DEF LeadsTo, IsRunning, Up
    <2>2. ~Orphan(h, n)
      BY <1>1 DEF Orphan
    <2> QED
      BY <1>3, <2>1, <2>2 DEF Inv, Registration, Traced
  <1> QED
    BY <1>1, <1>2, <1>3 DEF Good, MissOf, At, UpPc

\* A boot-member request that a helper takes.
LEMMA BootKeeps ==
  ASSUME Inv, NEW c \in Client, At(c, "boot"), NEW n \in Name, cl[c].name = n, NEW h \in Client,
         entry[cl[c].primary].sock = h, helper[h].up = "up", NEW s \in {"error", "booting"},
         entry[n].disk # None => s = "booting",
         Put(h, n, s, entry[n].disk), helper'[h].up = helper[h].up,
         \/ Led(n, h)
         \/ helper[h].mem[n] # "none" /\ entry' = entry,
         Becomes(c, "wait", cl[c].todo, cl[c].mark, cl[c].name, cl[c].existing, cl[c].primary, h,
                 cl[c].ret),
         lapse' = lapse
  PROVE  Inv'
  <1>0. TypeOK /\ Good(c) /\ Active(c)
    BY DEF Inv, At, Active, Ended
  <1>1. /\ TypeOK' /\ Others(c) /\ cl'[c].pc = "wait" /\ cl'[c].todo = cl[c].todo
        /\ cl'[c].mark = cl[c].mark /\ cl'[c].primary = cl[c].primary /\ cl'[c].op = cl[c].op
        /\ cl'[c].name = n /\ cl'[c].via = h /\ cl'[c].names = cl[c].names /\ Active(c)'
        /\ Added(c)' = Added(c)
    BY <1>0 DEF Becomes, Others, TypeOK, Put, Led, Active, Ended, At, Added, Marked
  <1>2. /\ cl[c].todo \subseteq cl[c].names
        /\ \A m \in Name : cl[c].mark[m] # "no" => m \in cl[c].names
        /\ cl[c].primary # None /\ cl[c].primary \in cl[c].names /\ cl[c].primary \in Name
        /\ \A m \in cl[c].todo : cl[c].mark[m] = "missing"
        /\ n \in cl[c].todo /\ n \in cl[c].names
    BY <1>0, Fields DEF Good, ShapeOf, At, Active, UpPc, NamePc
  <1>3. DisksStay
    BY DEF Led, DisksStay
  <1>4. /\ \A m \in Name \ {n} : entry'[m] = entry[m]
        /\ \A m \in Name : /\ entry'[m].pid = entry[m].pid \/ (m = n /\ entry'[m].pid = h)
                           /\ entry'[m].sock = entry[m].sock \/ (m = n /\ entry'[m].sock = h)
    BY DEF Led
  <1>5. /\ \A g \in Client : helper'[g].up = helper[g].up
        /\ \A g \in Client \ {h} : helper'[g] = helper[g]
        /\ \A m \in Name \ {n} : /\ helper'[h].mem[m] = helper[h].mem[m]
                                  /\ helper'[h].run[m] = helper[h].run[m]
        /\ helper'[h].mem[n] = s /\ helper'[h].run[n] = entry[n].disk
    BY DEF Put
  <1>6. \A m \in Name \ {n} : IsRunning(m)' <=> IsRunning(m)
    <2> SUFFICES ASSUME NEW m \in Name \ {n} PROVE IsRunning(m)' <=> IsRunning(m)
      OBVIOUS
    <2>1. entry'[m] = entry[m] /\ entry[m].pid \in Client \cup {None}
      BY <1>0, <1>4, EntryFields
    <2>2. \A g \in Client \cup {None} : Up(g)' <=> Up(g)
      BY <1>5 DEF Up
    <2> QED
      BY <2>1, <2>2 DEF IsRunning
  <1>7. HelpersInv'
    <2>1. ASSUME NEW m \in Name
          PROVE  /\ entry'[m].pid = entry'[m].sock
                 /\ entry'[m].pid # None => helper'[entry'[m].pid].up \in {"up", "gone"}
      <3>1. entry[m].pid = entry[m].sock
            /\ (entry[m].pid # None => helper[entry[m].pid].up \in {"up", "gone"})
        BY DEF Inv, HelpersInv
      <3>2. entry'[m].pid \in {entry[m].pid, h} /\ entry'[m].pid = entry'[m].sock
        BY <3>1 DEF Led
      <3> QED
        <4>1. entry[m].pid \in Client \cup {None}
          BY <1>0, EntryFields
        <4> QED
          BY <1>5, <3>1, <3>2, <4>1
    <2>2. ASSUME NEW g \in Client, NEW m \in Name
          PROVE  /\ helper'[g].mem[m] # "none" => helper'[g].up = "up"
                 /\ helper'[g].run[m] # None =>
                      helper'[g].mem[m] \in {"booting", "running", "stopping", "reaping"}
      <3>1. CASE g = h /\ m = n
        BY <1>5, <3>1
      <3>2. CASE g # h \/ m # n
        <4>1. /\ helper'[g].mem[m] = helper[g].mem[m] /\ helper'[g].run[m] = helper[g].run[m]
              /\ helper'[g].up = helper[g].up
          <5>1. CASE g # h
            BY <1>5, <5>1
          <5>2. CASE g = h
            BY <1>5, <3>2, <5>2
          <5> QED
            BY <5>1, <5>2
        <4> QED
          BY <4>1 DEF Inv, HelpersInv
      <3> QED
        BY <3>1, <3>2
    <2> QED
      BY <2>1, <2>2 DEF HelpersInv
  <1>8. RunningKeepsDisk'
    <2> SUFFICES ASSUME NEW g \in Client, NEW m \in Name \ lapse, helper'[g].run[m] # None
                 PROVE  entry[m].disk = helper'[g].run[m]
      BY <1>3 DEF RunningKeepsDisk, DisksStay
    <2>1. CASE g = h /\ m = n
      BY <1>5, <2>1
    <2>2. CASE g # h \/ m # n
      <3>1. helper'[g].run[m] = helper[g].run[m]
        BY <1>5, <2>2
      <3> QED
        BY <3>1 DEF Inv, RunningKeepsDisk
    <2> QED
      BY <2>1, <2>2
  <1>9. ASSUME n \notin lapse
        PROVE  \/ LeadsTo(n, h) /\ LeadsTo(n, h)'
               \/ ~IsRunning(n) /\ LeadsTo(n, h)'
    <2>1. CASE LeadsTo(n, h) /\ helper[h].mem[n] = "starting"
      BY <2>1 DEF LeadsTo, Led
    <2>2. CASE ~IsRunning(n) /\ helper[h].mem[n] = "none"
      BY <2>2 DEF LeadsTo, Led
    <2> QED
      BY <1>9, <2>1, <2>2, BootTaken
  <1>10. Registration'
    <2> SUFFICES ASSUME NEW g \in Client, NEW m \in Name \ lapse PROVE Traced(g, m)'
      BY DEF Registration
    <2>1. Traced(g, m) /\ (Awaited(m, g) => Awaited(m, g)')
      BY <1>1, AwaitedOn DEF Inv, Registration, At
    <2>2. ~Orphan(h, m)
      BY <1>2 DEF Orphan
    <2>3. CASE g = h /\ m = n
      <3>1. Awaited(n, h)'
        BY <1>1 DEF Awaited, At
      <3> QED
        BY <1>5, <1>9, <2>3, <3>1 DEF Traced
    <2>4. CASE g = h /\ m # n
      <3>1. helper'[h].mem[m] = helper[h].mem[m] /\ (LeadsTo(m, h)' <=> LeadsTo(m, h))
        BY <1>4, <1>5, <2>4 DEF LeadsTo
      <3> QED
        BY <2>1, <2>2, <2>4, <3>1 DEF Traced
    <2>5. CASE g # h
      <3>1. helper'[g] = helper[g]
        BY <1>5, <2>5
      <3>2. Orphan(g, m) => Orphan(g, m)'
        <4> SUFFICES ASSUME Orphan(g, m) PROVE Orphan(g, m)'
          OBVIOUS
        <4>1. \A x \in Name : entry'[x].sock # g
          BY <1>4, <2>5 DEF Orphan
        <4>2. ASSUME Bound(g), m = n PROVE FALSE
          <5>1. Working(g, n) /\ g # c
            BY <4>2 DEF Orphan, At
          <5>2. Working(c, n)
            BY <1>0, <1>2 DEF Working
          <5> QED
            BY <4>2, <5>1, <5>2 DEF Inv, Turn
        <4>3. cl'[g] = cl[g] \/ (cl'[g].op = cl[g].op /\ cl[g].pc \notin {"rollback", "close"})
          BY <1>1 DEF Others, At
        <4> QED
          BY <1>6, <3>1, <4>1, <4>2, <4>3, OrphanStays
      <3>3. LeadsTo(m, g) /\ helper[g].mem[m] # "none" => LeadsTo(m, g)'
        <4>1. CASE m # n
          BY <1>4, <4>1 DEF LeadsTo
        <4>2. ASSUME m = n, LeadsTo(m, g), helper[g].mem[m] # "none" PROVE FALSE
          <5>1. IsRunning(n)
            BY <4>2, Apart DEF LeadsTo, IsRunning, Up, Inv, HelpersInv
          <5>2. LeadsTo(n, h)
            BY <1>9, <4>2, <5>1
          <5> QED
            BY <2>5, <4>2, <5>2 DEF LeadsTo
        <4> QED
          BY <4>1, <4>2
      <3> QED
        BY <2>1, <3>1, <3>2, <3>3 DEF Traced
    <2> QED
      BY <2>3, <2>4, <2>5
  <1>11. ShapeOf(c)'
    <2>1. helper'[c].up = helper[c].up
      BY <1>5
    <2> QED
      BY <1>0, <1>1, <1>2, <2>1 DEF ShapeOf, At, NamePc, UpPc, StopPc
  <1>12. FilesOf(c)'
    BY <1>1 DEF FilesOf, At
  <1>13. MissOf(c)'
    <2>1. \A m \in Name \ {n} : Own(c, m) => Own(c, m)'
      BY <1>1, <1>4, <1>5 DEF Own
    <2> QED
      BY <1>0, <1>1, <1>6, <2>1 DEF MissOf, At, Good, UpPc
  <1>14. SpawnOf(c)'
    BY <1>0, <1>1, <1>5 DEF Good, SpawnOf, At, Active
  <1>15. FreshOf(c)'
    <2> SUFFICES ASSUME OwnsHelper(c), cl[c].primary \notin lapse,
                        cl[c].mark[cl[c].primary] = "missing"
                 PROVE  /\ \A m \in Name \ {cl[c].primary} : helper'[c].mem[m] = "none"
                               /\ entry'[m].sock # c
                        /\ Added(c) = {} /\ n = cl[c].primary
      BY <1>1, <1>5 DEF FreshOf, At, OwnsHelper
    <2>1. /\ \A m \in Name \ {cl[c].primary} : helper[c].mem[m] = "none" /\ entry[m].sock # c
          /\ Added(c) = {} /\ n = cl[c].primary
      BY <1>0 DEF Good, FreshOf, At, NamePc, UpPc
    <2>2. \A m \in Name \ {n} : helper'[c].mem[m] = helper[c].mem[m]
      BY <1>5
    <2> QED
      BY <1>4, <2>1, <2>2
  <1>16. OwnedOf(c)'
    <2> SUFFICES ASSUME NEW m \in Name \ lapse, cl[c].op = "up", Working(c, m), m # n,
                        helper'[c].mem[m] \in {"booting", "running"}
                 PROVE  cl[c].mark[m] \in {"old", "new"}
      BY <1>0, <1>1 DEF OwnedOf, Working
    <2>1. helper[c].mem[m] \in {"booting", "running"}
      BY <1>5
    <2> QED
      BY <1>0, <2>1 DEF Good, OwnedOf, At
  <1>17. ASSUME NEW d \in Client \ {c} PROVE Good(d)'
    <2>1. Good(d) /\ cl'[d] = cl[d] /\ helper'[d].up = helper[d].up
      BY <1>1, <1>5 DEF Inv, Others
    <2>2. \A m \in Name \ lapse : Working(d, m) => m # n
      <3>1. Working(c, n)
        BY <1>0, <1>2 DEF Working
      <3> QED
        BY <3>1 DEF Inv, Turn
    <2>3. \A m \in Name \ {n} : /\ Own(d, m) => Own(d, m)'
                                /\ helper'[d].mem[m] = helper[d].mem[m]
      BY <1>4, <1>5, <2>1 DEF Own
    <2>4. ASSUME Active(d), OwnsHelper(d), cl[d].primary \notin lapse,
                 cl[d].mark[cl[d].primary] = "missing"
          PROVE  d # h
      <3> SUFFICES ASSUME d = h PROVE FALSE
        OBVIOUS
      <3>1. \A m \in Name \ {cl[d].primary} : entry[m].sock # d
        BY <2>1, <2>4 DEF Good, FreshOf
      <3>2. cl[c].primary = cl[d].primary
        BY <1>2, <3>1
      <3>3. Working(c, cl[c].primary) /\ Working(d, cl[c].primary)
        BY <1>0, <1>2, <2>1, <2>4, <3>2 DEF Working, Good, ShapeOf
      <3> QED
        BY <1>2, <2>4, <3>2, <3>3 DEF Inv, Turn
    <2>5. (/\ Active(d) /\ OwnsHelper(d) /\ cl[d].primary \notin lapse
           /\ cl[d].mark[cl[d].primary] = "missing") =>
             \A m \in Name \ {cl[d].primary} :
               /\ helper[d].mem[m] = "none" => helper'[d].mem[m] = "none"
               /\ entry[m].sock # d => entry'[m].sock # d
      BY <1>4, <1>5, <2>4
    <2> QED
      BY <1>0, <1>3, <1>6, <2>1, <2>2, <2>3, <2>5, GoodUnder
  <1> QED
    BY <1>0, <1>1, <1>3, <1>7, <1>8, <1>10, <1>11, <1>12, <1>13, <1>14, <1>15, <1>16, <1>17,
       StepKeeps DEF Good, Making, At

\* The boot-member RPC.
LEMMA BootMemberKeeps ==
  ASSUME Inv, NEW c \in Client, BootMember(c)
  PROVE  Inv'
  <1> DEFINE n == cl[c].name
             h == entry[cl[c].primary].sock
  <1>0. TypeOK /\ At(c, "boot") /\ lapse' = lapse /\ n \in Name /\ cl[c].primary \in Name
    BY Fields, Zenon DEF Inv, Good, ShapeOf, At, NamePc, UpPc, BootMember
  <1>1. CASE StopFailed(c) /\ UNCHANGED <<entry, helper>>
    BY <1>0, <1>1, StopFailedKeeps DEF At
  <1>2. CASE /\ Answers(c) /\ helper[h].mem[n] \in {"none", "starting", "error"}
             /\ entry' = [entry EXCEPT ![n] = IF helper[h].mem[n] = "none" THEN Registered(@,
                    h) ELSE @]
             /\ helper' = [helper EXCEPT
                             ![h].mem[n] = IF entry[n].disk = None THEN "error" ELSE "booting",
                             ![h].run[n] = entry[n].disk]
             /\ cl' = [cl EXCEPT ![c].pc = "wait", ![c].via = h]
    <2> DEFINE s == IF entry[n].disk = None THEN "error" ELSE "booting"
               d == entry[n].disk
    <2>1. h \in Client /\ helper[h].up = "up" /\ d \in Disk \cup {None} /\ d = entry[n].disk
      BY <1>0, <1>2, EntryFields, Zenon DEF Answers, Listening, Up
    <2>2. s \in {"error", "booting"} /\ s \in MemberState /\ (entry[n].disk # None => s = "booting")
      BY DEF MemberState
    <2>3. helper' = [helper EXCEPT ![h].mem[n] = s, ![h].run[n] = d]
      BY <1>2, Zenon
    <2>4. CASE helper[h].mem[n] = "none"
      <3>1. entry' = [entry EXCEPT ![n] = Registered(@, h)]
        BY <1>2, <2>4, Zenon
      <3> HIDE DEF n, h, s, d
      <3>2. Led(n, h)
        BY <1>0, <2>1, <3>1, DoRegistered
      <3>3. Put(h, n, s, d) /\ helper'[h].up = helper[h].up
        BY <1>0, <2>1, <2>2, <2>3, DoPut
      <3>4. Becomes(c, "wait", cl[c].todo, cl[c].mark, cl[c].name, cl[c].existing, cl[c].primary, h,
                    cl[c].ret)
        BY <1>0, <1>2, <2>1, DoVia
      <3> QED
        BY <1>0, <2>1, <2>2, <3>2, <3>3, <3>4, BootKeeps DEF n, h
    <2>5. CASE helper[h].mem[n] # "none"
      <3>1. entry' = entry
        BY <1>0, <1>2, <2>5, Zenon DEF TypeOK
      <3> HIDE DEF n, h, s, d
      <3>3. Put(h, n, s, d) /\ helper'[h].up = helper[h].up
        BY <1>0, <2>1, <2>2, <2>3, DoPut
      <3>4. Becomes(c, "wait", cl[c].todo, cl[c].mark, cl[c].name, cl[c].existing, cl[c].primary, h,
                    cl[c].ret)
        BY <1>0, <1>2, <2>1, DoVia
      <3> QED
        BY <1>0, <2>1, <2>2, <2>5, <3>1, <3>3, <3>4, BootKeeps DEF n, h
    <2> QED
      BY <2>4, <2>5
  <1> QED
    BY <1>1, <1>2, Zenon DEF BootMember

\* A helper that has a member is up.
LEMMA HasUp ==
  ASSUME Inv
  PROVE  \A g \in Client, m \in Name : helper[g].mem[m] # "none" => helper[g].up = "up"
  BY DEF Inv, HelpersInv

\* What a request to stop makes of the state of a member.
Stops(x, s) ==
    /\ s \notin {"booting", "running"} /\ (x = "none" <=> s = "none")
    /\ s = "reaping" => x \in {"booting", "reaping"}
    /\ x \in {"booting", "running", "stopping", "reaping"} => s \in {"stopping", "reaping"}

\* A stop that reaches the helper: nobody waits for a boot of a member that is stopped.
LEMMA SentKeeps ==
  ASSUME Inv, NEW c \in Client, At(c, "stopSend"), NEW n \in Name, cl[c].name = n,
         NEW h \in Client, entry[n].sock = h, helper[h].up = "up",
         NEW x, helper[h].mem[n] = x, NEW s,
         Stops(x, s),
         Put(h, n, s, helper[h].run[n]), helper'[h].up = helper[h].up,
         \/ x = "booting" /\ Led(n, None)
         \/ x # "booting" /\ entry' = entry,
         Moves(c, "stopPoll"), lapse' = lapse
  PROVE  Inv'
  <1>0. TypeOK /\ Good(c) /\ Active(c)
    BY DEF Inv, At, Active, Ended
  <1>a. TypeOK'
    <2>1. entry' \in [Name -> Entry]
      BY <1>0 DEF TypeOK, Led
    <2> QED
      BY <1>0, <2>1 DEF TypeOK, Put, Moves, Becomes
  <1>1. /\ TypeOK' /\ Others(c) /\ cl'[c].pc = "stopPoll" /\ cl'[c].todo = cl[c].todo
        /\ cl'[c].mark = cl[c].mark /\ cl'[c].primary = cl[c].primary /\ cl'[c].op = cl[c].op
        /\ cl'[c].name = n /\ cl'[c].ret = cl[c].ret /\ cl'[c].names = cl[c].names /\ Active(c)'
        /\ Added(c)' = Added(c)
    BY <1>0, <1>a DEF Moves, Becomes, Others, Active, Ended, At, Added, Marked
  <1>2. /\ n \in cl[c].names /\ Working(c, n)
    BY <1>0 DEF Good, ShapeOf, At, StopPc, NamePc, Working
  <1>3. DisksStay
    BY DEF Led, DisksStay
  <1>4. /\ \A m \in Name \ {n} : entry'[m] = entry[m]
        /\ \/ entry' = entry
           \/ entry'[n].pid = None /\ entry'[n].sock = None
    BY DEF Led
  <1>5. /\ \A g \in Client : helper'[g].up = helper[g].up
        /\ \A g \in Client \ {h} : helper'[g] = helper[g]
        /\ \A g \in Client, m \in Name : helper'[g].run[m] = helper[g].run[m]
        /\ \A m \in Name \ {n} : helper'[h].mem[m] = helper[h].mem[m]
        /\ helper'[h].mem[n] = s
    <2>1. /\ \A g \in Client \ {h} : helper'[g] = helper[g]
          /\ \A m \in Name \ {n} : /\ helper'[h].mem[m] = helper[h].mem[m]
                                    /\ helper'[h].run[m] = helper[h].run[m]
          /\ helper'[h].mem[n] = s /\ helper'[h].run[n] = helper[h].run[n]
      BY DEF Put
    <2>2. ASSUME NEW g \in Client, NEW m \in Name PROVE helper'[g].run[m] = helper[g].run[m]
      <3>1. CASE g # h
        BY <2>1, <3>1
      <3>2. CASE g = h
        BY <2>1, <3>2
      <3> QED
        BY <3>1, <3>2
    <2>3. \A g \in Client : helper'[g].up = helper[g].up
      BY <2>1
    <2> QED
      BY <2>1, <2>2, <2>3
  <1>6. \A m \in Name : IsRunning(m)' => IsRunning(m)
    <2> SUFFICES ASSUME NEW m \in Name, IsRunning(m)' PROVE IsRunning(m)
      OBVIOUS
    <2>1. entry'[m].pid = entry[m].pid
      BY <1>4 DEF IsRunning, Up
    <2>2. entry[m].pid \in Client \cup {None}
      BY <1>0, EntryFields
    <2> QED
      BY <1>5, <2>1, <2>2 DEF IsRunning, Up
  <1>7. n \notin lapse => x \notin {"booting", "reaping"} /\ entry' = entry
    <2> SUFFICES ASSUME n \notin lapse PROVE x \notin {"booting", "reaping"}
      OBVIOUS
    <2>1. Traced(h, n)
      BY DEF Inv, Registration
    <2>0. \A d \in Client : Good(d)
      BY DEF Inv
    <2>2. ~Awaited(n, h)
      <3> SUFFICES ASSUME NEW d \in Client, At(d, "wait"), cl[d].name = n PROVE FALSE
        BY DEF Awaited
      <3>1. Working(d, n)
        <4>1. ShapeOf(d)
          BY <2>0 DEF Good
        <4> QED
          BY <4>1 DEF ShapeOf, NamePc, UpPc, At, Working, Active, Ended
      <3>2. d = c
        BY <1>2, <3>1 DEF Inv, Turn
      <3> QED
        BY <3>2 DEF At
    <2> QED
      BY <2>1, <2>2 DEF Traced
  <1>8. HelpersInv'
    <2>1. ASSUME NEW m \in Name
          PROVE  /\ entry'[m].pid = entry'[m].sock
                 /\ entry'[m].pid # None => helper'[entry'[m].pid].up \in {"up", "gone"}
      <3>1. entry[m].pid = entry[m].sock
            /\ (entry[m].pid # None => helper[entry[m].pid].up \in {"up", "gone"})
        BY DEF Inv, HelpersInv
      <3>2. entry'[m].pid \in {entry[m].pid, None} /\ entry'[m].pid = entry'[m].sock
        BY <1>4, <3>1
      <3> QED
        <4>1. entry[m].pid \in Client \cup {None}
          BY <1>0, EntryFields
        <4> QED
          BY <1>5, <3>1, <3>2, <4>1
    <2>2. ASSUME NEW g \in Client, NEW m \in Name
          PROVE  /\ helper'[g].mem[m] # "none" => helper'[g].up = "up"
                 /\ helper'[g].run[m] # None =>
                      helper'[g].mem[m] \in {"booting", "running", "stopping", "reaping"}
      <3>0. helper[g].run[m] # None => helper[g].mem[m] \in {"booting", "running", "stopping",
                "reaping"}
        BY DEF Inv, HelpersInv
      <3>1. CASE g = h /\ m = n
        <4>1. helper'[g].mem[m] = s /\ helper'[g].run[m] = helper[g].run[m] /\ helper'[g].up = "up"
          BY <1>5, <3>1
        <4>2. helper[g].run[m] # None => x \in {"booting", "running", "stopping", "reaping"}
          BY <3>0, <3>1
        <4> QED
          BY <4>1, <4>2 DEF Stops
      <3>2. CASE g # h
        <4>1. helper'[g] = helper[g]
          BY <1>5, <3>2
        <4>2. helper[g].mem[m] # "none" => helper[g].up = "up"
          BY HasUp
        <4> QED
          BY <3>0, <4>1, <4>2
      <3>3. CASE g = h /\ m # n
        BY <1>5, <3>0, <3>3
      <3> QED
        BY <3>1, <3>2, <3>3
    <2> QED
      BY <2>1, <2>2 DEF HelpersInv
  <1>9. RunningKeepsDisk'
    <2> SUFFICES ASSUME NEW g \in Client, NEW m \in Name \ lapse, helper'[g].run[m] # None
                 PROVE  entry[m].disk = helper'[g].run[m]
      BY <1>3 DEF RunningKeepsDisk, DisksStay
    <2>1. helper'[g].run[m] = helper[g].run[m]
      BY <1>5
    <2> QED
      BY <2>1 DEF Inv, RunningKeepsDisk
  <1>10. Registration'
    <2> SUFFICES ASSUME NEW g \in Client, NEW m \in Name \ lapse PROVE Traced(g, m)'
      BY DEF Registration
    <2>1. Traced(g, m) /\ (Awaited(m, g) => Awaited(m, g)')
      BY <1>1, AwaitedOn DEF Inv, Registration, At
    <2>2. LeadsTo(m, g)' <=> LeadsTo(m, g)
      BY <1>4, <1>7 DEF LeadsTo
    <2>3. CASE g = h /\ m = n
      <3>1. LeadsTo(n, h)
        BY DEF LeadsTo, Inv, HelpersInv
      <3> QED
        BY <1>5, <1>7, <2>1, <2>2, <2>3, <3>1 DEF Traced, Stops
    <2>4. CASE g = h /\ m # n
      <3>1. ~Orphan(h, m)
        BY DEF Orphan
      <3> QED
        BY <1>5, <2>1, <2>2, <2>4, <3>1 DEF Traced
    <2>5. CASE g # h
      <3>1. helper'[g] = helper[g]
        BY <1>5, <2>5
      <3>2. Orphan(g, m) => Orphan(g, m)'
        <4> SUFFICES ASSUME Orphan(g, m) PROVE Orphan(g, m)'
          OBVIOUS
        <4>1. \A y \in Name : entry'[y].sock # g
          <5>1. \A y \in Name : entry[y].sock # g
            BY DEF Orphan
          <5>2. \A y \in Name : entry'[y].sock = entry[y].sock \/ entry'[y].sock = None
            BY <1>4
          <5> QED
            BY <5>1, <5>2, Apart
        <4>3. cl'[g] = cl[g] \/ (cl'[g].op = cl[g].op /\ cl[g].pc \notin {"rollback", "close"})
          BY <1>1 DEF Others, At
        <4> QED
          BY <1>6, <3>1, <4>1, <4>3, OrphanStays
      <3> QED
        BY <2>1, <2>2, <3>1, <3>2 DEF Traced
    <2> QED
      BY <2>3, <2>4, <2>5
  <1>11. ShapeOf(c)'
    <2>1. helper'[c].up = helper[c].up
      BY <1>5
    <2>2. /\ cl[c].todo \subseteq cl[c].names
          /\ \A m \in Name : cl[c].mark[m] # "no" => m \in cl[c].names
          /\ cl[c].primary # None => cl[c].primary \in cl[c].names
          /\ cl[c].primary = None => Added(c) = {} /\ helper[c].up = "none"
      BY <1>0 DEF Good, ShapeOf, Active
    <2>3. /\ cl[c].ret \in {"delete", "rollback", "destroy", "err", "down", "remove"}
          /\ cl[c].ret = "delete" => cl[c].mark[cl[c].name] = "missing"
          /\ cl[c].ret = "err" => helper[c].up = "none"
          /\ cl[c].ret = "remove" => cl[c].op = "rm"
          /\ cl[c].ret \in {"down", "remove"} => cl[c].primary = None
      BY <1>0 DEF Good, ShapeOf, At, StopPc
    <2> QED
      BY <1>0, <1>1, <1>2, <2>1, <2>2, <2>3 DEF ShapeOf, At, NamePc, UpPc, StopPc
  <1>12. FilesOf(c)' /\ MissOf(c)'
    BY <1>1 DEF FilesOf, MissOf, At, UpPc
  <1>13. SpawnOf(c)'
    BY <1>0, <1>1, <1>5 DEF Good, SpawnOf, At, Active
  <1>14. ASSUME NEW g \in Client, NEW m \in Name, helper[g].mem[m] = "none"
         PROVE  helper'[g].mem[m] = "none"
    <2>1. CASE g # h
      BY <1>5, <1>14, <2>1
    <2>2. CASE g = h /\ m = n
      BY <1>5, <1>14, <2>2 DEF Stops
    <2>3. CASE g = h /\ m # n
      BY <1>5, <1>14, <2>3
    <2> QED
      BY <2>1, <2>2, <2>3
  <1>15. FreshOf(c)'
    <2> SUFFICES ASSUME OwnsHelper(c), cl[c].primary \notin lapse,
                        cl[c].mark[cl[c].primary] = "missing"
                 PROVE  /\ \A m \in Name \ {cl[c].primary} : helper'[c].mem[m] = "none"
                               /\ entry'[m].sock # c
                        /\ Added(c) = {} /\ n = cl[c].primary
      BY <1>1, <1>5 DEF FreshOf, At, OwnsHelper
    <2>1. /\ \A m \in Name \ {cl[c].primary} : helper[c].mem[m] = "none" /\ entry[m].sock # c
          /\ Added(c) = {} /\ n = cl[c].primary
      BY <1>0 DEF Good, FreshOf, At, NamePc, StopPc
    <2> QED
      BY <1>4, <1>14, <2>1
  <1>16. OwnedOf(c)'
    <2> SUFFICES ASSUME NEW m \in Name \ lapse, cl[c].op = "up", Working(c, m),
                        helper'[c].mem[m] \in {"booting", "running"}
                 PROVE  cl[c].mark[m] \in {"old", "new"} /\ m # n
      BY <1>0, <1>1 DEF OwnedOf, Working
    <2>1. m # n
      <3> SUFFICES ASSUME m = n PROVE FALSE
        OBVIOUS
      <3>1. c # h
        BY <1>5, <1>7 DEF Stops
      <3>2. helper[c].mem[n] \in {"booting", "running"}
        BY <1>5, <3>1
      <3>3. LeadsTo(n, c)
        BY <3>2 DEF Inv, Registration, Traced, Orphan
      <3> QED
        BY <3>1, <3>3 DEF LeadsTo
    <2>2. helper[c].mem[m] \in {"booting", "running"}
      <3>1. CASE c = h
        <4>1. helper'[h].mem[m] = helper[h].mem[m]
          BY <1>5, <2>1
        <4> QED
          BY <3>1, <4>1
      <3>2. CASE c # h
        BY <1>5, <3>2
      <3> QED
        BY <3>1, <3>2
    <2> QED
      BY <1>0, <2>1, <2>2 DEF Good, OwnedOf, At
  <1>17. ASSUME NEW d \in Client \ {c} PROVE Good(d)'
    <2>1. Good(d) /\ cl'[d] = cl[d] /\ helper'[d].up = helper[d].up
      BY <1>1, <1>5 DEF Inv, Others
    <2>2. \A m \in Name \ lapse : Working(d, m) => m # n
      BY <1>2 DEF Inv, Turn
    <2>3. \A m \in Name \ {n} : helper'[d].mem[m] = helper[d].mem[m]
      BY <1>5
    <2>4. \A m \in Name \ {n} : Own(d, m) => Own(d, m)'
      BY <1>4, <2>1, <2>3 DEF Own
    <2>5. \A m \in Name : entry[m].sock # d => entry'[m].sock # d
      BY <1>4, Apart
    <2> QED
      BY <1>0, <1>3, <1>6, <1>14, <2>1, <2>2, <2>3, <2>4, <2>5, GoodUnder
  <1> QED
    BY <1>0, <1>1, <1>3, <1>8, <1>9, <1>10, <1>11, <1>12, <1>13, <1>15, <1>16, <1>17,
       StepKeeps DEF Good, Making, At

\* The stop request.
LEMMA StopSendKeeps ==
  ASSUME Inv, NEW c \in Client, StopSend(c)
  PROVE  Inv'
  <1> DEFINE n == cl[c].name
             h == entry[n].sock
  <1>0. TypeOK /\ At(c, "stopSend") /\ n \in Name /\ cl[c].pc \in StopPc
    BY Fields, Zenon DEF Inv, Good, ShapeOf, At, NamePc, StopPc, StopSend
  <1>1. CASE ~Listening(n) /\ StopError(c) /\ UNCHANGED <<entry, helper>>
    <2>1. ~IsRunning(n)
      BY <1>0, <1>1 DEF Listening, IsRunning, Inv, HelpersInv
    <2> QED
      BY <1>0, <1>1, <2>1, StopErrorKeeps
  <1>2. CASE /\ Listening(n)
             /\ helper' = [helper EXCEPT ![h].mem[n] =
                             IF @ \in {"starting", "running", "error"} THEN "stopping"
                             ELSE IF @ = "booting" THEN "reaping" ELSE @]
             /\ entry' = [entry EXCEPT ![n] =
                            IF helper[h].mem[n] = "booting" THEN Retired(@) ELSE @]
             /\ Goto(c, "stopPoll")
             /\ lapse' = lapse
    <2> DEFINE x == helper[h].mem[n]
               s == IF x \in {"starting", "running", "error"} THEN "stopping"
                    ELSE IF x = "booting" THEN "reaping" ELSE x
    <2>1. h \in Client /\ helper[h].up = "up" /\ helper[h] \in Helper
      BY <1>0, <1>2, EntryFields, HelperFields, Zenon DEF Listening, Up
    <2>2. x \in MemberState /\ s \in MemberState
      BY <1>0, <2>1, HelperFields DEF MemberState
    <2>3. helper' = [helper EXCEPT ![h].mem[n] = s]
      BY <1>0, <1>2, <2>1 DEF TypeOK, Helper
    <2>4. Stops(x, s)
      BY Zenon DEF Stops
    <2>5. Moves(c, "stopPoll")
      BY <1>0, <1>2, DoGoto, Zenon DEF Pc
    <2>6. CASE x = "booting"
      <3>1. entry' = [entry EXCEPT ![n] = Retired(@)]
        BY <1>2, <2>6
      <3> HIDE DEF n, h, s, x
      <3>2. Led(n, None)
        BY <1>0, <3>1, DoRetired
      <3>3. Put(h, n, s, helper[h].run[n]) /\ helper'[h].up = helper[h].up
        BY <1>0, <2>1, <2>2, <2>3, DoMem
      <3> QED
        BY <1>0, <1>2, <2>1, <2>4, <2>5, <2>6, <3>2, <3>3, SentKeeps, Zenon DEF n, h, x
    <2>7. CASE x # "booting"
      <3>1. entry' = entry
        BY <1>0, <1>2, <2>7 DEF TypeOK
      <3> HIDE DEF n, h, s, x
      <3>3. Put(h, n, s, helper[h].run[n]) /\ helper'[h].up = helper[h].up
        BY <1>0, <2>1, <2>2, <2>3, DoMem
      <3> QED
        BY <1>0, <1>2, <2>1, <2>4, <2>5, <2>7, <3>1, <3>3, SentKeeps, Zenon DEF n, h, x
    <2> QED
      BY <2>6, <2>7
  <1> QED
    BY <1>1, <1>2, Zenon DEF StopSend

-----------------------------------------------------------------------------
(* The disks an up found                                                   *)

\* A directory keeps its disk, or loses it, or has it copied by a client whose turn it is.
DiskGoes(c, n) ==
    \/ entry'[n].disk = entry[n].disk /\ (entry[n].cfg => entry'[n].cfg)
    \/ entry'[n].disk = None
    \/ /\ entry'[n].disk = c /\ Ahead(c, n) /\ ~Ahead(c, n)'
       /\ entry[n].cfg => entry'[n].cfg

\* A step of a client keeps the disk invariant when disks come and go as they may.
LEMMA DiskKeeps ==
  ASSUME TypeOK, DiskInv, NEW c \in Client, Others(c), \A n \in Name : DiskGoes(c, n),
         cl'[c].op = cl[c].op,
         \A n \in Name : Ahead(c, n)' => Ahead(c, n),
         \/ cl'[c].had = cl[c].had /\ (cl[c].op = "up" => \A n \in Name : Claims(c, n)'
                => Spent(c, n))
         \/ cl'[c].had = NoDisks /\ \A n \in Name : ~Claims(c, n)'
  PROVE  DiskInv'
  <1>1. \A d \in Client, n \in Name : Ahead(d, n)' => Ahead(d, n)
    BY DEF Others, Ahead
  <1>2. \A d \in Client, n \in Name : cl'[d].had[n] = cl[d].had[n] \/ cl'[d].had[n] = None
    BY DEF Others, NoDisks
  <1>3. Once'
    <2> SUFFICES ASSUME NEW d \in Client, NEW n \in Name, Ahead(d, n)'
                 PROVE  entry'[n].disk # d /\ \A e \in Client : cl'[e].had[n] # d
      BY DEF Once
    <2>1. entry[n].disk # d /\ \A e \in Client : cl[e].had[n] # d
      BY <1>1 DEF DiskInv, Once
    <2>2. entry'[n].disk # d
      BY <2>1, Apart DEF DiskGoes
    <2> QED
      BY <1>2, <2>1, <2>2, Apart
  <1>4. ASSUME NEW d \in Client, NEW n \in Name, cl'[d].had[n] = cl[d].had[n]
        PROVE  Spent(d, n) => Spent(d, n)'
    BY <1>4 DEF Spent, DiskGoes, DiskInv, Once
  <1>5. HadCfg'
    <2> SUFFICES ASSUME NEW d \in Client, NEW n \in Name, cl'[d].had[n] # None,
                        entry'[n].disk = cl'[d].had[n]
                 PROVE  entry'[n].cfg
      BY DEF HadCfg
    <2>1. cl'[d].had[n] = cl[d].had[n]
      BY <1>2
    <2> QED
      BY <2>1 DEF DiskGoes, DiskInv, HadCfg, Once
  <1>6. ASSUME NEW d \in Client PROVE NewOf(d)'
    <2>1. CASE d # c
      <3>1. cl'[d] = cl[d]
        BY <2>1 DEF Others
      <3> QED
        BY <1>4, <3>1 DEF DiskInv, NewOf, Claims
    <2>2. CASE d = c
      BY <1>4, <2>2 DEF NewOf
    <2> QED
      BY <2>1, <2>2
  <1> QED
    BY <1>3, <1>5, <1>6 DEF DiskInv

\* The disks stay where they are, or are deleted.
DisksLast == \A n \in Name : \/ entry'[n].disk = entry[n].disk /\ (entry[n].cfg => entry'[n].cfg)
                             \/ entry'[n].disk = None

\* A command that ends claims no disk.
LEMMA EndsDisk ==
  ASSUME TypeOK, DiskInv, NEW c \in Client, NEW pc \in {"ok", "err"}, Ends(c, pc), DisksLast
  PROVE  DiskInv'
  <1>1. Others(c) /\ cl'[c].op = cl[c].op /\ cl'[c].had = NoDisks
    BY DEF Ends, Others
  <1>2. \A n \in Name : ~Ahead(c, n)'
    BY DEF Ends, Ahead, AheadAt
  <1>3. \A n \in Name : ~Claims(c, n)'
    BY Apart DEF Ends, Claims, ClaimAt, NoMarks
  <1>4. \A n \in Name : DiskGoes(c, n)
    BY DEF DisksLast, DiskGoes
  <1> QED
    BY <1>1, <1>2, <1>3, <1>4, DiskKeeps

\* A step keeps the disk invariant when it claims no more than it did, or what is not there.
LEMMA BecomesDisk ==
  ASSUME TypeOK, DiskInv, NEW c \in Client, NEW pc, NEW todo, NEW mark, NEW name, NEW existing,
         NEW primary, NEW via, NEW ret,
         Becomes(c, pc, todo, mark, name, existing, primary, via, ret), DisksLast,
         \A n \in Name : AheadAt(pc, todo, name, n) => Ahead(c, n),
         cl[c].op = "up" =>
            \A n \in Name : ClaimAt(pc, mark, name, existing, ret, n) => Claims(c, n) \/ Spent(c, n)
  PROVE  DiskInv'
  <1>1. Others(c) /\ cl'[c].op = cl[c].op /\ cl'[c].had = cl[c].had
    BY DEF Becomes, Others
  <1>2. \A n \in Name : /\ Ahead(c, n)' <=> AheadAt(pc, todo, name, n)
                        /\ Claims(c, n)' <=> ClaimAt(pc, mark, name, existing, ret, n)
    BY DEF Becomes, Ahead, Claims
  <1>3. \A n \in Name : DiskGoes(c, n)
    BY DEF DisksLast, DiskGoes
  <1>4. cl[c].op = "up" => \A n \in Name : Claims(c, n) => Spent(c, n)
    BY DEF DiskInv, NewOf
  <1> QED
    BY <1>1, <1>2, <1>3, <1>4, DiskKeeps

\* Steps that leave the directories alone, or only lead them elsewhere.
LEMMA StillLasts ==
  ASSUME entry' = entry \/ DisksStay
  PROVE  DisksLast
  BY DEF DisksLast, DisksStay

\* A step that goes on keeps the disk invariant.
LEMMA MovesDisk ==
  ASSUME Inv, DiskInv, NEW c \in Client, NEW q, Moves(c, q), DisksLast,
         Onward(c, q) \/ Writes(c, q) \/ (At(c, "stopSend") /\ q = "stopPoll"),
         ~At(c, "disk") \/ q # "seed"
  PROVE  DiskInv'
  <1>0. TypeOK /\ ShapeOf(c)
    BY DEF Inv, Good
  <1>1. \A n \in Name : AheadAt(q, cl[c].todo, cl[c].name, n) => Ahead(c, n)
    BY DEF Onward, Writes, At, Ahead, AheadAt
  <1>2. \A n \in Name : ClaimAt(q, cl[c].mark, cl[c].name, cl[c].existing, cl[c].ret, n)
            => Claims(c, n)
    BY <1>0 DEF Onward, Writes, At, Claims, ClaimAt, StopPc, ShapeOf
  <1> QED
    BY <1>0, <1>1, <1>2, BecomesDisk DEF Moves

\* A call of control.Stop is followed by a delete of what was claimed before.
LEMMA CallsDisk ==
  ASSUME Inv, DiskInv, NEW c \in Client, NEW n \in Name, NEW ret, Calls(c, n, ret), DisksLast,
         ret \in {"delete", "destroy"} /\ cl[c].op = "up" => Claims(c, n)
  PROVE  DiskInv'
  <1>0. TypeOK
    BY DEF Inv
  <1>1. \A m \in Name : ~AheadAt("stopCheck", cl[c].todo, n, m)
    BY DEF AheadAt
  <1>2. \A m \in Name : cl[c].op = "up" /\ ClaimAt("stopCheck", cl[c].mark, n, FALSE, ret, m)
            => Claims(c, m)
    BY DEF Claims, ClaimAt, StopPc
  <1> QED
    BY <1>0, <1>1, <1>2, BecomesDisk DEF Calls

\* A return of control.Stop claims nothing new.
LEMMA ReturnsDisk ==
  ASSUME Inv, DiskInv, NEW c \in Client, NEW ok \in BOOLEAN, StopReturn(c, ok), cl[c].pc \in StopPc,
         UNCHANGED entry
  PROVE  DiskInv'
  <1>0. TypeOK /\ ShapeOf(c) /\ DisksLast /\ cl[c].name \in Name
    BY Fields, StillLasts DEF Inv, Good, ShapeOf, NamePc
  <1>1. CASE cl[c].ret = "err"
    BY <1>0, <1>1, DoEnd, EndsDisk DEF StopReturn
  <1>2. CASE cl[c].ret # "err"
    <2>1. Returns(c, ok)
      BY <1>0, <1>2, DoStopReturn
    <2>2. cl[c].ret \in {"delete", "rollback", "destroy", "down", "remove"}
      BY <1>0, <1>2 DEF ShapeOf
    <2>3. \A n \in Name : ~Ahead(c, n)'
      BY <2>1, <2>2 DEF Returns, Ahead, AheadAt
    <2>4. \A n \in Name : Claims(c, n)' => Claims(c, n)
      BY <2>1, <2>2, Apart DEF Returns, Claims, ClaimAt, StopPc
    <2>5. \A n \in Name : DiskGoes(c, n)
      BY DEF DiskGoes
    <2>6. cl'[c].op = cl[c].op /\ cl'[c].had = cl[c].had /\ Others(c)
      BY <2>1 DEF Returns
    <2> QED
      BY <1>0, <2>3, <2>4, <2>5, <2>6, DiskKeeps DEF DiskInv, NewOf
  <1> QED
    BY <1>1, <1>2

\* A client that begins: what it found is what is there.
LEMMA BeginsDisk ==
  ASSUME Inv, DiskInv, NEW c \in Client, NEW op, NEW ns \in SUBSET Name, NEW marks, NEW pc,
         <<op, marks, pc>> \in {<<"up", "no", "look">>, <<"lib", "missing", "next">>,
                                <<"down", "no", "down">>, <<"rm", "no", "rm">>},
         At(c, "idle"), Begin(c, op, ns, marks, pc)
  PROVE  DiskInv'
  <1>0. TypeOK /\ At(c, "idle") /\ entry' = entry /\ cl[c].name = None
    BY DEF Inv, Good, ShapeOf, Active, At, Begin
  <1>1. \/ op = "up" /\ marks = "no" /\ pc = "look"
        \/ op = "lib" /\ marks = "missing" /\ pc = "next"
        \/ op = "down" /\ marks = "no" /\ pc = "down"
        \/ op = "rm" /\ marks = "no" /\ pc = "rm"
    OBVIOUS
  <1>2. Begins(c, op, ns, marks, pc)
    <2>1. op \in Op /\ marks \in Mark /\ pc \in Pc
      BY <1>1 DEF Op, Mark, Pc
    <2> QED
      BY <1>0, <2>1, DoBegin
  <1>3. \A d \in Client, n \in Name : Ahead(d, n)' => Ahead(d, n)
    BY <1>0, <1>2 DEF Begins, Others, Ahead, AheadAt, At
  <1>4. \A d \in Client, n \in Name : \/ cl'[d].had[n] = cl[d].had[n]
                                      \/ cl'[d].had[n] = None
                                      \/ cl'[d].had[n] = entry[n].disk /\ entry[n].cfg
    BY <1>2 DEF Begins, Others
  <1>5. Once'
    BY <1>0, <1>3, <1>4, Apart DEF DiskInv, Once
  <1>6. HadCfg'
    BY <1>0, <1>4 DEF DiskInv, HadCfg
  <1>7. ASSUME NEW d \in Client PROVE NewOf(d)'
    <2>1. CASE d # c
      <3>1. cl'[d] = cl[d]
        BY <1>2, <2>1 DEF Begins, Others
      <3> QED
        BY <1>0, <3>1 DEF DiskInv, NewOf, Claims, Spent
    <2>2. CASE d = c
      <3>1. \A n \in Name : op = "up" => ~Claims(c, n)'
        BY <1>0, <1>1, <1>2, Apart DEF Begins, Claims, ClaimAt
      <3> QED
        BY <1>2, <2>2, <3>1 DEF Begins, NewOf
    <2> QED
      BY <2>1, <2>2
  <1> QED
    BY <1>5, <1>6, <1>7 DEF DiskInv

\* Every command begins without a claim.
LEMMA CommandDisk ==
  ASSUME Inv, DiskInv, NEW c \in Client, Command(c)
  PROVE  DiskInv'
  <1>0. At(c, "idle")
    BY DEF Command
  <1>1. ASSUME NEW ns \in SUBSET Name, RunUp(c, ns) PROVE DiskInv'
    BY <1>0, <1>1, BeginsDisk DEF RunUp
  <1>2. ASSUME NEW ns \in SUBSET Name, StartCluster(c, ns) PROVE DiskInv'
    BY <1>0, <1>2, BeginsDisk DEF StartCluster
  <1>3. ASSUME NEW p, RunDown(c, p) PROVE DiskInv'
    BY <1>0, <1>3, BeginsDisk, TargetNames DEF RunDown
  <1>4. ASSUME NEW p, RunRm(c, p) PROVE DiskInv'
    BY <1>0, <1>4, BeginsDisk, TargetNames DEF RunRm
  <1> QED
    BY <1>1, <1>2, <1>3, <1>4 DEF Command

\* A step whose client ends, where an action ends a command or unwinds it.
LEMMA UnwindDisk ==
  ASSUME Inv, DiskInv, NEW c \in Client, Goto(c, Unwind(c)), DisksLast,
         cl[c].pc \in {"network", "load", "create", "seed", "delete"},
         At(c, "seed") => cl[c].existing
  PROVE  DiskInv'
  <1>0. TypeOK
    BY DEF Inv
  <1>1. CASE Unwind(c) = "rollback"
    <2>1. Moves(c, "rollback")
      BY <1>0, <1>1, DoGoto DEF Pc
    <2>2. Onward(c, "rollback") \/ Writes(c, "rollback")
      BY DEF Onward, Writes, At
    <2> QED
      BY <2>1, <2>2, MovesDisk
  <1>2. CASE Unwind(c) = "err"
    BY <1>0, <1>2, DoEnd, EndsDisk
  <1> QED
    BY <1>1, <1>2 DEF Unwind

-----------------------------------------------------------------------------
(* The disks, action by action                                             *)

\* store.Create, the seed and store.Delete: no disk comes into being there.
LEMMA FilledLasts ==
  ASSUME NEW n \in Name, NEW cfg, NEW s, Filled(n, cfg, entry[n].disk, s), entry[n].cfg => cfg
  PROVE  DisksLast
  BY DEF Filled, DisksLast

\* A delete leaves no disk behind.
LEMMA DeletedLasts ==
  ASSUME NEW n \in Name, Deleted(n)
  PROVE  DisksLast
  BY DEF Deleted, DisksLast

\* upMembers: a member looked at is no longer to look at, and is not new.
LEMMA UpLookDisk ==
  ASSUME Inv, DiskInv, NEW c \in Client, NEW n \in Name, UpLook(c, n)
  PROVE  DiskInv'
  <1>0. TypeOK /\ entry' = entry /\ At(c, "look") /\ n \in cl[c].todo
    BY DEF Inv, UpLook
  <1> DEFINE todo == cl[c].todo \ {n}
             mark == [cl[c].mark EXCEPT ![n] = IF IsRunning(n) THEN "running" ELSE "missing"]
  <1>1. todo \in SUBSET Name /\ mark \in [Name -> Mark]
    BY <1>0, Fields DEF Mark
  <1>2. cl' = [cl EXCEPT ![c].todo = todo, ![c].mark = mark]
    BY <1>0, Fields DEF UpLook, TypeOK, ClientRec
  <1>3. \A m \in Name : mark[m] = "new" => cl[c].mark[m] = "new"
    BY <1>0, Fields
  <1> HIDE DEF todo, mark
  <1>4. Becomes(c, cl[c].pc, todo, mark, cl[c].name, cl[c].existing, cl[c].primary, cl[c].via,
            cl[c].ret)
    BY <1>0, <1>1, <1>2, DoLook
  <1>5. \A m \in Name : AheadAt(cl[c].pc, todo, cl[c].name, m) => Ahead(c, m)
    BY <1>0 DEF Ahead, AheadAt, At
  <1>6. \A m \in Name : ClaimAt(cl[c].pc, mark, cl[c].name, cl[c].existing, cl[c].ret, m)
            => Claims(c, m)
    BY <1>3 DEF Claims, ClaimAt
  <1> QED
    BY <1>0, <1>4, <1>5, <1>6, StillLasts, BecomesDisk

\* upMembers has seen them all.
LEMMA UpDecideDisk ==
  ASSUME Inv, DiskInv, NEW c \in Client, UpDecide(c)
  PROVE  DiskInv'
  <1>0. TypeOK /\ DisksLast /\ At(c, "look") /\ Marked(c, "missing") \in SUBSET Name
    BY StillLasts DEF Inv, UpDecide, Marked
  <1>1. ASSUME NEW s,
               Becomes(c, "next", Marked(c, "missing"), cl[c].mark, cl[c].name, cl[c].existing, s,
                       cl[c].via, cl[c].ret)
        PROVE  DiskInv'
    <2>1. \A n \in Name : AheadAt("next", Marked(c, "missing"), cl[c].name, n) => Ahead(c, n)
      BY <1>0 DEF Ahead, AheadAt, At
    <2>2. \A n \in Name : ClaimAt("next", cl[c].mark, cl[c].name, cl[c].existing, cl[c].ret, n)
              => Claims(c, n)
      BY DEF Claims, ClaimAt, StopPc
    <2> QED
      BY <1>0, <1>1, <2>1, <2>2, BecomesDisk
  <1>2. CASE Goto(c, "ok") \/ Goto(c, "err")
    <2>1. PICK q \in {"ok", "err"} : Goto(c, q)
      BY <1>2
    <2> QED
      BY <1>0, <2>1, DoEnd, EndsDisk
  <1>3. CASE cl' = [cl EXCEPT ![c].pc = "next", ![c].todo = Marked(c, "missing")]
    <2>1. Becomes(c, "next", Marked(c, "missing"), cl[c].mark, cl[c].name, cl[c].existing,
                  cl[c].primary, cl[c].via, cl[c].ret)
      BY <1>0, <1>3, DoTodo DEF Pc
    <2> QED
      BY <1>1, <2>1
  <1>4. ASSUME NEW s \in Marked(c, "running"),
               cl' = [cl EXCEPT ![c].pc = "next", ![c].todo = Marked(c, "missing"),
                   ![c].primary = s]
        PROVE  DiskInv'
    <2>1. s \in Name
      BY DEF Marked
    <2>2. Becomes(c, "next", Marked(c, "missing"), cl[c].mark, cl[c].name, cl[c].existing,
                  s, cl[c].via, cl[c].ret)
      BY <1>0, <1>4, <2>1, DoPrimary
    <2> QED
      BY <1>1, <2>2
  <1> QED
    BY <1>2, <1>3, <1>4 DEF UpDecide

\* Cluster.Add: the member turned to is one of those ahead.
LEMMA AddMemberDisk ==
  ASSUME Inv, DiskInv, NEW c \in Client, NEW n \in Name, AddMember(c, n)
  PROVE  DiskInv'
  <1>0. TypeOK /\ DisksLast /\ At(c, "next") /\ n \in cl[c].todo
    BY StillLasts DEF Inv, AddMember
  <1>1. ASSUME NEW pc \in {"load", "bind", "network"}, NEW s,
               Becomes(c, pc, cl[c].todo, cl[c].mark, n, cl[c].existing, s, cl[c].via, cl[c].ret)
        PROVE  DiskInv'
    <2>1. \A m \in Name : AheadAt(pc, cl[c].todo, n, m) => Ahead(c, m)
      BY <1>0 DEF Ahead, AheadAt, At
    <2>2. \A m \in Name : ClaimAt(pc, cl[c].mark, n, cl[c].existing, cl[c].ret, m) => Claims(c, m)
      BY DEF Claims, ClaimAt, StopPc
    <2> QED
      BY <1>0, <1>1, <2>1, <2>2, BecomesDisk
  <1>2. CASE Goto(c, "rollback")
    <2>1. Moves(c, "rollback")
      BY <1>0, <1>2, DoGoto DEF Pc
    <2> QED
      BY <1>0, <2>1, MovesDisk DEF Onward, At
  <1>3. CASE cl' = [cl EXCEPT ![c].pc = IF Bound(c) THEN "bind" ELSE "network",
                              ![c].name = n, ![c].primary = n]
    <2>1. PICK pc \in {"bind", "network"} : cl' = [cl EXCEPT ![c].pc = pc, ![c].name = n,
                                                             ![c].primary = n]
      BY <1>3
    <2> QED
      BY <1>0, <1>1, <2>1, DoSpawn
  <1>4. CASE cl' = [cl EXCEPT ![c].pc = IF OwnsHelper(c) THEN "load" ELSE "network", ![c].name = n]
    <2>1. PICK pc \in {"load", "network"} : cl' = [cl EXCEPT ![c].pc = pc, ![c].name = n]
      BY <1>4
    <2>2. pc \in Pc
      BY DEF Pc
    <2> QED
      BY <1>0, <1>1, <2>1, <2>2, DoName
  <1> QED
    BY <1>2, <1>3, <1>4 DEF AddMember

\* A command whose members are all up.
LEMMA AllAddedDisk ==
  ASSUME Inv, DiskInv, NEW c \in Client, AllAdded(c)
  PROVE  DiskInv'
  <1>0. TypeOK /\ DisksLast /\ At(c, "next")
    BY StillLasts DEF Inv, AllAdded
  <1>1. CASE cl[c].op = "lib"
    <2>1. Moves(c, "using")
      BY <1>0, <1>1, DoGoto DEF Pc, AllAdded
    <2> QED
      BY <1>0, <1>1, <2>1, MovesDisk DEF Onward, At
  <1>2. CASE cl[c].op # "lib"
    BY <1>0, <1>2, DoEnd, EndsDisk DEF AllAdded
  <1> QED
    BY <1>1, <1>2

\* The bind of a library's helper touches no disk.
LEMMA BindDisk ==
  ASSUME Inv, DiskInv, NEW c \in Client, Bind(c)
  PROVE  DiskInv'
  <1>1. TypeOK /\ DisksLast /\ At(c, "bind")
    BY StillLasts DEF Inv, Bind
  <1>2. Moves(c, "network")
    BY <1>1, DoBind
  <1> QED
    BY <1>1, <1>2, MovesDisk DEF Onward, At

\* createnetwork answered, or did not.
LEMMA CreateNetworkDisk ==
  ASSUME Inv, DiskInv, NEW c \in Client, CreateNetwork(c)
  PROVE  DiskInv'
  <1>0. TypeOK /\ DisksLast /\ At(c, "network")
    BY StillLasts DEF Inv, CreateNetwork
  <1>2. CASE Answers(c) /\ Goto(c, "load")
    <2>1. helper[c].up = "spawned" => cl[c].primary \in lapse
      BY <1>0, <1>2, NotYet
    <2>2. Moves(c, "load")
      BY <1>0, <1>2, DoGoto DEF Pc
    <2> QED
      BY <1>0, <2>1, <2>2, MovesDisk DEF Onward, At
  <1>3. CASE Goto(c, Unwind(c))
    BY <1>0, <1>3, UnwindDisk DEF At
  <1> QED
    BY <1>2, <1>3 DEF CreateNetwork

\* Exists: a member without a config.json was not there, or lost what was there.
LEMMA ReserveMemberDisk ==
  ASSUME Inv, DiskInv, NEW c \in Client, ReserveMember(c)
  PROVE  DiskInv'
  <1>0. /\ TypeOK /\ DisksLast /\ At(c, "load") /\ cl[c].name \in Name
        /\ entry[cl[c].name].cfg \in BOOLEAN
    BY Fields, EntryFields, StillLasts DEF Inv, Good, ShapeOf, At, NamePc, UpPc, ReserveMember
  <1>1. ASSUME NEW e \in BOOLEAN, entry[cl[c].name].cfg = e,
               cl' = [cl EXCEPT ![c].pc = IF e THEN "seed" ELSE "create", ![c].existing = e]
        PROVE  DiskInv'
    <2>1. PICK pc \in {"seed", "create"} : pc = IF e THEN "seed" ELSE "create"
      OBVIOUS
    <2>2. cl' = [cl EXCEPT ![c].pc = pc, ![c].existing = e] /\ pc \in Pc
      BY <1>1, <2>1 DEF Pc
    <2>3. Becomes(c, pc, cl[c].todo, cl[c].mark, cl[c].name, e, cl[c].primary, cl[c].via, cl[c].ret)
      BY <1>0, <2>2, DoExisting
    <2>4. \A n \in Name : AheadAt(pc, cl[c].todo, cl[c].name, n) => Ahead(c, n)
      BY <1>0 DEF Ahead, AheadAt, At
    <2>5. ~e => Spent(c, cl[c].name)
      BY <1>0, <1>1 DEF Spent, DiskInv, HadCfg
    <2>6. \A n \in Name : ClaimAt(pc, cl[c].mark, cl[c].name, e, cl[c].ret, n) => Claims(c, n)
              \/ Spent(c, n)
      BY <2>1, <2>5 DEF Claims, ClaimAt, StopPc
    <2> QED
      BY <1>0, <2>3, <2>4, <2>6, BecomesDisk
  <1>2. CASE Goto(c, Unwind(c))
    BY <1>0, <1>2, UnwindDisk DEF At
  <1> QED
    BY <1>0, <1>1, <1>2 DEF ReserveMember

\* store.Create.
LEMMA CreateEntryDisk ==
  ASSUME Inv, DiskInv, NEW c \in Client, CreateEntry(c)
  PROVE  DiskInv'
  <1>0. TypeOK /\ At(c, "create") /\ cl[c].name \in Name
    BY Fields DEF Inv, Good, ShapeOf, At, NamePc, UpPc, CreateEntry
  <1>1. CASE entry' = [entry EXCEPT ![cl[c].name] = Saved(@)] /\ Goto(c, "disk")
    <2>1. DisksLast
      BY <1>0, <1>1, FillCfg, FilledLasts
    <2>2. Moves(c, "disk")
      BY <1>0, <1>1, DoGoto DEF Pc
    <2> QED
      BY <1>0, <2>1, <2>2, MovesDisk DEF Writes, At
  <1>2. ASSUME NEW e \in Unsaved(entry[cl[c].name]), entry' = [entry EXCEPT ![cl[c].name] = e],
               Goto(c, Unwind(c))
        PROVE  DiskInv'
    <2>1. DisksLast
      BY <1>0, <1>2, FillBroken DEF Broken, DisksLast
    <2> QED
      BY <1>0, <1>2, <2>1, UnwindDisk DEF At
  <1> QED
    BY <1>1, <1>2 DEF CreateEntry

\* A step on the member directory that failed.
LEMMA FailedDisk ==
  ASSUME Inv, DiskInv, NEW c \in Client, cl[c].pc \in {"disk", "seed"}, Goto(c, Failed(c)),
             entry' = entry
  PROVE  DiskInv'
  <1>0. TypeOK /\ DisksLast /\ (At(c, "disk") => ~cl[c].existing)
    BY StillLasts DEF Inv, Good, ShapeOf, At
  <1>1. CASE cl[c].existing
    BY <1>0, <1>1, UnwindDisk DEF Failed, At
  <1>2. CASE ~cl[c].existing
    <2>1. Moves(c, "delete")
      BY <1>0, <1>2, DoGoto DEF Failed, Pc
    <2> QED
      BY <1>0, <1>2, <2>1, MovesDisk DEF Onward, At
  <1> QED
    BY <1>1, <1>2

\* The disk a client copies is its own, and it copies one for a name but once.
LEMMA CopyDiskDisk ==
  ASSUME Inv, DiskInv, NEW c \in Client, CopyDisk(c)
  PROVE  DiskInv'
  <1>0. /\ TypeOK /\ At(c, "disk") /\ cl[c].name \in Name /\ cl[c].name \in cl[c].todo
        /\ ~cl[c].existing
    BY Fields DEF Inv, Good, ShapeOf, At, NamePc, UpPc, CopyDisk
  <1>1. CASE entry' = [entry EXCEPT ![cl[c].name].disk = c] /\ Goto(c, "seed")
    <2>1. Filled(cl[c].name, entry[cl[c].name].cfg, c, entry[cl[c].name].seed)
      BY <1>0, <1>1, FillDisk
    <2>2. Moves(c, "seed")
      BY <1>0, <1>1, DoGoto DEF Pc
    <2>3. /\ Others(c) /\ cl'[c].op = cl[c].op /\ cl'[c].had = cl[c].had /\ cl'[c].pc = "seed"
          /\ cl'[c].todo = cl[c].todo /\ cl'[c].name = cl[c].name /\ cl'[c].mark = cl[c].mark
          /\ cl'[c].existing = cl[c].existing
      BY <2>2 DEF Moves, Becomes, Others
    <2>4. \A n \in Name : Ahead(c, n)' => Ahead(c, n)
      BY <1>0, <2>3 DEF Ahead, AheadAt, At
    <2>5. Ahead(c, cl[c].name) /\ ~Ahead(c, cl[c].name)'
      BY <1>0, <2>3 DEF Ahead, AheadAt, At
    <2>6. \A n \in Name : DiskGoes(c, n)
      BY <2>1, <2>3, <2>5 DEF DiskGoes, Filled
    <2>7. \A n \in Name : Claims(c, n)' => Claims(c, n)
      BY <1>0, <2>3 DEF Claims, ClaimAt, At, StopPc
    <2> QED
      BY <1>0, <2>3, <2>4, <2>6, <2>7, DiskKeeps DEF DiskInv, NewOf
  <1>2. CASE Goto(c, Failed(c)) /\ UNCHANGED entry
    BY <1>0, <1>2, FailedDisk DEF At
  <1> QED
    BY <1>1, <1>2 DEF CopyDisk

\* The seed and the images.
LEMMA CreateSeedDisk ==
  ASSUME Inv, DiskInv, NEW c \in Client, CreateSeed(c)
  PROVE  DiskInv'
  <1>0. TypeOK /\ At(c, "seed") /\ cl[c].name \in Name /\ cl[c].existing \in BOOLEAN
    BY Fields DEF Inv, Good, ShapeOf, At, NamePc, UpPc, CreateSeed
  <1>1. CASE entry' = [entry EXCEPT ![cl[c].name].seed = @ \/ ~cl[c].existing] /\ Goto(c, "boot")
    <2>1. PICK s \in BOOLEAN : entry' = [entry EXCEPT ![cl[c].name].seed = s]
      <3>1. (entry[cl[c].name].seed \/ ~cl[c].existing) \in BOOLEAN
        OBVIOUS
      <3> QED
        BY <1>1, <3>1
    <2>2. DisksLast
      BY <1>0, <2>1, FillSeed, FilledLasts
    <2>3. Moves(c, "boot")
      BY <1>0, <1>1, DoGoto DEF Pc
    <2> QED
      BY <1>0, <2>2, <2>3, MovesDisk DEF Writes, At
  <1>2. CASE Goto(c, Failed(c)) /\ UNCHANGED entry
    BY <1>0, <1>2, FailedDisk DEF At
  <1> QED
    BY <1>1, <1>2 DEF CreateSeed

\* A boot or a wait that failed: what is to be deleted then was made by this client.
LEMMA StopFailedDisk ==
  ASSUME Inv, DiskInv, NEW c \in Client, cl[c].pc \in {"boot", "wait"}, StopFailed(c),
             entry' = entry
  PROVE  DiskInv'
  <1>0. TypeOK /\ DisksLast /\ cl[c].name \in Name
    BY Fields, StillLasts DEF Inv, Good, ShapeOf, NamePc, UpPc
  <1> DEFINE ret == Failed(c)
  <1>1. ret \in {"delete", "rollback", "err"} /\ (ret = "delete" => ~cl[c].existing)
    BY DEF Failed, Unwind
  <1>2. CallStop(c, cl[c].name, ret)
    BY DEF StopFailed
  <1> HIDE DEF ret
  <1>3. Calls(c, cl[c].name, ret)
    BY <1>0, <1>1, <1>2, DoCall DEF Calls, Pc
  <1>4. ret \in {"delete", "destroy"} => Claims(c, cl[c].name)
    BY <1>1 DEF Claims, ClaimAt
  <1> QED
    BY <1>0, <1>3, <1>4, CallsDisk

\* The boot-member RPC leaves the disks alone.
LEMMA BootMemberDisk ==
  ASSUME Inv, DiskInv, NEW c \in Client, BootMember(c)
  PROVE  DiskInv'
  <1> DEFINE n == cl[c].name
             h == entry[cl[c].primary].sock
  <1>0. TypeOK /\ At(c, "boot") /\ n \in Name /\ cl[c].primary \in Name
    BY Fields, Zenon DEF Inv, Good, ShapeOf, At, NamePc, UpPc, BootMember
  <1>1. CASE StopFailed(c) /\ UNCHANGED <<entry, helper>>
    BY <1>0, <1>1, StopFailedDisk DEF At
  <1>2. CASE /\ Answers(c)
             /\ entry' = [entry EXCEPT ![n] = IF helper[h].mem[n] = "none" THEN Registered(@,
                    h) ELSE @]
             /\ cl' = [cl EXCEPT ![c].pc = "wait", ![c].via = h]
    <2>1. h \in Client
      BY <1>0, <1>2, EntryFields DEF Answers, Listening, Up
    <2>2. DisksLast
      <3>1. CASE helper[h].mem[n] = "none"
        <4>1. entry' = [entry EXCEPT ![n] = Registered(@, h)]
          BY <1>2, <3>1
        <4> HIDE DEF n, h
        <4>2. Led(n, h)
          BY <1>0, <2>1, <4>1, DoRegistered
        <4> QED
          BY <4>2 DEF Led, DisksLast
      <3>2. CASE helper[h].mem[n] # "none"
        <4>1. entry' = entry
          BY <1>0, <1>2, <3>2 DEF TypeOK
        <4> QED
          BY <4>1, StillLasts
      <3> QED
        BY <3>1, <3>2
    <2> HIDE DEF n, h
    <2>3. Becomes(c, "wait", cl[c].todo, cl[c].mark, cl[c].name, cl[c].existing, cl[c].primary, h,
                  cl[c].ret)
      BY <1>0, <1>2, <2>1, DoVia
    <2>4. \A m \in Name : AheadAt("wait", cl[c].todo, cl[c].name, m) => Ahead(c, m)
      BY <1>0 DEF Ahead, AheadAt, At
    <2>5. \A m \in Name : ClaimAt("wait", cl[c].mark, cl[c].name, cl[c].existing, cl[c].ret, m)
              => Claims(c, m)
      BY <1>0 DEF Claims, ClaimAt, At, StopPc
    <2> QED
      BY <1>0, <2>2, <2>3, <2>4, <2>5, BecomesDisk
  <1> QED
    BY <1>1, <1>2, Zenon DEF BootMember

\* A member that came up is new when it did not exist.
LEMMA WaitMemberDisk ==
  ASSUME Inv, DiskInv, NEW c \in Client, WaitMember(c)
  PROVE  DiskInv'
  <1>0. /\ TypeOK /\ DisksLast /\ entry' = entry /\ At(c, "wait") /\ cl[c].name \in Name
        /\ cl[c].existing \in BOOLEAN
    BY Fields, StillLasts, Zenon DEF Inv, Good, ShapeOf, At, NamePc, UpPc, WaitMember
  <1>1. ASSUME NEW n, cl[c].name = n,
               cl' = [cl EXCEPT ![c].pc = "next", ![c].todo = @ \ {n}, ![c].name = None,
                                ![c].via = None, ![c].existing = FALSE,
                                ![c].mark[n] = IF cl[c].existing THEN "old" ELSE "new"]
        PROVE  DiskInv'
    <2> DEFINE todo == cl[c].todo \ {n}
               mark == [cl[c].mark EXCEPT ![n] = IF cl[c].existing THEN "old" ELSE "new"]
    <2>1. todo \in SUBSET Name /\ mark \in [Name -> Mark]
      BY <1>0, <1>1, Fields DEF Mark
    <2>2. cl' = [cl EXCEPT ![c].pc = "next", ![c].todo = todo, ![c].name = None,
                           ![c].via = None, ![c].existing = FALSE, ![c].mark = mark]
      BY <1>0, <1>1, Fields DEF TypeOK, ClientRec
    <2>3. \A m \in Name : mark[m] = "new" => (cl[c].mark[m] = "new" \/ (m = n /\ ~cl[c].existing))
      BY <1>0, <1>1, Fields
    <2>4. todo = cl[c].todo \ {n}
      OBVIOUS
    <2> HIDE DEF todo, mark
    <2>5. Becomes(c, "next", todo, mark, None, FALSE, cl[c].primary, None, cl[c].ret)
      BY <1>0, <2>1, <2>2, DoUp
    <2>6. \A m \in Name : AheadAt("next", todo, None, m) => Ahead(c, m)
      BY <1>0, <1>1, <2>4 DEF Ahead, AheadAt, At
    <2>7. \A m \in Name : ClaimAt("next", mark, None, FALSE, cl[c].ret, m) => Claims(c, m)
      BY <1>0, <1>1, <2>3 DEF Claims, ClaimAt, At, StopPc
    <2> QED
      BY <1>0, <2>5, <2>6, <2>7, BecomesDisk
  <1>2. CASE StopFailed(c)
    BY <1>0, <1>2, StopFailedDisk DEF At
  <1> QED
    BY <1>1, <1>2, Zenon DEF WaitMember

\* The deferred store.Delete.
LEMMA DeleteFailedDisk ==
  ASSUME Inv, DiskInv, NEW c \in Client, DeleteFailed(c)
  PROVE  DiskInv'
  <1>0. TypeOK /\ At(c, "delete") /\ cl[c].name \in Name
    BY Fields DEF Inv, Good, ShapeOf, At, NamePc, DeleteFailed
  <1>1. DisksLast
    BY <1>0, DoDelete, DeletedLasts DEF DeleteFailed
  <1> QED
    BY <1>0, <1>1, UnwindDisk DEF DeleteFailed, At

\* An up destroys but what it marked new.
LEMMA RollbackDisk ==
  ASSUME Inv, DiskInv, NEW c \in Client, Rollback(c)
  PROVE  DiskInv'
  <1>0. TypeOK /\ At(c, "rollback") /\ DisksLast
    BY StillLasts DEF Inv, Rollback
  <1>1. PICK n \in Added(c) :
               CallStop(c, n, IF cl[c].op = "up"
                   /\ cl[c].mark[n] = "old" THEN "rollback" ELSE "destroy")
    BY DEF Rollback
  <1>2. PICK ret \in {"rollback", "destroy"} :
               /\ CallStop(c, n, ret)
               /\ ret = IF cl[c].op = "up" /\ cl[c].mark[n] = "old" THEN "rollback" ELSE "destroy"
    BY <1>1
  <1>3. n \in Name /\ cl[c].mark[n] \in {"old", "new"}
    BY DEF Added, Marked
  <1>4. Calls(c, n, ret)
    BY <1>0, <1>2, <1>3, DoCall DEF Calls, Pc
  <1>5. ret \in {"delete", "destroy"} /\ cl[c].op = "up" => Claims(c, n)
    BY <1>2, <1>3 DEF Claims, ClaimAt
  <1> QED
    BY <1>0, <1>3, <1>4, <1>5, CallsDisk

\* The second half of VM.Destroy.
LEMMA DestroyDisk ==
  ASSUME Inv, DiskInv, NEW c \in Client, Destroy(c)
  PROVE  DiskInv'
  <1>0. TypeOK /\ At(c, "destroy") /\ cl[c].name \in Name
    BY Fields DEF Inv, Good, ShapeOf, At, NamePc, Destroy
  <1>1. DisksLast
    BY <1>0, DoDelete, DeletedLasts, StillLasts DEF Destroy
  <1> DEFINE mark == [cl[c].mark EXCEPT ![cl[c].name] = "no"]
  <1>2. mark \in [Name -> Mark]
    BY <1>0, Fields DEF Mark
  <1>3. cl' = [cl EXCEPT ![c].pc = "rollback", ![c].mark = mark, ![c].name = None]
    BY <1>0, Fields DEF Destroy, TypeOK, ClientRec
  <1>4. \A m \in Name : mark[m] = "new" => cl[c].mark[m] = "new"
    BY <1>0, Fields
  <1> HIDE DEF mark
  <1>5. Becomes(c, "rollback", cl[c].todo, mark, None, cl[c].existing, cl[c].primary, cl[c].via,
            cl[c].ret)
    BY <1>0, <1>2, <1>3, DoLeave
  <1>6. \A m \in Name : ~AheadAt("rollback", cl[c].todo, None, m)
    BY DEF AheadAt
  <1>7. \A m \in Name : ClaimAt("rollback", mark, None, cl[c].existing, cl[c].ret, m)
            => Claims(c, m)
    BY <1>4 DEF Claims, ClaimAt, StopPc
  <1> QED
    BY <1>0, <1>1, <1>5, <1>6, <1>7, BecomesDisk

\* Cluster.Close.
LEMMA RolledBackDisk ==
  ASSUME Inv, DiskInv, NEW c \in Client, RolledBack(c)
  PROVE  DiskInv'
  <1>0. TypeOK /\ At(c, "rollback") /\ DisksLast /\ Added(c) = {}
    BY StillLasts DEF Inv, RolledBack
  <1>1. CASE Bound(c)
    <2>1. Moves(c, "close")
      BY <1>0, <1>1, DoGoto DEF Pc, RolledBack
    <2> QED
      BY <1>0, <1>1, <2>1, MovesDisk DEF Onward, At, Bound
  <1>2. CASE ~Bound(c)
    BY <1>0, <1>2, DoEnd, EndsDisk DEF RolledBack
  <1> QED
    BY <1>1, <1>2

\* The helper of a library's cluster is gone.
LEMMA ClosedDisk ==
  ASSUME Inv, DiskInv, NEW c \in Client, Closed(c)
  PROVE  DiskInv'
  BY StillLasts, DoEnd, EndsDisk DEF Inv, Closed

\* The owner of a library's cluster ends it.
LEMMA EndClusterDisk ==
  ASSUME Inv, DiskInv, NEW c \in Client, EndCluster(c)
  PROVE  DiskInv'
  <1>0. TypeOK /\ At(c, "using") /\ DisksLast /\ Goto(c, "rollback")
    BY StillLasts DEF Inv, EndCluster
  <1>1. Moves(c, "rollback")
    BY <1>0, DoGoto DEF Pc
  <1> QED
    BY <1>0, <1>1, MovesDisk DEF Onward, At

\* control.Stop.
LEMMA StopCheckDisk ==
  ASSUME Inv, DiskInv, NEW c \in Client, StopCheck(c)
  PROVE  DiskInv'
  <1>0. TypeOK /\ At(c, "stopCheck") /\ DisksLast /\ entry' = entry /\ cl[c].pc \in StopPc
    BY StillLasts DEF Inv, StopCheck, At, StopPc
  <1>1. CASE Goto(c, "stopSend")
    <2>1. Moves(c, "stopSend")
      BY <1>0, <1>1, DoGoto DEF Pc
    <2> QED
      BY <1>0, <2>1, MovesDisk DEF Onward, At
  <1>2. CASE StopReturn(c, TRUE)
    BY <1>0, <1>2, ReturnsDisk
  <1> QED
    BY <1>1, <1>2 DEF StopCheck

\* The stop request moves paths and no disk.
LEMMA StopSendDisk ==
  ASSUME Inv, DiskInv, NEW c \in Client, StopSend(c)
  PROVE  DiskInv'
  <1> DEFINE n == cl[c].name
             h == entry[n].sock
  <1>0. TypeOK /\ At(c, "stopSend") /\ n \in Name /\ cl[c].pc \in StopPc
    BY Fields, Zenon DEF Inv, Good, ShapeOf, At, NamePc, StopPc, StopSend
  <1>1. CASE StopError(c) /\ UNCHANGED entry
    BY <1>0, <1>1, ReturnsDisk DEF StopError
  <1>2. CASE /\ entry' = [entry EXCEPT ![n] =
                            IF helper[h].mem[n] = "booting" THEN Retired(@) ELSE @]
             /\ Goto(c, "stopPoll")
    <2>1. DisksLast
      <3>1. CASE helper[h].mem[n] = "booting"
        <4>1. entry' = [entry EXCEPT ![n] = Retired(@)]
          BY <1>2, <3>1
        <4> HIDE DEF n, h
        <4>2. Led(n, None)
          BY <1>0, <4>1, DoRetired
        <4> QED
          BY <4>2 DEF Led, DisksLast
      <3>2. CASE helper[h].mem[n] # "booting"
        <4>1. entry' = entry
          BY <1>0, <1>2, <3>2 DEF TypeOK
        <4> QED
          BY <4>1, StillLasts
      <3> QED
        BY <3>1, <3>2
    <2>2. Moves(c, "stopPoll")
      BY <1>0, <1>2, DoGoto DEF Pc
    <2> HIDE DEF n, h
    <2> QED
      BY <1>0, <2>1, <2>2, MovesDisk DEF At
  <1> QED
    BY <1>1, <1>2, Zenon DEF StopSend

\* control.Stop polls.
LEMMA StopPollDisk ==
  ASSUME Inv, DiskInv, NEW c \in Client, StopPoll(c)
  PROVE  DiskInv'
  <1>0. UNCHANGED entry /\ cl[c].pc \in StopPc
    BY DEF StopPoll, At, StopPc
  <1>1. PICK ok \in BOOLEAN : StopReturn(c, ok)
    BY DEF StopPoll, StopError
  <1> QED
    BY <1>0, <1>1, ReturnsDisk

\* The loops of down and rm.
LEMMA DownNextDisk ==
  ASSUME Inv, DiskInv, NEW c \in Client, NEW n \in Name, DownNext(c, n)
  PROVE  DiskInv'
  <1>0. TypeOK /\ At(c, "down") /\ DisksLast
    BY StillLasts DEF Inv, DownNext
  <1>1. CASE CallStop(c, n, "down")
    <2>1. "down" \in Pc
      BY DEF Pc
    <2>2. Calls(c, n, "down")
      BY <1>0, <1>1, <2>1, DoCall DEF Calls
    <2> QED
      BY <1>0, <2>2, CallsDisk
  <1>2. CASE cl' = [cl EXCEPT ![c].todo = @ \ {n}]
    <2> DEFINE todo == cl[c].todo \ {n}
    <2>1. cl' = [cl EXCEPT ![c].todo = todo] /\ todo \in SUBSET Name
      BY <1>0, <1>2, Fields DEF TypeOK
    <2> HIDE DEF todo
    <2>2. Becomes(c, cl[c].pc, todo, cl[c].mark, cl[c].name, cl[c].existing, cl[c].primary,
              cl[c].via, cl[c].ret)
      BY <1>0, <2>1, DoShrink
    <2>3. \A m \in Name : ~AheadAt(cl[c].pc, todo, cl[c].name, m)
      BY <1>0 DEF AheadAt, At
    <2>4. \A m \in Name : ClaimAt(cl[c].pc, cl[c].mark, cl[c].name, cl[c].existing, cl[c].ret, m)
              => Claims(c, m)
      BY DEF Claims
    <2> QED
      BY <1>0, <2>2, <2>3, <2>4, BecomesDisk
  <1> QED
    BY <1>1, <1>2 DEF DownNext

\* The loop of rm.
LEMMA RmNextDisk ==
  ASSUME Inv, DiskInv, NEW c \in Client, NEW n \in Name, RmNext(c, n)
  PROVE  DiskInv'
  <1>0. TypeOK /\ At(c, "rm") /\ DisksLast
    BY StillLasts DEF Inv, RmNext
  <1>1. CASE CallStop(c, n, "remove")
    <2>1. "remove" \in Pc
      BY DEF Pc
    <2>2. Calls(c, n, "remove")
      BY <1>0, <1>1, <2>1, DoCall DEF Calls
    <2> QED
      BY <1>0, <2>2, CallsDisk
  <1>2. CASE cl' = [cl EXCEPT ![c].pc = "remove", ![c].name = n]
    <2>1. Becomes(c, "remove", cl[c].todo, cl[c].mark, n, cl[c].existing, cl[c].primary,
              cl[c].via, cl[c].ret)
      BY <1>0, <1>2, DoName DEF Pc
    <2>2. \A m \in Name : ~AheadAt("remove", cl[c].todo, n, m)
      BY DEF AheadAt
    <2>3. \A m \in Name : ClaimAt("remove", cl[c].mark, n, cl[c].existing, cl[c].ret, m)
              => Claims(c, m)
      BY DEF Claims, ClaimAt, StopPc
    <2> QED
      BY <1>0, <2>1, <2>2, <2>3, BecomesDisk
  <1> QED
    BY <1>1, <1>2 DEF RmNext

\* The delete of rm.
LEMMA RmDeleteDisk ==
  ASSUME Inv, DiskInv, NEW c \in Client, RmDelete(c)
  PROVE  DiskInv'
  <1>0. TypeOK /\ At(c, "remove") /\ cl[c].name \in Name
    BY Fields DEF Inv, Good, ShapeOf, At, NamePc, RmDelete
  <1>1. DisksLast
    BY <1>0, DoDelete, DeletedLasts DEF RmDelete
  <1> DEFINE todo == cl[c].todo \ {cl[c].name}
  <1>2. cl' = [cl EXCEPT ![c].pc = "rm", ![c].todo = todo, ![c].name = None] /\ todo \in SUBSET Name
    BY <1>0, Fields DEF RmDelete, TypeOK, ClientRec
  <1> HIDE DEF todo
  <1>3. Becomes(c, "rm", todo, cl[c].mark, None, cl[c].existing, cl[c].primary, cl[c].via,
            cl[c].ret)
    BY <1>0, <1>2, DoRemoved
  <1>4. \A m \in Name : ~AheadAt("rm", todo, None, m)
    BY DEF AheadAt
  <1>5. \A m \in Name : ClaimAt("rm", cl[c].mark, None, cl[c].existing, cl[c].ret, m)
            => Claims(c, m)
    BY DEF Claims, ClaimAt, StopPc
  <1> QED
    BY <1>0, <1>1, <1>3, <1>4, <1>5, BecomesDisk

\* The loops of down and rm are through.
LEMMA LoopDoneDisk ==
  ASSUME Inv, DiskInv, NEW c \in Client, LoopDone(c)
  PROVE  DiskInv'
  BY StillLasts, DoEnd, EndsDisk DEF Inv, LoopDone

\* A client that dies claims nothing.
LEMMA ClientCrashDisk ==
  ASSUME Inv, DiskInv, NEW c \in Client, ClientCrash(c)
  PROVE  DiskInv'
  BY StillLasts, DoEnd, EndsDisk DEF Inv, ClientCrash

\* A helper moves the paths to it and nothing else in a directory.
LEMMA HelperDisk ==
  ASSUME DiskInv, cl' = cl, DisksStay
  PROVE  DiskInv'
  <1>1. Once'
    BY DEF DiskInv, Once, Ahead, DisksStay
  <1>2. HadCfg'
    BY DEF DiskInv, HadCfg, DisksStay
  <1>3. \A c \in Client : NewOf(c)'
    BY DEF DiskInv, NewOf, Claims, Spent, DisksStay
  <1> QED
    BY <1>1, <1>2, <1>3 DEF DiskInv

\* No step of a helper changes a client or a disk.
LEMMA HelperStays ==
  ASSUME Inv, NEW h \in Client, HelperWork(h) \/ HelperCrash(h)
  PROVE  cl' = cl /\ DisksStay
  <1>0. TypeOK
    BY DEF Inv
  <1>1. CASE HelperServe(h)
    <2>1. cl[h].primary \in Name \cup {None}
      BY <1>0, Fields
    <2>2. cl[h].primary \in Name => Led(cl[h].primary, h)
      BY <1>0, <1>1, DoRegistered DEF HelperServe
    <2>3. cl[h].primary = None => entry' = entry
      BY <1>0, <1>1, Apart DEF HelperServe, TypeOK
    <2> QED
      BY <1>1, <2>1, <2>2, <2>3 DEF Led, DisksStay, HelperServe
  <1>2. ASSUME NEW n \in Name, HelperRetire(h, n) PROVE cl' = cl /\ DisksStay
    BY <1>0, <1>2, DoRetired DEF HelperRetire, Led, DisksStay
  <1>3. CASE HelperEnd(h)
    <2>1. \A n \in Name : entry'[n] = entry[n] \/ entry'[n] = Retired(entry[n])
      BY <1>3 DEF HelperEnd
    <2>2. \A n \in Name : LET e == Retired(entry[n]) IN
                /\ e.cfg = entry[n].cfg /\ e.cut = entry[n].cut
                /\ e.disk = entry[n].disk /\ e.seed = entry[n].seed
      BY <1>0, EntryFields DEF Retired, Entry
    <2> QED
      BY <1>3, <2>1, <2>2 DEF HelperEnd, DisksStay
  <1> QED
    BY <1>1, <1>2, <1>3 DEF HelperWork, HelperCrash, HelperBooted, HelperStopVM, DisksStay

-----------------------------------------------------------------------------
(* What a step of a client does to disks, and how it comes to fail         *)

\* A client touches the disk of the member it is at, and to copy or delete it.
Touches(c, n) ==
    /\ cl[c].name = n
    /\ cl[c].pc \in {"disk", "delete", "destroy"} \/ cl[c].op = "rm"
Alone(c) == Others(c) /\ \A n \in Name : entry'[n].disk = entry[n].disk \/ Touches(c, n)

\* A client steps alone.
LEMMA OneClient ==
  ASSUME TypeOK, NEW c \in Client
  PROVE  /\ \A pc : Goto(c, pc) => Others(c)
         /\ \A n, ret : CallStop(c, n, ret) => Others(c)
         /\ \A ok : StopReturn(c, ok) => Others(c)
         /\ \A op, ns, marks, pc : Begin(c, op, ns, marks, pc) => Others(c)
  <1>1. cl \in [Client -> ClientRec]
    BY DEF TypeOK
  <1>2. \A pc : Goto(c, pc) => Others(c)
    BY <1>1 DEF Goto, Others
  <1>3. \A n, ret : CallStop(c, n, ret) => Others(c)
    BY <1>1 DEF CallStop, Others
  <1>4. \A ok : StopReturn(c, ok) => Others(c)
    BY <1>1, <1>2 DEF StopReturn, Others
  <1>5. \A op, ns, marks, pc : Begin(c, op, ns, marks, pc) => Others(c)
    BY <1>1 DEF Begin, Others
  <1> QED
    BY <1>2, <1>3, <1>4, <1>5

\* The steps that leave the directories alone.
LEMMA PlainAlone ==
  ASSUME Inv, NEW c \in Client,
         \/ Command(c) \/ ClientCrash(c)
         \/ \E n \in Name : UpLook(c, n) \/ AddMember(c, n) \/ DownNext(c, n) \/ RmNext(c, n)
         \/ UpDecide(c) \/ AllAdded(c) \/ Bind(c) \/ CreateNetwork(c) \/ ReserveMember(c)
         \/ WaitMember(c) \/ Rollback(c) \/ RolledBack(c) \/ Closed(c) \/ EndCluster(c)
         \/ StopCheck(c)
         \/ StopPoll(c) \/ LoopDone(c)
  PROVE  Alone(c)
  <1>0. TypeOK /\ cl \in [Client -> ClientRec]
    BY DEF Inv, TypeOK
  <1>1. CASE Command(c) \/ ClientCrash(c)
    <2>1. ASSUME NEW op, NEW ns, NEW marks, NEW pc, Begin(c, op, ns, marks, pc) PROVE Alone(c)
      BY <1>0, <2>1, OneClient, Zenon DEF Begin, Alone
    <2>2. CASE ClientCrash(c)
      BY <1>0, <2>2, OneClient DEF ClientCrash, Alone
    <2> QED
      BY <1>1, <2>1, <2>2 DEF Command, RunUp, RunDown, RunRm, StartCluster
  <1>2. ASSUME NEW n \in Name, UpLook(c, n) PROVE Alone(c)
    BY <1>0, <1>2 DEF UpLook, Others, Alone
  <1>3. ASSUME NEW n \in Name, AddMember(c, n) PROVE Alone(c)
    <2>1. entry' = entry
      BY <1>3 DEF AddMember
    <2>2. Others(c)
      BY <1>0, <1>3, OneClient DEF AddMember, Others
    <2> QED
      BY <2>1, <2>2 DEF Alone
  <1>4. ASSUME NEW n \in Name, DownNext(c, n) \/ RmNext(c, n) PROVE Alone(c)
    BY <1>0, <1>4, OneClient DEF DownNext, RmNext, Others, Alone
  <1>5. CASE UpDecide(c)
    BY <1>0, <1>5, OneClient DEF UpDecide, Others, Alone
  <1>6. CASE ReserveMember(c) \/ WaitMember(c)
    BY <1>0, <1>6, OneClient, Zenon DEF ReserveMember, WaitMember, StopFailed, Others, Alone
  <1>7. CASE AllAdded(c) \/ CreateNetwork(c) \/ RolledBack(c) \/ Closed(c) \/ EndCluster(c)
                 \/ LoopDone(c)
    BY <1>0, <1>7, OneClient
    DEF AllAdded, CreateNetwork, RolledBack, Closed, EndCluster, LoopDone, Alone
  <1>8. CASE Rollback(c) \/ StopCheck(c) \/ StopPoll(c)
    BY <1>0, <1>8, OneClient DEF Rollback, StopCheck, StopPoll, StopError, Alone
  <1>9. CASE Bind(c)
    BY <1>0, <1>9 DEF Bind, Others, Alone
  <1> QED
    BY <1>1, <1>2, <1>3, <1>4, <1>5, <1>6, <1>7, <1>8, <1>9

\* The steps that write there.
LEMMA WorkAlone ==
  ASSUME Inv, NEW c \in Client, ClientWork(c)
  PROVE  Alone(c)
  <1>0. /\ TypeOK /\ cl \in [Client -> ClientRec]
        /\ cl[c].pc \in NamePc => cl[c].name \in Name
        /\ At(c, "remove") => cl[c].op = "rm"
    BY Fields DEF Inv, TypeOK, Good, ShapeOf, At
  <1>1. CASE CreateEntry(c)
    <2>1. cl[c].name \in Name /\ Others(c)
      BY <1>0, <1>1, OneClient DEF CreateEntry, At, NamePc, UpPc
    <2>2. CASE entry' = [entry EXCEPT ![cl[c].name] = Saved(@)]
      <3>1. Filled(cl[c].name, TRUE, entry[cl[c].name].disk, entry[cl[c].name].seed)
        BY <1>0, <2>1, <2>2, FillCfg
      <3> QED
        BY <2>1, <3>1 DEF Filled, Alone
    <2>3. ASSUME NEW e \in Unsaved(entry[cl[c].name]), entry' = [entry EXCEPT ![cl[c].name] = e]
          PROVE  Alone(c)
      BY <1>0, <2>1, <2>3, FillBroken DEF Broken, Alone
    <2> QED
      BY <1>1, <2>2, <2>3 DEF CreateEntry
  <1>2. CASE CopyDisk(c)
    <2>1. At(c, "disk") /\ cl[c].name \in Name /\ Others(c)
      BY <1>0, <1>2, OneClient DEF CopyDisk, At, NamePc, UpPc
    <2>2. CASE entry' = [entry EXCEPT ![cl[c].name].disk = c]
      <3>1. Filled(cl[c].name, entry[cl[c].name].cfg, c, entry[cl[c].name].seed)
        BY <1>0, <2>1, <2>2, FillDisk
      <3> QED
        BY <2>1, <3>1 DEF Filled, Alone, Touches, At
    <2> QED
      BY <1>2, <2>1, <2>2 DEF CopyDisk, Alone
  <1>3. CASE CreateSeed(c)
    <2>1. At(c, "seed") /\ cl[c].name \in Name /\ Others(c)
      BY <1>0, <1>3, OneClient DEF CreateSeed, At, NamePc, UpPc
    <2>2. CASE entry' = [entry EXCEPT ![cl[c].name].seed = @ \/ ~cl[c].existing]
      <3>1. (entry[cl[c].name].seed \/ ~cl[c].existing) \in BOOLEAN
        OBVIOUS
      <3>2. PICK s \in BOOLEAN : entry' = [entry EXCEPT ![cl[c].name].seed = s]
        BY <2>2, <3>1
      <3>3. Filled(cl[c].name, entry[cl[c].name].cfg, entry[cl[c].name].disk, s)
        BY <1>0, <2>1, <3>2, FillSeed
      <3> QED
        BY <2>1, <3>3 DEF Filled, Alone
    <2> QED
      BY <1>3, <2>1, <2>2 DEF CreateSeed, Alone
  <1>4. CASE BootMember(c)
    <2>1. Others(c)
      BY <1>0, <1>4, OneClient, Zenon DEF BootMember, StopFailed, Others
    <2>2. \A n \in Name : entry'[n].disk = entry[n].disk
      <3>1. \A n \in Name : \/ entry'[n] = entry[n]
                            \/ \E h : entry'[n] = Registered(entry[n], h)
        <4>1. CASE entry' = entry
          BY <4>1
        <4>2. ASSUME NEW n, NEW h, NEW b,
                     entry' = [entry EXCEPT ![n] = IF b THEN Registered(@, h) ELSE @]
              PROVE  \A m \in Name : entry'[m] \in {entry[m], Registered(entry[m], h)}
          BY <1>0, <4>2 DEF TypeOK
        <4> QED
          BY <1>4, <4>1, <4>2, Zenon DEF BootMember
      <3>2. \A n \in Name : \A h : Registered(entry[n], h).disk = entry[n].disk
        BY <1>0, EntryFields DEF Registered, Entry
      <3> QED
        BY <3>1, <3>2
    <2> QED
      BY <2>1, <2>2 DEF Alone
  <1>5. CASE DeleteFailed(c)
    <2>1. At(c, "delete") /\ Deleted(cl[c].name) /\ Others(c)
      BY <1>0, <1>5, DoDelete, OneClient DEF DeleteFailed, At, NamePc
    <2> QED
      BY <2>1 DEF Deleted, Alone, Touches, At
  <1>6. CASE Destroy(c)
    <2>1. At(c, "destroy") /\ Others(c) /\ (Deleted(cl[c].name) \/ entry' = entry)
      BY <1>0, <1>6, DoDelete DEF Destroy, At, NamePc, Others
    <2> QED
      BY <2>1 DEF Deleted, Alone, Touches, At
  <1>7. CASE StopSend(c)
    <2>1. Others(c)
      BY <1>0, <1>7, OneClient, Zenon DEF StopSend, StopError
    <2>2. \A n \in Name : entry'[n].disk = entry[n].disk
      <3>1. \A n \in Name : entry'[n] = entry[n] \/ entry'[n] = Retired(entry[n])
        BY <1>0, <1>7 DEF StopSend, TypeOK
      <3>2. \A n \in Name : Retired(entry[n]).disk = entry[n].disk
        BY <1>0, EntryFields DEF Retired, Entry
      <3> QED
        BY <3>1, <3>2
    <2> QED
      BY <2>1, <2>2 DEF Alone
  <1>8. CASE RmDelete(c)
    <2>1. cl[c].op = "rm" /\ Deleted(cl[c].name) /\ Others(c)
      BY <1>0, <1>8, DoDelete DEF RmDelete, At, NamePc, Others
    <2> QED
      BY <2>1 DEF Deleted, Alone, Touches
  <1>9. CASE \/ \E n \in Name : UpLook(c, n) \/ AddMember(c, n) \/ DownNext(c, n) \/ RmNext(c, n)
             \/ UpDecide(c) \/ AllAdded(c) \/ Bind(c) \/ CreateNetwork(c) \/ ReserveMember(c)
             \/ WaitMember(c) \/ Rollback(c) \/ RolledBack(c) \/ Closed(c) \/ EndCluster(c)
             \/ StopCheck(c)
             \/ StopPoll(c) \/ LoopDone(c)
    BY <1>9, PlainAlone
  <1> QED
    BY <1>1, <1>2, <1>3, <1>4, <1>5, <1>6, <1>7, <1>8, <1>9 DEF ClientWork

\* An up does not touch the disk it found.
LEMMA FoundStays ==
  ASSUME Inv, DiskInv, Next, NEW c \in Client, cl[c].op = "up", cl'[c] # cl[c],
         NEW n \in Name, entry[n].disk # None, entry[n].disk = cl[c].had[n]
  PROVE  entry'[n].disk = entry[n].disk
  <1>1. ASSUME NEW d \in Client, Command(d) \/ ClientWork(d) \/ ClientCrash(d)
        PROVE  entry'[n].disk = entry[n].disk
    <2>1. Alone(d)
      BY <1>1, PlainAlone, WorkAlone
    <2>2. d = c
      BY <2>1 DEF Alone, Others
    <2>3. ASSUME Touches(c, n) PROVE FALSE
      <3>1. Claims(c, n)
        BY <2>3 DEF Touches, Claims, ClaimAt
      <3> QED
        BY <3>1 DEF DiskInv, NewOf, Spent
    <2> QED
      BY <2>1, <2>2, <2>3 DEF Alone
  <1>2. ASSUME NEW h \in Client, HelperWork(h) \/ HelperCrash(h) PROVE FALSE
    BY <1>2, HelperStays
  <1> QED
    BY <1>1, <1>2 DEF Next, Quiet, vars

\* How an up comes to fail: without a helper, rolled back, or killed.
Fallen(c) ==
    /\ helper' = helper /\ lapse \subseteq lapse'
    /\ \/ helper[c].up = "none"
       \/ At(c, "rollback") /\ Added(c) = {}
       \/ cl[c].names \subseteq lapse'

\* Where a step goes on, it has not failed.
LEMMA GoesOn ==
  ASSUME TypeOK, NEW c \in Client
  PROVE  /\ \A pc \in Pc : Goto(c, pc) => cl'[c].pc = pc
         /\ \A n, ret : CallStop(c, n, ret) => cl'[c].pc = "stopCheck"
         /\ Goto(c, Unwind(c)) => cl'[c].pc # "err" \/ helper[c].up = "none"
         /\ Goto(c, Failed(c)) => cl'[c].pc # "err" \/ helper[c].up = "none"
  <1>0. cl \in [Client -> ClientRec] /\ cl[c] \in ClientRec
    BY DEF TypeOK
  <1>1. \A pc \in Pc : Goto(c, pc) => cl'[c].pc = pc
    <2> SUFFICES ASSUME NEW pc \in Pc, Goto(c, pc) PROVE cl'[c].pc = pc
      OBVIOUS
    <2>1. CASE pc \in {"ok", "err"}
      BY <2>1, DoEnd DEF Ends
    <2>2. CASE pc \notin {"ok", "err"}
      BY <2>2, DoGoto DEF Moves, Becomes
    <2> QED
      BY <2>1, <2>2
  <1>2. \A n, ret : CallStop(c, n, ret) => cl'[c].pc = "stopCheck"
    BY <1>0 DEF CallStop, ClientRec
  <1>3. {"rollback", "err", "delete"} \subseteq Pc
    BY DEF Pc
  <1>4. Goto(c, Unwind(c)) => cl'[c].pc # "err" \/ helper[c].up = "none"
    BY <1>1, <1>3 DEF Unwind, OwnsHelper
  <1>5. Goto(c, Failed(c)) => cl'[c].pc # "err" \/ helper[c].up = "none"
    BY <1>1, <1>3, <1>4 DEF Failed
  <1> QED
    BY <1>1, <1>2, <1>4, <1>5

\* control.Stop returns an error to the command of a member without a helper alone.
LEMMA ReturnFalls ==
  ASSUME Inv, NEW c \in Client, NEW ok \in BOOLEAN, cl[c].pc \in StopPc, StopReturn(c, ok),
         cl'[c].pc = "err"
  PROVE  helper[c].up = "none"
  <1>0. TypeOK /\ ShapeOf(c) /\ cl[c].name \in Name
    BY Fields DEF Inv, Good, ShapeOf, NamePc
  <1>1. cl[c].ret # "err" => cl'[c].pc # "err"
    BY <1>0, DoStopReturn DEF Returns
  <1> QED
    BY <1>0, <1>1 DEF ShapeOf

\* An up fails without a helper, or after its rollback.
LEMMA WorkFalls ==
  ASSUME Inv, NEW c \in Client, cl[c].op = "up", ClientWork(c), cl'[c].pc = "err"
  PROVE  Fallen(c)
  <1>0. TypeOK /\ ShapeOf(c) /\ cl \in [Client -> ClientRec] /\ cl[c] \in ClientRec /\ "err" \in Pc
    BY DEF Inv, TypeOK, Good, Pc
  <1>1. \A q \in {"ok", "rollback", "using", "load", "disk", "seed", "boot", "close", "stopSend",
                  "stopPoll"} : ~Goto(c, q)
    <2>1. {"ok", "rollback", "using", "load", "disk", "seed", "boot", "close", "stopSend",
           "stopPoll"} \subseteq Pc
      BY DEF Pc
    <2> QED
      BY <1>0, <2>1, GoesOn
  <1>2. \A n, ret : ~CallStop(c, n, ret)
    BY <1>0, GoesOn
  <1>3. ASSUME NEW n \in Name, UpLook(c, n) \/ DownNext(c, n) \/ RmNext(c, n) PROVE FALSE
    BY <1>0, <1>2, <1>3 DEF UpLook, DownNext, RmNext, At, ClientRec
  <1>4. ASSUME NEW n \in Name, AddMember(c, n) PROVE FALSE
    BY <1>0, <1>1, <1>4 DEF AddMember, ClientRec
  <1>5. CASE UpDecide(c)
    <2>1. helper[c].up = "none" /\ helper' = helper /\ lapse' = lapse
      BY <1>0, <1>5 DEF UpDecide, At, ShapeOf, Ended
    <2> QED
      BY <2>1 DEF Fallen
  <1>6. CASE ReserveMember(c)
    <2>1. ~(cl' = [cl EXCEPT ![c].pc = IF entry[cl[c].name].cfg THEN "seed" ELSE "create",
                              ![c].existing = entry[cl[c].name].cfg])
      BY <1>0 DEF ClientRec
    <2> QED
      BY <1>0, <1>6, <2>1, GoesOn DEF ReserveMember, Fallen
  <1>7. CASE CreateNetwork(c)
    BY <1>0, <1>1, <1>7, GoesOn DEF CreateNetwork, Fallen
  <1>8. CASE CopyDisk(c) \/ CreateSeed(c)
    BY <1>0, <1>1, <1>8, GoesOn DEF CopyDisk, CreateSeed, Fallen
  <1>9. CASE DeleteFailed(c)
    BY <1>0, <1>9, GoesOn DEF DeleteFailed, Fallen
  <1>10. ASSUME BootMember(c) \/ WaitMember(c) PROVE FALSE
    <2>1. ~StopFailed(c)
      BY <1>2 DEF StopFailed
    <2>2. ~BootMember(c)
      BY <1>0, <2>1 DEF BootMember, ClientRec
    <2>3. ~WaitMember(c)
      BY <1>0, <2>1 DEF WaitMember, ClientRec
    <2> QED
      BY <1>10, <2>2, <2>3
  <1>11. ASSUME Rollback(c) \/ EndCluster(c) PROVE FALSE
    BY <1>1, <1>2, <1>11 DEF Rollback, EndCluster
  <1>19. CASE CreateEntry(c)
    BY <1>0, <1>1, <1>19, GoesOn DEF CreateEntry, Fallen
  <1>20. ASSUME Bind(c) PROVE FALSE
    BY <1>0, <1>20 DEF Bind, ClientRec
  <1>12. ASSUME Destroy(c) \/ RmDelete(c) PROVE FALSE
    BY <1>0, <1>12 DEF Destroy, RmDelete, ClientRec
  <1>13. CASE RolledBack(c)
    BY <1>13 DEF RolledBack, Fallen
  <1>14. ASSUME Closed(c) PROVE FALSE
    BY <1>0, <1>14 DEF Closed, ShapeOf, At
  <1>15. ASSUME AllAdded(c) \/ LoopDone(c) PROVE FALSE
    BY <1>1, <1>15 DEF AllAdded, LoopDone
  <1>16. CASE StopCheck(c)
    <2>1. cl[c].pc \in StopPc /\ StopReturn(c, TRUE)
      BY <1>1, <1>16 DEF StopCheck, At, StopPc
    <2> QED
      BY <1>16, <2>1, ReturnFalls DEF StopCheck, Fallen
  <1>17. CASE StopSend(c)
    <2>1. cl[c].pc \in StopPc /\ StopError(c) /\ helper' = helper
      BY <1>1, <1>17, Zenon DEF StopSend, At, StopPc
    <2> QED
      BY <2>1, ReturnFalls DEF StopError, Fallen
  <1>18. CASE StopPoll(c)
    <2>1. cl[c].pc \in StopPc /\ helper' = helper /\ lapse \subseteq lapse'
      BY <1>18 DEF StopPoll, StopError, At, StopPc
    <2>2. PICK ok \in BOOLEAN : StopReturn(c, ok)
      BY <1>18 DEF StopPoll, StopError
    <2> QED
      BY <2>1, <2>2, ReturnFalls DEF Fallen
  <1> QED
    BY <1>3, <1>4, <1>5, <1>6, <1>7, <1>8, <1>9, <1>10, <1>11, <1>12, <1>13, <1>14, <1>15, <1>16,
       <1>17, <1>18, <1>19, <1>20 DEF ClientWork

\* A failed up has nothing running on its helper.
LEMMA FailsClean ==
  ASSUME Inv, Next, NEW c \in Client, cl[c].op = "up", ~Ended(c), cl'[c].pc = "err",
         NEW n \in cl[c].names, n \notin lapse'
  PROVE  helper'[c].mem[n] \notin {"booting", "running"}
  <1>0. TypeOK /\ Good(c) /\ n \in Name
    BY Fields DEF Inv
  <1>1. Active(c)
    BY <1>0 DEF Active, Good, ShapeOf
  <1>2. PICK d \in Client : Command(d) \/ ClientWork(d) \/ ClientCrash(d)
    <2>1. ASSUME NEW h \in Client, HelperWork(h) \/ HelperCrash(h) PROVE FALSE
      BY <2>1, HelperStays DEF Ended
    <2> QED
      BY <2>1 DEF Next, Quiet, vars, Ended
  <1>3. Alone(d)
    BY <1>2, PlainAlone, WorkAlone
  <1>4. d = c
    BY <1>3 DEF Alone, Others, Ended
  <1>5. ~Command(c)
    BY <1>1, Zenon DEF Command, RunUp, RunDown, RunRm, StartCluster, Begin, At, Active
  <1>6. Fallen(c)
    <2>1. CASE ClientWork(c)
      BY <2>1, WorkFalls
    <2>2. CASE ClientCrash(c)
      BY <2>2 DEF ClientCrash, Fallen
    <2> QED
      BY <1>2, <1>4, <1>5, <2>1, <2>2
  <1>7. n \notin lapse /\ ~(cl[c].names \subseteq lapse') /\ helper' = helper
    BY <1>6 DEF Fallen
  <1>8. CASE helper[c].up = "none"
    <2>1. helper[c].mem[n] = "none"
      BY <1>0, <1>8, HasUp
    <2> QED
      BY <1>7, <2>1
  <1>9. CASE At(c, "rollback") /\ Added(c) = {}
    BY <1>0, <1>1, <1>7, <1>9 DEF Good, OwnedOf, Working, At, Added, Marked
  <1> QED
    BY <1>6, <1>7, <1>8, <1>9 DEF Fallen

-----------------------------------------------------------------------------
(* The invariant, and what follows from it                                 *)

\* The first state satisfies both invariants.
LEMMA InitInv == Init => Inv /\ DiskInv
  <1> SUFFICES ASSUME Init PROVE Inv /\ DiskInv
    OBVIOUS
  <1>1. \A c \in Client : /\ cl[c] = Idle /\ helper[c].up = "none"
                          /\ helper[c].mem = [n \in Name |-> "none"]
                          /\ helper[c].run = [n \in Name |-> None]
    BY DEF Init
  <1>2. \A n \in Name : entry[n] = Absent \/ entry[n] = Stopped
    BY DEF Init
  <1>3. Idle \in ClientRec /\ Absent \in Entry /\ Stopped \in Entry
    <2>1. Absent \in Entry
      BY DEF Absent, Entry
    <2>2. Stopped \in Entry
      BY <2>1 DEF Stopped, Entry, Disk
    <2> QED
      BY <2>1, <2>2 DEF Idle, ClientRec, Pc, Op, Mark, Disk
  <1>4. TypeOK
    <2>1. cl \in [Client -> ClientRec]
      BY <1>3 DEF Init
    <2>2. entry \in [Name -> Entry]
      BY <1>3 DEF Init
    <2>3. helper \in [Client -> Helper]
      BY DEF Init, Helper, MemberState, Disk
    <2> QED
      BY <2>1, <2>2, <2>3 DEF Init, TypeOK
  <1>5. \A c \in Client : /\ cl[c].pc = "idle" /\ cl[c].op = "none" /\ cl[c].names = {}
            /\ cl[c].todo = {}
                          /\ cl[c].mark = NoMarks /\ cl[c].name = None /\ cl[c].primary = None
                          /\ cl[c].had = NoDisks /\ cl[c].existing = FALSE /\ cl[c].ret = "idle"
    BY <1>1 DEF Idle, NoMarks, NoDisks
  <1>6. \A n \in Name : /\ entry[n].pid = None /\ entry[n].sock = None
                        /\ entry[n].disk \in {None, Old} /\ (entry[n].disk # None => entry[n].cfg)
                        /\ entry[n].cfg => entry[n].disk = Old /\ entry[n].seed
    <2>1. ~Absent.cfg /\ Absent.disk = None /\ Absent.pid = None /\ Absent.sock = None
      BY DEF Absent
    <2>2. /\ Stopped.cfg /\ Stopped.seed /\ Stopped.disk = Old
          /\ Stopped.pid = None /\ Stopped.sock = None
      BY DEF Stopped, Absent
    <2> QED
      BY <1>2, <2>1, <2>2
  <1>7. HelpersInv /\ DiskInEntry
    BY <1>1, <1>6 DEF HelpersInv, DiskInEntry
  <1>8. EntryComplete
    BY <1>6, ClientUpAssumption DEF EntryComplete
  <1>9. RunningKeepsDisk
    BY <1>1 DEF RunningKeepsDisk
  <1>10. Registration
    BY <1>1 DEF Registration, Traced
  <1>11. Turn
    BY <1>5 DEF Turn, Working
  <1>12. ASSUME NEW c \in Client PROVE Good(c)
    <2>1. ~Active(c) /\ Added(c) = {} /\ \A n \in Name : cl[c].mark[n] = "no"
      BY <1>5 DEF Active, Added, Marked, NoMarks
    <2>2. ShapeOf(c)
      BY <1>1, <1>5, <2>1 DEF ShapeOf, At, NamePc, UpPc, StopPc
    <2>3. FilesOf(c) /\ MissOf(c) /\ SpawnOf(c) /\ FreshOf(c) /\ OwnedOf(c)
      BY <1>1, <1>5, <2>1 DEF FilesOf, MissOf, SpawnOf, FreshOf, OwnedOf, At, UpPc, OwnsHelper
    <2> QED
      BY <2>2, <2>3 DEF Good
  <1>13. DiskInv
    <2>1. Once
      BY <1>5, <1>6, Apart, ClientUpAssumption DEF Once, NoDisks
    <2>2. HadCfg
      BY <1>5 DEF HadCfg, NoDisks
    <2>3. \A c \in Client : NewOf(c)
      BY <1>5 DEF NewOf
    <2> QED
      BY <2>1, <2>2, <2>3 DEF DiskInv
  <1> QED
    BY <1>4, <1>7, <1>8, <1>9, <1>10, <1>11, <1>12, <1>13 DEF Inv

\* Every step keeps the invariant.
LEMMA NextInv == Inv /\ [Next]_vars => Inv'
  <1> SUFFICES ASSUME Inv, [Next]_vars PROVE Inv'
    OBVIOUS
  <1>1. ASSUME NEW c \in Client, ClientWork(c) PROVE Inv'
    <2>1. CASE \E n \in Name : UpLook(c, n) \/ AddMember(c, n) \/ DownNext(c, n) \/ RmNext(c, n)
      BY <2>1, UpLookKeeps, AddMemberKeeps, DownNextKeeps, RmNextKeeps
    <2>2. CASE UpDecide(c) \/ AllAdded(c) \/ Bind(c) \/ CreateNetwork(c) \/ ReserveMember(c)
      BY <2>2, UpDecideKeeps, AllAddedKeeps, BindKeeps, CreateNetworkKeeps, ReserveMemberKeeps
    <2>3. CASE CreateEntry(c) \/ CopyDisk(c) \/ CreateSeed(c) \/ BootMember(c) \/ WaitMember(c)
      BY <2>3, CreateEntryKeeps, CopyDiskKeeps, CreateSeedKeeps, BootMemberKeeps, WaitMemberKeeps
    <2>4. CASE DeleteFailed(c) \/ Rollback(c) \/ Destroy(c) \/ RolledBack(c) \/ Closed(c)
                   \/ EndCluster(c)
      BY <2>4, DeleteFailedKeeps, RollbackKeeps, DestroyKeeps, RolledBackKeeps, ClosedKeeps,
          EndClusterKeeps
    <2>5. CASE StopCheck(c) \/ StopSend(c) \/ StopPoll(c) \/ RmDelete(c) \/ LoopDone(c)
      BY <2>5, StopCheckKeeps, StopSendKeeps, StopPollKeeps, RmDeleteKeeps, LoopDoneKeeps
    <2> QED
      BY <1>1, <2>1, <2>2, <2>3, <2>4, <2>5 DEF ClientWork
  <1>2. ASSUME NEW h \in Client, HelperWork(h) PROVE Inv'
    BY <1>2, HelperServeKeeps, HelperEndKeeps, HelperBootedKeeps, HelperStopVMKeeps,
        HelperRetireKeeps
    DEF HelperWork
  <1>3. CASE UNCHANGED vars
    BY <1>3 DEF vars, Inv, TypeOK, HelpersInv, Turn, DiskInEntry, EntryComplete, RunningKeepsDisk,
       Registration, Good, ShapeOf, FilesOf, MissOf, SpawnOf, FreshOf, OwnedOf, Working, Active,
           Ended,
       At, Added, Marked, Traced, LeadsTo, Orphan, Awaited, Bound, IsRunning, Up, Own, Whole,
           OwnsHelper
  <1> QED
    BY <1>1, <1>2, <1>3, CommandKeeps, ClientCrashKeeps, HelperCrashKeeps DEF Next, Quiet

\* Every step keeps the disk invariant.
LEMMA NextDisk == Inv /\ DiskInv /\ [Next]_vars => DiskInv'
  <1> SUFFICES ASSUME Inv, DiskInv, [Next]_vars PROVE DiskInv'
    OBVIOUS
  <1>1. ASSUME NEW c \in Client, ClientWork(c) PROVE DiskInv'
    <2>1. CASE \E n \in Name : UpLook(c, n) \/ AddMember(c, n) \/ DownNext(c, n) \/ RmNext(c, n)
      BY <2>1, UpLookDisk, AddMemberDisk, DownNextDisk, RmNextDisk
    <2>2. CASE UpDecide(c) \/ AllAdded(c) \/ Bind(c) \/ CreateNetwork(c) \/ ReserveMember(c)
      BY <2>2, UpDecideDisk, AllAddedDisk, BindDisk, CreateNetworkDisk, ReserveMemberDisk
    <2>3. CASE CreateEntry(c) \/ CopyDisk(c) \/ CreateSeed(c) \/ BootMember(c) \/ WaitMember(c)
      BY <2>3, CreateEntryDisk, CopyDiskDisk, CreateSeedDisk, BootMemberDisk, WaitMemberDisk
    <2>4. CASE DeleteFailed(c) \/ Rollback(c) \/ Destroy(c) \/ RolledBack(c) \/ Closed(c)
                   \/ EndCluster(c)
      BY <2>4, DeleteFailedDisk, RollbackDisk, DestroyDisk, RolledBackDisk, ClosedDisk,
          EndClusterDisk
    <2>5. CASE StopCheck(c) \/ StopSend(c) \/ StopPoll(c) \/ RmDelete(c) \/ LoopDone(c)
      BY <2>5, StopCheckDisk, StopSendDisk, StopPollDisk, RmDeleteDisk, LoopDoneDisk
    <2> QED
      BY <1>1, <2>1, <2>2, <2>3, <2>4, <2>5 DEF ClientWork
  <1>2. ASSUME NEW h \in Client, HelperWork(h) \/ HelperCrash(h) PROVE DiskInv'
    BY <1>2, HelperStays, HelperDisk
  <1>3. CASE UNCHANGED vars
    BY <1>3, HelperDisk DEF vars, DisksStay
  <1> QED
    BY <1>1, <1>2, <1>3, CommandDisk, ClientCrashDisk DEF Next, Quiet

\* The invariant holds throughout.
LEMMA InvHolds == Spec => []Inv
  BY InitInv, NextInv, PTL DEF Spec

\* The disk invariant holds throughout.
LEMMA DiskHolds == Spec => []DiskInv
  BY InitInv, NextDisk, InvHolds, PTL DEF Spec

\* Store, helpers and clients keep their types.
THEOREM TypeCorrect == Spec => []TypeOK
  <1>1. Inv => TypeOK
    BY DEF Inv
  <1> QED
    BY <1>1, InvHolds, PTL

\* No VM loses the disk it runs on: rm, the deferred delete and Destroy come after the
\* stop of the member, as long as the clients of its name take turns.
THEOREM RunningCorrect == Spec => []RunningKeepsDisk
  <1>1. Inv => RunningKeepsDisk
    BY DEF Inv
  <1> QED
    BY <1>1, InvHolds, PTL

\* config.json stands for a disk and a seed: the deferred delete of startOnNetwork leaves no
\* half-made member that the next up takes for an existing one.
THEOREM EntryCorrect == Spec => []EntryComplete
  <1>1. Inv => EntryComplete
    BY DEF Inv
  <1> QED
    BY <1>1, InvHolds, PTL

\* What runs can be told to stop: register and retire keep the pidfile and the socket of a
\* member on the helper that runs it.
THEOREM AddressCorrect == Spec => []Addressable
  <1>1. Inv => Addressable
    <2> SUFFICES ASSUME Inv, NEW h \in Client
                 PROVE  /\ \A n \in Name \ lapse : helper[h].run[n] # None => LeadsTo(n, h)
                        /\ \A m \in Name : (/\ helper[h].mem[m] # "none" /\ h \notin lapse
                                            /\ m \notin lapse)
                                => \E n \in Name : helper[h].mem[n] # "none" /\ LeadsTo(n, h)
      BY DEF Addressable
    <2>1. ASSUME NEW n \in Name \ lapse, helper[h].mem[n] # "none"
          PROVE  LeadsTo(n, h) \/ Orphan(h, n)
      BY <2>1 DEF Inv, Registration, Traced
    <2>2. ASSUME NEW n \in Name \ lapse, helper[h].run[n] # None PROVE LeadsTo(n, h)
      <3>1. helper[h].mem[n] \in {"booting", "running", "stopping", "reaping"}
        BY <2>2 DEF Inv, HelpersInv
      <3> QED
        BY <2>1, <3>1 DEF Orphan
    <2> QED
      BY <2>1, <2>2 DEF Orphan
  <1> QED
    BY <1>1, InvHolds, PTL

\* A failed up leaves nothing running on the helper it spawned: every member that came up is
\* marked and rolled back, every other one stopped where it failed.
THEOREM AllOrNothingCorrect == Spec => AllOrNothing
  <1>1. Inv /\ [Next]_vars => [\A c \in Client : (cl[c].op = "up" /\ ~Ended(c)
            /\ cl'[c].pc = "err") =>
                 \A n \in cl[c].names \ lapse' : helper'[c].mem[n] \notin {"booting",
                     "running"}]_vars
    BY FailsClean
  <1> QED
    BY <1>1, InvHolds, PTL DEF Spec, AllOrNothing

\* No step of an up removes or replaces the disk of a member that existed when it began,
\* whoever else is at work: what it destroys it made itself.
THEOREM DisksCorrect == Spec => UpKeepsDisks
  <1>1. Inv /\ DiskInv /\ [Next]_vars => [\A c \in Client : (cl[c].op = "up" /\ cl'[c] # cl[c]) =>
                 \A n \in Name : (entry[n].disk # None /\ entry[n].disk = cl[c].had[n])
                                 => entry'[n].disk = entry[n].disk]_vars
    BY FoundStays
  <1> QED
    BY <1>1, InvHolds, DiskHolds, PTL DEF Spec, UpKeepsDisks
=============================================================================
