--------------------------- MODULE ArtifactsProofs ---------------------------
(***************************************************************************)
(* What Artifacts promises for any number of processes, blocks and faults: *)
(* what the cache serves is whole, the key pair matches, and a predecessor *)
(* that failed or died does not stop its successors.                       *)
(*                                                                         *)
(* All of it is about processes that take turns.  Two that meet may break  *)
(* each of the three, and only types are left.  TurnInv is what holds of   *)
(* turns.  One process at most is at work (Solo).  The key file leads the  *)
(* public one (KeyInv).  No two paths lead to one inode (Apart), so that a *)
(* write under a temporary name leaves what is served alone; the temporary *)
(* file is as whole as its writer has come (FetchAt), and so is the raw    *)
(* image, which is written under its own name (ConvertAt).                 *)
(***************************************************************************)
EXTENDS Artifacts, FiniteSetTheorems, TLAPS

\* A source that is pinned, or a network that delivers what was asked for: an
\* unpinned download is served whatever is in it.
Checked == Pinned \/ "badBody" \notin Faults

\* No two processes have met.
Turns == "overlap" \notin lapse

RestPc == {"idle", "ok", "err", "crashed"}
Active(p) == proc[p].pc \notin RestPc
Solo == \A p, q \in Proc : Active(p) /\ Active(q) => p = q

\* What a process works on has a name and an inode.
TmpPc == {"create", "write", "verify", "rename", "discard", "cleanup"}
Placed == \A p \in Proc :
    /\ proc[p].pc \in TmpPc => proc[p].dest \in {Source, "kernel", "initrd"}
    /\ At(p, "write") => proc[p].fd \in Inode
    /\ At(p, "copy") => proc[p].fd \in Inode /\ proc[p].from \in Inode
Typed == TypeOK /\ Placed

\* The private key comes first. Only a process that is about to write it, or one that
\* died or failed, leaves it without its public half or that half empty. And a process
\* that makes a pair is the first to have one.
KeyPc == {"keyStat", "keyWrite", "pubCreate", "pubWrite"}
Busy == {"keyWrite", "pubCreate", "pubWrite"}
KeyAt(p) ==
    /\ proc[p].key \in Proc => key = proc[p].key
    /\ proc[p].key = "empty" => pub = "empty" /\ "key" \in lapse
    /\ At(p, "keyWrite") => key = "empty"
    /\ proc[p].pc \in {"pubCreate", "pubWrite"} => key = p
PubLeft == key # None /\ pub = None /\ "key" \notin lapse
             => \E p \in Proc : proc[p].pc \in {"keyWrite", "pubCreate"}
PubEmpty == pub = "empty" /\ "key" \notin lapse => \E p \in Proc : proc[p].pc = "pubWrite"
KeyFirst == (key = None \/ \E p \in Proc : proc[p].pc \in Busy)
              => \A q \in Proc : proc[q].key = None /\ (proc[q].pc = "err" => proc[q].hit)
KeyInv ==
    /\ pub \in Proc => key = pub
    /\ key = None => pub = None
    /\ PubLeft /\ PubEmpty /\ KeyFirst
    /\ \A p \in Proc : KeyAt(p)

\* No inode has two names.
Apart == \A a, b \in Path : Exists(a) /\ file[a] = file[b] => a = b
\* The file that a process writes, as far as it has come.
Filled(i, p) == \A b \in 1 .. proc[p].pos : data[i][b] = "good"
TempOf(p) == Tmp[proc[p].dest]
FetchAt(p) ==
    /\ At(p, "write") => /\ Exists(TempOf(p)) /\ proc[p].fd = file[TempOf(p)]
                         /\ proc[p].bad => Fetches(p) /\ Allowed("badBody")
                         /\ ~proc[p].bad => Filled(proc[p].fd, p)
    /\ At(p, "verify") => Fetches(p)
    /\ At(p, "rename") => Exists(TempOf(p)) /\ (Checked => Whole(TempOf(p)))
    /\ At(p, "cleanup") => ~Fetches(p)
    /\ At(p, "discard") => proc[p].hit
ConvertAt(p) ==
    /\ proc[p].pc \in {"convert", "copy"} => Source = "src" /\ Exists("src")
    /\ At(p, "copy") => /\ Exists("raw") /\ proc[p].fd = file["raw"] /\ proc[p].from = file["src"]
                        /\ Checked => Filled(proc[p].fd, p)
    /\ At(p, "convertFailed") => proc[p].hit
FileInv == Apart /\ \A p \in Proc : FetchAt(p) /\ ConvertAt(p)
\* What is served.
Stored == \A d \in {"src", "kernel", "initrd"} : Exists(d) => Whole(d)
RawStored == Exists("raw") /\ "raw" \notin lapse
               /\ (\A p \in Proc : proc[p].pc \notin {"copy", "convertFailed"}) => Whole("raw")
Served == Checked => Stored /\ RawStored
\* A process fails by a fault of its own or over an incomplete key pair.
Failed == \A p \in Proc : At(p, "err") =>
              proc[p].hit \/ (key # None /\ pub = None /\ "key" \in lapse)
TurnInv == Solo /\ KeyInv /\ Failed /\ FileInv /\ Served
CacheInv == Turns => TurnInv
Inv == Typed /\ CacheInv

-----------------------------------------------------------------------------
\* Names: every destination has a temporary name of its own.
LEMMA Paths == /\ Dest \subseteq Path
               /\ \A d \in Dest : Tmp[d] \in Path /\ Tmp[d] \notin Dest
               /\ \A c, d \in Dest : Tmp[c] = Tmp[d] => c = d
               /\ Source \in Dest
  BY ArtifactsAssumption DEF Path, Dest, Tmp

\* There are finitely many names ...
LEMMA PathFinite == IsFiniteSet(Path)
  <1>1. IsFiniteSet({"src"} \cup {"raw"})
    BY FS_Singleton, FS_AddElement
  <1>2. \A S, x : IsFiniteSet(S) => IsFiniteSet(S \cup {x})
    BY FS_AddElement
  <1>3. IsFiniteSet({"src"} \cup {"raw"} \cup {"kernel"} \cup {"initrd"}
            \cup {"src.tmp"} \cup {"raw.tmp"} \cup {"kernel.tmp"} \cup {"initrd.tmp"})
    BY <1>1, <1>2
  <1>4. Path = {"src"} \cup {"raw"} \cup {"kernel"} \cup {"initrd"}
            \cup {"src.tmp"} \cup {"raw.tmp"} \cup {"kernel.tmp"} \cup {"initrd.tmp"}
    BY DEF Path, Dest, Tmp
  <1> QED
    BY <1>3, <1>4

\* ... and two sets, or the values a function takes on one, have no more members
\* than they could.
LEMMA UnionBound ==
    ASSUME NEW S, IsFiniteSet(S), NEW T, IsFiniteSet(T)
    PROVE  /\ IsFiniteSet(S \cup T)
           /\ Cardinality(S \cup T) <= Cardinality(S) + Cardinality(T)
           /\ Cardinality(S \cup T) \in Nat
  <1>1. IsFiniteSet(S \cup T) /\ Cardinality(S \cup T) = Cardinality(S) + Cardinality(T) - Cardinality(S \cap T)
    BY FS_Union
  <1>2. IsFiniteSet(S \cap T)
    BY FS_Intersection
  <1>3. Cardinality(S) \in Nat /\ Cardinality(T) \in Nat /\ Cardinality(S \cap T) \in Nat
        /\ Cardinality(S \cup T) \in Nat
    BY <1>1, <1>2, FS_CardinalityType
  <1> QED
    BY <1>1, <1>3

LEMMA ImageBound ==
    ASSUME NEW S, IsFiniteSet(S), NEW f
    PROVE  /\ IsFiniteSet({f[x] : x \in S})
           /\ Cardinality({f[x] : x \in S}) <= Cardinality(S)
  <1> DEFINE T == {f[x] : x \in S}
             g == [x \in S |-> f[x]]
  <1>1. g \in [S -> T]
    OBVIOUS
  <1>2. \A y \in T : \E x \in S : g[x] = y
    OBVIOUS
  <1>3. g \in Surjection(S, T)
    BY <1>1, <1>2 DEF Surjection
  <1>4. IsFiniteSet(T) /\ Cardinality(T) <= Cardinality(S)
    BY <1>3, FS_Surjection
  <1> QED
    BY <1>4

\* While a path leads nowhere there is an inode to make its file with: paths and
\* open files are fewer than inodes.
LEMMA FreshFree ==
    ASSUME NEW path \in Path, ~Exists(path)
    PROVE  Fresh \in Inode /\ Free(Fresh)
  <1> DEFINE A == {file[x] : x \in Path \ {path}}
             fds == [p \in Proc |-> proc[p].fd]
             froms == [p \in Proc |-> proc[p].from]
             B == {fds[p] : p \in Proc}
             C == {froms[p] : p \in Proc}
  <1>1. /\ IsFiniteSet(Path \ {path})
        /\ Cardinality(Path \ {path}) = Cardinality(Path) - 1
        /\ Cardinality(Path) \in Nat /\ Cardinality(Path \ {path}) \in Nat
    BY PathFinite, FS_RemoveElement, FS_CardinalityType
  <1>2. IsFiniteSet(Proc) /\ Cardinality(Proc) \in Nat
    BY ArtifactsAssumption, FS_CardinalityType
  <1>3. IsFiniteSet(A) /\ Cardinality(A) <= Cardinality(Path) - 1 /\ Cardinality(A) \in Nat
    BY <1>1, ImageBound, FS_CardinalityType
  <1>4. IsFiniteSet(B) /\ Cardinality(B) <= Cardinality(Proc) /\ Cardinality(B) \in Nat
    BY <1>2, ImageBound, FS_CardinalityType
  <1>5. IsFiniteSet(C) /\ Cardinality(C) <= Cardinality(Proc) /\ Cardinality(C) \in Nat
    BY <1>2, ImageBound, FS_CardinalityType
  <1>6. /\ IsFiniteSet(A \cup B) /\ Cardinality(A \cup B) <= Cardinality(A) + Cardinality(B)
        /\ Cardinality(A \cup B) \in Nat
    BY <1>3, <1>4, UnionBound
  <1>7. /\ IsFiniteSet(A \cup B \cup C)
        /\ Cardinality(A \cup B \cup C) <= Cardinality(A \cup B) + Cardinality(C)
        /\ Cardinality(A \cup B \cup C) \in Nat
    BY <1>5, <1>6, UnionBound
  <1>8. IsFiniteSet(Inode) /\ Cardinality(Inode) = 2 * Cardinality(Proc) + Cardinality(Path)
    <2> DEFINE n == 2 * Cardinality(Proc) + Cardinality(Path)
    <2>1. n \in Nat
      BY <1>1, <1>2
    <2>2. IsFiniteSet(1 .. n) /\ Cardinality(1 .. n) = n
      BY <2>1, FS_Interval
    <2> QED
      BY <2>2 DEF Inode
  <1>9. Cardinality(A \cup B \cup C) < Cardinality(Inode)
    BY <1>1, <1>2, <1>3, <1>4, <1>5, <1>6, <1>7, <1>8
  <1>10. PICK i \in Inode : i \notin A \cup B \cup C
    <2>1. CASE Inode \subseteq A \cup B \cup C
      <3>1. Cardinality(Inode) <= Cardinality(A \cup B \cup C)
        BY <1>7, <2>1, FS_Subset
      <3> QED
        BY <1>1, <1>2, <1>7, <1>8, <1>9, <3>1
    <2> QED
      BY <2>1
  <1>11. file[path] # i
    BY <1>10, ArtifactsAssumption, <1>1, <1>2 DEF Exists, Inode
  <1>12. Free(i)
    BY <1>10, <1>11 DEF Free
  <1> QED
    BY <1>12 DEF Fresh

\* An inode is not None.
LEMMA InodeNone == None \notin Inode
  <1>1. Cardinality(Path) \in Nat /\ Cardinality(Proc) \in Nat
    BY PathFinite, ArtifactsAssumption, FS_CardinalityType
  <1> QED
    BY <1>1, ArtifactsAssumption DEF Inode

\* What Goto and Fail do to the process, and to no other.
LEMMA GotoEffect ==
    ASSUME proc \in [Proc -> ProcRec], NEW p \in Proc, NEW pc \in Pc, Goto(p, pc)
    PROVE  /\ proc' \in [Proc -> ProcRec]
           /\ proc'[p].pc = pc /\ proc'[p].key = proc[p].key /\ proc'[p].hit = proc[p].hit
           /\ pc \notin {"ok", "err", "crashed"}
                => proc'[p] = [proc[p] EXCEPT !.pc = pc]
           /\ \A q \in Proc : q # p => proc'[q] = proc[q]
  <1>1. proc[p] \in ProcRec
    OBVIOUS
  <1>2. CASE pc \in {"ok", "err", "crashed"}
    <2> DEFINE r == [Idle EXCEPT !.pc = pc, !.key = proc[p].key, !.hit = proc[p].hit]
    <2>1. Idle \in ProcRec
      BY ArtifactsAssumption DEF Idle, ProcRec, KeyFile, Pc
    <2>2. proc[p].hit \in BOOLEAN /\ proc[p].key \in KeyFile
      BY <1>1 DEF ProcRec
    <2>3. r \in ProcRec /\ r.pc = pc /\ r.hit = proc[p].hit /\ r.key = proc[p].key
      BY <2>1, <2>2 DEF ProcRec
    <2>4. proc' = [proc EXCEPT ![p] = r]
      BY <1>2 DEF Goto
    <2> HIDE DEF r
    <2> QED
      BY <1>2, <2>3, <2>4
  <1>3. CASE pc \notin {"ok", "err", "crashed"}
    <2>1. [proc[p] EXCEPT !.pc = pc] \in ProcRec
      BY <1>1 DEF ProcRec
    <2>2. proc' = [proc EXCEPT ![p] = [proc[p] EXCEPT !.pc = pc]]
      BY <1>3 DEF Goto
    <2>3. proc'[p] = [proc[p] EXCEPT !.pc = pc]
      BY <2>2
    <2> QED
      BY <1>1, <1>3, <2>1, <2>2, <2>3 DEF ProcRec
  <1> QED
    BY <1>2, <1>3

LEMMA FailEffect ==
    ASSUME proc \in [Proc -> ProcRec], NEW p \in Proc, NEW pc \in Pc, Fail(p, pc)
    PROVE  /\ proc' \in [Proc -> ProcRec]
           /\ proc'[p] = [proc[p] EXCEPT !.pc = pc, !.hit = TRUE]
           /\ \A q \in Proc : q # p => proc'[q] = proc[q]
  <1>1. proc[p] \in ProcRec
    OBVIOUS
  <1>2. [proc[p] EXCEPT !.pc = pc, !.hit = TRUE] \in ProcRec
    BY <1>1 DEF ProcRec
  <1>3. proc' = [proc EXCEPT ![p] = [proc[p] EXCEPT !.pc = pc, !.hit = TRUE]]
    BY DEF Fail
  <1> QED
    BY <1>2, <1>3

\* What os.Create does: the file is empty, and nobody else's unless the name was.
LEMMA CreateEffect ==
    ASSUME TypeOK, NEW path \in Path, Create(path)
    PROVE  /\ file' \in [Path -> Inode \cup {None}]
           /\ data' \in [Inode -> [1 .. Blocks -> {"hole", "good", "bad"}]]
           /\ file'[path] \in Inode /\ file'[path] # None
           /\ \A x \in Path : x # path => file'[x] = file[x]
           /\ \A i \in Inode : i # file'[path] => data'[i] = data[i]
           /\ Apart => Apart' /\ \A x \in Path : x # path /\ Exists(x) => file[x] # file'[path]
  <1> DEFINE i == IF Exists(path) THEN file[path] ELSE Fresh
  <1>1. i \in Inode /\ (~Exists(path) => Free(i))
    BY FreshFree DEF TypeOK, Exists
  <1>2. file' = [file EXCEPT ![path] = i] /\ data' = [data EXCEPT ![i] = Hole]
    BY DEF Create
  <1>3. Hole \in [1 .. Blocks -> {"hole", "good", "bad"}]
    BY DEF Hole
  <1>4. file'[path] = i /\ \A x \in Path : x # path => file'[x] = file[x]
    BY <1>2 DEF TypeOK
  <1>5. Apart => \A x \in Path : x # path /\ Exists(x) => file[x] # i
    BY <1>1 DEF Apart, Free
  <1>6. Apart => Apart'
    BY <1>1, <1>4, <1>5, InodeNone DEF Apart, Exists
  <1> QED
    BY <1>1, <1>2, <1>3, <1>4, <1>5, <1>6, InodeNone DEF TypeOK

\* What writing one block does.
LEMMA BlockEffect ==
    ASSUME TypeOK, NEW p \in Proc, proc[p].fd \in Inode, ~Copied(p), NEW b \in {"hole", "good",
           "bad"},
           WriteBlock(p, b)
    PROVE  /\ data' \in [Inode -> [1 .. Blocks -> {"hole", "good", "bad"}]]
           /\ proc' \in [Proc -> ProcRec]
           /\ proc'[p] = [proc[p] EXCEPT !.pos = proc[p].pos + 1]
           /\ \A q \in Proc : q # p => proc'[q] = proc[q]
           /\ \A i \in Inode : i # proc[p].fd => data'[i] = data[i]
           /\ Filled(proc[p].fd, p) /\ b = "good"
                => \A n \in 1 .. proc[p].pos + 1 : data'[proc[p].fd][n] = "good"
  <1> DEFINE i == proc[p].fd
             n == proc[p].pos + 1
  <1>1. proc[p] \in ProcRec /\ proc[p].pos \in 0 .. Blocks /\ proc[p].pos # Blocks
    BY DEF TypeOK, ProcRec, Copied
  <1>2. n \in 1 .. Blocks
    BY <1>1, ArtifactsAssumption
  <1>3. proc' = [proc EXCEPT ![p] = [proc[p] EXCEPT !.pos = n]]
    BY DEF WriteBlock
  <1>4. [proc[p] EXCEPT !.pos = n] \in ProcRec
    BY <1>1, <1>2 DEF ProcRec
  <1>5. data' = [data EXCEPT ![i] = [data[i] EXCEPT ![n] = b]]
    BY DEF WriteBlock
  <1>6. data[i] \in [1 .. Blocks -> {"hole", "good", "bad"}]
    BY DEF TypeOK
  <1>7. [data[i] EXCEPT ![n] = b] \in [1 .. Blocks -> {"hole", "good", "bad"}]
    BY <1>2, <1>6
  <1>8. data'[i] = [data[i] EXCEPT ![n] = b] /\ \A j \in Inode : j # i => data'[j] = data[j]
    BY <1>5 DEF TypeOK
  <1>9. ASSUME Filled(i, p), b = "good", NEW m \in 1 .. n
        PROVE  data'[i][m] = "good"
    <2>1. m \in 1 .. Blocks /\ (m = n \/ m \in 1 .. proc[p].pos)
      BY <1>1, <1>2, ArtifactsAssumption
    <2> QED
      BY <1>2, <1>6, <1>8, <1>9, <2>1 DEF Filled
  <1> QED
    BY <1>3, <1>4, <1>5, <1>7, <1>8, <1>9 DEF TypeOK

\* A process whose record is set.
LEMMA SetEffect ==
    ASSUME proc \in [Proc -> ProcRec], NEW p \in Proc, NEW r \in ProcRec,
           proc' = [proc EXCEPT ![p] = r]
    PROVE  /\ proc' \in [Proc -> ProcRec] /\ proc'[p] = r
           /\ \A q \in Proc : q # p => proc'[q] = proc[q]
  OBVIOUS

\* What a step of one process has to keep.
LEMMA TypedFrame ==
    ASSUME Typed, NEW p \in Proc, proc' \in [Proc -> ProcRec],
           \A q \in Proc : q # p => proc'[q] = proc[q],
           file' \in [Path -> Inode \cup {None}],
           data' \in [Inode -> [1 .. Blocks -> {"hole", "good", "bad"}]],
           key' \in KeyFile, pub' \in KeyFile, lapse' \subseteq {"key", "raw", "overlap"},
           proc'[p].pc \in TmpPc => proc'[p].dest \in {Source, "kernel", "initrd"},
           proc'[p].pc = "write" => proc'[p].fd \in Inode,
           proc'[p].pc = "copy" => proc'[p].fd \in Inode /\ proc'[p].from \in Inode
    PROVE  Typed'
  BY DEF Typed, TypeOK, Placed, At

\* Names of what is fetched or extracted.
LEMMA TempPath ==
    ASSUME NEW d \in {Source, "kernel", "initrd"}
    PROVE  d \in Dest /\ Tmp[d] \in Path
  BY ArtifactsAssumption, Paths DEF Dest

\* The steps that move no file, ...
LEMMA PlainTyped ==
    ASSUME Typed, NEW p \in Proc,
           KeyStat(p) \/ KeyWrite(p) \/ PubCreate(p) \/ PubWrite(p) \/ ImageStat(p) \/ FetchStat(p)
             \/ BootStat(p) \/ Verify(p) \/ Begin(p) \/ Crash(p)
    PROVE  Typed'
  <1>0. /\ proc \in [Proc -> ProcRec] /\ proc[p] \in ProcRec /\ TypeOK
        /\ proc[p].pc \in TmpPc => proc[p].dest \in {Source, "kernel", "initrd"}
    BY DEF Typed, TypeOK, Placed
  <1>1. ASSUME NEW pc \in Pc \ {"write", "copy"}, Goto(p, pc) \/ Fail(p, pc),
               pc \in TmpPc => pc \notin {"ok", "err", "crashed"} /\ proc[p].pc \in TmpPc,
               UNCHANGED disks, key' \in KeyFile, pub' \in KeyFile,
               lapse' \subseteq {"key", "raw", "overlap"}
        PROVE  Typed'
    <2>1. /\ proc' \in [Proc -> ProcRec] /\ \A q \in Proc : q # p => proc'[q] = proc[q]
          /\ proc'[p].pc = pc /\ (pc \in TmpPc => proc'[p].dest = proc[p].dest)
      <3>1. CASE Goto(p, pc)
        <4>1. /\ proc' \in [Proc -> ProcRec] /\ \A q \in Proc : q # p => proc'[q] = proc[q]
              /\ proc'[p].pc = pc
              /\ pc \notin {"ok", "err", "crashed"} => proc'[p] = [proc[p] EXCEPT !.pc = pc]
          BY <1>0, <3>1, GotoEffect
        <4> QED
          BY <1>0, <1>1, <4>1 DEF ProcRec
      <3>2. CASE Fail(p, pc)
        <4>1. /\ proc' \in [Proc -> ProcRec] /\ \A q \in Proc : q # p => proc'[q] = proc[q]
              /\ proc'[p] = [proc[p] EXCEPT !.pc = pc, !.hit = TRUE]
          BY <1>0, <3>2, FailEffect
        <4> QED
          BY <1>0, <4>1 DEF ProcRec
      <3> QED
        BY <1>1, <3>1, <3>2
    <2> QED
      BY <1>0, <1>1, <2>1, TypedFrame DEF disks, TypeOK
  <1>2. ASSUME NEW r \in ProcRec, proc' = [proc EXCEPT ![p] = r],
               r.pc \notin {"write", "copy"}, r.pc \in TmpPc => r.dest \in {Source, "kernel",
               "initrd"},
               UNCHANGED <<disks, lapse>>, key' \in KeyFile, pub' \in KeyFile
        PROVE  Typed'
    BY <1>0, <1>2, SetEffect, TypedFrame DEF disks, TypeOK
  <1>k. CASE KeyFails(p) /\ UNCHANGED disks
    BY <1>0, <1>1, <1>k DEF KeyFails, HalfWritten, TypeOK, Pc, TmpPc, KeyFile
  <1> USE DEF At, Pc, TmpPc, KeyFile, keys
  <1>3. CASE KeyStat(p) /\ ~KeyFails(p)
    <2>1. CASE key # None /\ pub # None
      <3>1. [proc[p] EXCEPT !.pc = "imageStat", !.key = pub] \in ProcRec
        BY <1>0 DEF ProcRec, TypeOK
      <3>2. proc' = [proc EXCEPT ![p] = [proc[p] EXCEPT !.pc = "imageStat", !.key = pub]]
        BY <1>3, <2>1 DEF KeyStat
      <3>3. [proc[p] EXCEPT !.pc = "imageStat", !.key = pub].pc = "imageStat"
        BY <1>0 DEF ProcRec
      <3> QED
        BY <1>0, <1>2, <1>3, <2>1, <3>1, <3>2, <3>3 DEF KeyStat, TypeOK
    <2>2. CASE ~(key # None /\ pub # None)
      BY <1>0, <1>1, <1>3, <2>2 DEF KeyStat, TypeOK
    <2> QED
      BY <2>1, <2>2
  <1>4. CASE (KeyWrite(p) \/ PubCreate(p)) /\ ~KeyFails(p)
    BY <1>0, <1>1, <1>4 DEF KeyWrite, PubCreate, TypeOK
  <1>5. CASE PubWrite(p) /\ ~KeyFails(p)
    <2>1. [proc[p] EXCEPT !.pc = "imageStat", !.key = p] \in ProcRec
      BY <1>0 DEF ProcRec
    <2>2. proc' = [proc EXCEPT ![p] = [proc[p] EXCEPT !.pc = "imageStat", !.key = p]]
      BY <1>5 DEF PubWrite
    <2>3. [proc[p] EXCEPT !.pc = "imageStat", !.key = p].pc = "imageStat"
      BY <1>0 DEF ProcRec
    <2> QED
      BY <1>0, <1>2, <1>5, <2>1, <2>2, <2>3 DEF PubWrite, TypeOK
  <1>6. CASE ImageStat(p)
    BY <1>0, <1>1, <1>6 DEF ImageStat, TypeOK
  <1>7. ASSUME NEW d \in {Source, "kernel", "initrd"}, UNCHANGED <<disks, keys, lapse>>,
               proc' = [proc EXCEPT ![p].pc = "create", ![p].dest = d]
        PROVE  Typed'
    <2>1. [proc[p] EXCEPT !.pc = "create", !.dest = d] \in ProcRec
      BY <1>0, TempPath DEF ProcRec
    <2>2. proc' = [proc EXCEPT ![p] = [proc[p] EXCEPT !.pc = "create", !.dest = d]]
      BY <1>7
    <2>3. /\ [proc[p] EXCEPT !.pc = "create", !.dest = d].pc = "create"
          /\ [proc[p] EXCEPT !.pc = "create", !.dest = d].dest = d
      BY <1>0 DEF ProcRec
    <2> QED
      BY <1>0, <1>2, <1>7, <2>1, <2>2, <2>3 DEF TypeOK
  <1>8. CASE FetchStat(p)
    <2>1. CASE Exists(Source)
      BY <1>0, <1>1, <1>8, <2>1 DEF FetchStat, TypeOK
    <2>2. CASE ~Exists(Source)
      BY <1>7, <1>8, <2>2 DEF FetchStat
    <2> QED
      BY <2>1, <2>2
  <1>9. CASE BootStat(p)
    <2>1. CASE Exists("kernel") /\ Exists("initrd")
      BY <1>0, <1>1, <1>9, <2>1 DEF BootStat, TypeOK
    <2>2. CASE ~(Exists("kernel") /\ Exists("initrd"))
      BY <1>7, <1>9, <2>2 DEF BootStat
    <2> QED
      BY <2>1, <2>2
  <1>10. CASE Verify(p)
    BY <1>0, <1>1, <1>10 DEF Verify, TypeOK
  <1>11. CASE Begin(p)
    BY <1>0, <1>1, <1>11 DEF Begin, TypeOK
  <1>12. CASE Crash(p)
    BY <1>0, <1>1, <1>12 DEF Crash, TypeOK, HalfWritten
  <1>13. CASE KeyFails(p) /\ (KeyStat(p) \/ KeyWrite(p) \/ PubCreate(p) \/ PubWrite(p))
    BY <1>k, <1>13 DEF KeyStat, KeyWrite, PubCreate, PubWrite
  <1> QED
    BY <1>3, <1>4, <1>5, <1>6, <1>8, <1>9, <1>10, <1>11, <1>12, <1>13

\* A process that opens a file.
LEMMA OpenedType ==
    ASSUME NEW r \in ProcRec, NEW bad \in BOOLEAN, NEW i \in Inode, NEW j \in Inode
    PROVE  /\ [r EXCEPT !.pc = "write", !.pos = 0, !.bad = bad, !.fd = i] \in ProcRec
           /\ [r EXCEPT !.pc = "copy", !.dest = "raw", !.pos = 0, !.fd = i, !.from = j] \in ProcRec
  <1>1. 0 \in 0 .. Blocks /\ "write" \in Pc /\ "copy" \in Pc /\ "raw" \in Dest
    BY ArtifactsAssumption DEF Pc, Dest
  <1>2. [r EXCEPT !.pc = "write", !.pos = 0, !.bad = bad, !.fd = i] \in ProcRec
    BY <1>1 DEF ProcRec
  <1>3. [r EXCEPT !.pc = "copy", !.dest = "raw", !.pos = 0, !.fd = i, !.from = j] \in ProcRec
    BY <1>1 DEF ProcRec
  <1> QED
    BY <1>2, <1>3

\* CreateTmp and Convert make a file and open it.
LEMMA OpenEffect ==
    ASSUME Typed, NEW p \in Proc, CreateTmp(p)
    PROVE  /\ TempOf(p) \in Path /\ Create(TempOf(p)) /\ proc[p].dest \in {Source, "kernel", "initrd"}
           /\ proc' \in [Proc -> ProcRec] /\ \A q \in Proc : q # p => proc'[q] = proc[q]
           /\ \E bad \in BOOLEAN :
                 /\ bad => Fetches(p) /\ Allowed("badBody")
                 /\ proc'[p] = [proc[p] EXCEPT !.pc = "write", !.pos = 0, !.bad = bad,
                                               !.fd = file'[TempOf(p)]]
  <1>1. proc[p] \in ProcRec /\ proc[p].dest \in {Source, "kernel", "initrd"}
    BY DEF Typed, TypeOK, Placed, CreateTmp, At, TmpPc
  <1>2. TempOf(p) \in Path /\ Create(TempOf(p))
    BY <1>1, TempPath DEF CreateTmp, TempOf
  <1>3. file'[TempOf(p)] \in Inode
    BY <1>2, CreateEffect DEF Typed
  <1>4. PICK bad \in BOOLEAN :
            /\ bad => Fetches(p) /\ Allowed("badBody")
            /\ proc' = [proc EXCEPT ![p].pc = "write", ![p].pos = 0, ![p].bad = bad,
                                    ![p].fd = file'[TempOf(p)]]
    BY DEF CreateTmp, TempOf
  <1> DEFINE r == [proc[p] EXCEPT !.pc = "write", !.pos = 0, !.bad = bad, !.fd = file'[TempOf(p)]]
  <1>5. r \in ProcRec
    BY <1>1, <1>3, OpenedType
  <1>6. proc' = [proc EXCEPT ![p] = r]
    BY <1>4
  <1>7. proc \in [Proc -> ProcRec]
    BY DEF Typed, TypeOK
  <1> QED
    BY <1>1, <1>2, <1>4, <1>5, <1>6, <1>7, SetEffect

LEMMA ConvertEffect ==
    ASSUME Typed, NEW p \in Proc, Convert(p), Exists("src")
    PROVE  /\ Create("raw")
           /\ proc' \in [Proc -> ProcRec] /\ \A q \in Proc : q # p => proc'[q] = proc[q]
           /\ proc'[p] = [proc[p] EXCEPT !.pc = "copy", !.dest = "raw", !.pos = 0,
                                         !.fd = file'["raw"], !.from = file["src"]]
  <1>1. proc[p] \in ProcRec /\ "raw" \in Path /\ "src" \in Path /\ file["src"] \in Inode
    BY Paths DEF Typed, TypeOK, Dest, Exists
  <1>2. Create("raw")
    BY DEF Convert
  <1>3. file'["raw"] \in Inode
    BY <1>1, <1>2, CreateEffect DEF Typed
  <1> DEFINE r == [proc[p] EXCEPT !.pc = "copy", !.dest = "raw", !.pos = 0,
                                  !.fd = file'["raw"], !.from = file["src"]]
  <1>4. r \in ProcRec
    BY <1>1, <1>3, OpenedType
  <1>5. proc' = [proc EXCEPT ![p] = r]
    BY DEF Convert
  <1>6. proc \in [Proc -> ProcRec]
    BY DEF Typed, TypeOK
  <1> QED
    BY <1>2, <1>4, <1>5, <1>6, SetEffect

\* ... and those that do, keep the types.
LEMMA FileTyped ==
    ASSUME Typed, NEW p \in Proc,
           CreateTmp(p) \/ Write(p) \/ RenameTmp(p) \/ Discard(p) \/ Cleanup(p) \/ Convert(p)
             \/ Copy(p) \/ ConvertFailed(p) \/ RemoveSource(p)
    PROVE  Typed'
  <1>0. /\ proc \in [Proc -> ProcRec] /\ proc[p] \in ProcRec /\ TypeOK
        /\ proc[p].pc \in TmpPc => proc[p].dest \in {Source, "kernel", "initrd"}
        /\ proc[p].pc = "write" => proc[p].fd \in Inode
        /\ proc[p].pc = "copy" => proc[p].fd \in Inode /\ proc[p].from \in Inode
        /\ UNCHANGED <<keys, lapse>>
    BY DEF Typed, TypeOK, Placed, At, CreateTmp, Write, RenameTmp, Discard, Cleanup, Convert, Copy,
       ConvertFailed, RemoveSource
  <1>1. ASSUME NEW pc \in Pc, Goto(p, pc) \/ Fail(p, pc),
               pc \notin {"write", "copy"}, pc \in TmpPc => proc[p].pc \in TmpPc,
               file' \in [Path -> Inode \cup {None}], UNCHANGED data
        PROVE  Typed'
    <2>1. /\ proc' \in [Proc -> ProcRec] /\ \A q \in Proc : q # p => proc'[q] = proc[q]
          /\ proc'[p].pc = pc /\ (pc \in TmpPc => proc'[p].dest = proc[p].dest)
      <3>1. CASE Goto(p, pc)
        <4>1. /\ proc' \in [Proc -> ProcRec] /\ \A q \in Proc : q # p => proc'[q] = proc[q]
              /\ proc'[p].pc = pc
              /\ pc \notin {"ok", "err", "crashed"} => proc'[p] = [proc[p] EXCEPT !.pc = pc]
          BY <1>0, <3>1, GotoEffect
        <4> QED
          BY <1>0, <1>1, <4>1 DEF ProcRec, TmpPc
      <3>2. CASE Fail(p, pc)
        <4>1. /\ proc' \in [Proc -> ProcRec] /\ \A q \in Proc : q # p => proc'[q] = proc[q]
              /\ proc'[p] = [proc[p] EXCEPT !.pc = pc, !.hit = TRUE]
          BY <1>0, <3>2, FailEffect
        <4> QED
          BY <1>0, <4>1 DEF ProcRec
      <3> QED
        BY <1>1, <3>1, <3>2
    <2> QED
      BY <1>0, <1>1, <2>1, TypedFrame DEF keys, TypeOK
  <1> USE DEF At, Pc, TmpPc
  <1>2. CASE CreateTmp(p)
    <2>1. /\ TempOf(p) \in Path /\ Create(TempOf(p)) /\ proc[p].dest \in {Source, "kernel", "initrd"}
          /\ proc' \in [Proc -> ProcRec] /\ \A q \in Proc : q # p => proc'[q] = proc[q]
      BY <1>2, OpenEffect
    <2>2. PICK bad \in BOOLEAN : proc'[p] = [proc[p] EXCEPT !.pc = "write", !.pos = 0, !.bad = bad,
                                               !.fd = file'[TempOf(p)]]
      BY <1>2, OpenEffect
    <2>3. /\ file' \in [Path -> Inode \cup {None}] /\ file'[TempOf(p)] \in Inode
          /\ data' \in [Inode -> [1 .. Blocks -> {"hole", "good", "bad"}]]
      BY <1>0, <2>1, CreateEffect
    <2>4. proc'[p].pc = "write" /\ proc'[p].dest = proc[p].dest /\ proc'[p].fd = file'[TempOf(p)]
      BY <1>0, <2>2 DEF ProcRec
    <2> QED
      BY <1>0, <2>1, <2>3, <2>4, TypedFrame DEF keys, TypeOK
  <1>3. ASSUME NEW b \in {"hole", "good", "bad"}, WriteBlock(p, b), ~Copied(p), UNCHANGED file,
               proc[p].pc \in {"write", "copy"}
        PROVE  Typed'
    <2>1. /\ data' \in [Inode -> [1 .. Blocks -> {"hole", "good", "bad"}]]
          /\ proc' \in [Proc -> ProcRec] /\ \A q \in Proc : q # p => proc'[q] = proc[q]
          /\ proc'[p] = [proc[p] EXCEPT !.pos = proc[p].pos + 1]
      BY <1>0, <1>3, BlockEffect
    <2>2. /\ proc'[p].pc = proc[p].pc /\ proc'[p].dest = proc[p].dest /\ proc'[p].fd = proc[p].fd
          /\ proc'[p].from = proc[p].from
      BY <1>0, <2>1 DEF ProcRec
    <2> QED
      BY <1>0, <1>3, <2>1, <2>2, TypedFrame DEF keys, TypeOK
  <1>4. CASE Write(p)
    <2>1. CASE ~Copied(p) /\ WriteBlock(p, IF proc[p].bad THEN "bad" ELSE "good") /\ UNCHANGED file
      BY <1>3, <1>4, <2>1 DEF Write
    <2>2. CASE /\ UNCHANGED disks
               /\ Fail(p, "discard") \/ Goto(p, IF Fetches(p) /\ Pinned THEN "verify" ELSE "rename")
      BY <1>0, <1>1, <1>4, <2>2 DEF Write, disks, TypeOK
    <2> QED
      BY <1>4, <2>1, <2>2 DEF Write
  <1>5. CASE Copy(p)
    <2>1. CASE ~Copied(p) /\ WriteBlock(p, data[proc[p].from][proc[p].pos + 1]) /\ UNCHANGED file
      <3>1. proc[p].pos + 1 \in 1 .. Blocks
        BY <1>0, <2>1, ArtifactsAssumption DEF ProcRec, Copied
      <3>2. data[proc[p].from][proc[p].pos + 1] \in {"hole", "good", "bad"}
        BY <1>0, <1>5, <3>1 DEF Copy, TypeOK
      <3> QED
        BY <1>3, <1>5, <2>1, <3>2 DEF Copy
    <2>2. CASE UNCHANGED disks /\ (Goto(p, "removeSource") \/ Fail(p, "convertFailed"))
      BY <1>0, <1>1, <1>5, <2>2 DEF Copy, disks, TypeOK
    <2> QED
      BY <1>5, <2>1, <2>2 DEF Copy
  <1>6. CASE RenameTmp(p)
    <2>1. file' \in [Path -> Inode \cup {None}]
      BY <1>0, <1>6, TempPath, Paths DEF RenameTmp, Rename, TypeOK
    <2> QED
      BY <1>0, <1>1, <1>6, <2>1 DEF RenameTmp
  <1>7. CASE Discard(p) \/ ConvertFailed(p) \/ RemoveSource(p)
    <2>1. file' \in [Path -> Inode \cup {None}]
      BY <1>0, <1>7 DEF Discard, ConvertFailed, RemoveSource, Remove, TypeOK
    <2> QED
      BY <1>0, <1>1, <1>7, <2>1 DEF Discard, ConvertFailed, RemoveSource
  <1>8. CASE Cleanup(p)
    <2>1. file' \in [Path -> Inode \cup {None}] /\ UNCHANGED data
      BY <1>0, <1>8 DEF Cleanup, Remove, TypeOK
    <2>2. CASE proc[p].dest = "kernel"
      <3>1. [proc[p] EXCEPT !.pc = "create", !.dest = "initrd"] \in ProcRec
        BY <1>0 DEF ProcRec, Dest
      <3>2. proc' = [proc EXCEPT ![p] = [proc[p] EXCEPT !.pc = "create", !.dest = "initrd"]]
        BY <1>8, <2>2 DEF Cleanup
      <3>3. /\ proc' \in [Proc -> ProcRec] /\ \A q \in Proc : q # p => proc'[q] = proc[q]
            /\ proc'[p] = [proc[p] EXCEPT !.pc = "create", !.dest = "initrd"]
        BY <1>0, <3>1, <3>2, SetEffect
      <3>4. proc'[p].pc = "create" /\ proc'[p].dest = "initrd"
        BY <1>0, <3>3 DEF ProcRec
      <3> QED
        BY <1>0, <2>1, <3>3, <3>4, TypedFrame DEF keys, TypeOK
    <2>3. CASE proc[p].dest # "kernel"
      BY <1>0, <1>1, <1>8, <2>1, <2>3 DEF Cleanup
    <2> QED
      BY <2>2, <2>3
  <1>9. CASE Convert(p)
    <2>1. CASE Exists("src")
      <3>1. /\ Create("raw") /\ proc' \in [Proc -> ProcRec]
            /\ \A q \in Proc : q # p => proc'[q] = proc[q]
            /\ proc'[p] = [proc[p] EXCEPT !.pc = "copy", !.dest = "raw", !.pos = 0,
                                         !.fd = file'["raw"], !.from = file["src"]]
        BY <1>9, <2>1, ConvertEffect
      <3>2. "raw" \in Path /\ "src" \in Path /\ file["src"] \in Inode
        BY <1>0, <2>1, Paths DEF TypeOK, Dest, Exists
      <3>3. /\ file' \in [Path -> Inode \cup {None}] /\ file'["raw"] \in Inode
            /\ data' \in [Inode -> [1 .. Blocks -> {"hole", "good", "bad"}]]
        BY <1>0, <3>1, <3>2, CreateEffect
      <3>4. proc'[p].pc = "copy" /\ proc'[p].fd = file'["raw"] /\ proc'[p].from = file["src"]
        BY <1>0, <3>1 DEF ProcRec
      <3> QED
        BY <1>0, <3>1, <3>2, <3>3, <3>4, TypedFrame DEF keys, TypeOK
    <2>2. CASE ~Exists("src")
      BY <1>0, <1>1, <1>9, <2>2 DEF Convert, disks, TypeOK
    <2> QED
      BY <2>1, <2>2
  <1> QED
    BY <1>2, <1>4, <1>5, <1>6, <1>7, <1>8, <1>9

\* So does every step, two processes that meet included.
LEMMA TypedStep == Typed /\ [Next]_vars => Typed'
  <1> SUFFICES ASSUME Typed, [Next]_vars PROVE Typed'
    OBVIOUS
  <1>1. CASE UNCHANGED vars
    BY <1>1 DEF vars, Typed, TypeOK, Placed, At
  <1> QED
    BY <1>1, PlainTyped, FileTyped DEF Next, Work, Quiet

\* The empty cache.
LEMMA InitTyped == Init => Typed
  BY ArtifactsAssumption DEF Init, Typed, TypeOK, Placed, At, TmpPc, Hole, Idle, ProcRec, KeyFile,
     Pc

\* Every path leads to an inode or nowhere, every inode holds its blocks, and every
\* process does one thing: also where processes share a temporary file.
THEOREM TypeCorrect == Spec => []TypeOK
  <1>1. Typed => TypeOK
    BY DEF Typed
  <1> QED
    BY <1>1, InitTyped, TypedStep, PTL DEF Spec

-----------------------------------------------------------------------------

\* Goto and Fail, as the proofs below use them.
LEMMA Went ==
    ASSUME Typed, NEW p \in Proc, NEW pc \in Pc, Goto(p, pc) \/ Fail(p, pc)
    PROVE  /\ \A q \in Proc : q # p => proc'[q] = proc[q]
           /\ proc'[p].pc = pc /\ proc'[p].key = proc[p].key
           /\ proc'[p].hit = proc[p].hit \/ proc'[p].hit
           /\ Fail(p, pc) => proc'[p].hit
           /\ pc \notin {"ok", "err", "crashed"}
                => /\ proc'[p].dest = proc[p].dest /\ proc'[p].fd = proc[p].fd
                   /\ proc'[p].from = proc[p].from /\ proc'[p].pos = proc[p].pos
                   /\ proc'[p].bad = proc[p].bad
  <1>0. proc \in [Proc -> ProcRec] /\ proc[p] \in ProcRec
    BY DEF Typed, TypeOK
  <1>1. ASSUME Goto(p, pc)
        PROVE  /\ \A q \in Proc : q # p => proc'[q] = proc[q]
               /\ proc'[p].pc = pc /\ proc'[p].key = proc[p].key /\ proc'[p].hit = proc[p].hit
               /\ pc \notin {"ok", "err", "crashed"} => proc'[p] = [proc[p] EXCEPT !.pc = pc]
    BY <1>0, <1>1, GotoEffect
  <1>2. ASSUME Fail(p, pc)
        PROVE  /\ \A q \in Proc : q # p => proc'[q] = proc[q]
               /\ proc'[p] = [proc[p] EXCEPT !.pc = pc, !.hit = TRUE]
    BY <1>0, <1>2, FailEffect
  <1>3. CASE Fail(p, pc)
    BY <1>0, <1>2, <1>3 DEF ProcRec
  <1>4. CASE ~Fail(p, pc)
    <2>1. Goto(p, pc)
      BY <1>4
    <2> QED
      BY <1>0, <1>1, <1>4, <2>1 DEF ProcRec
  <1> QED
    BY <1>3, <1>4

\* A file is whole when each of its blocks is good.
LEMMA WholeBy ==
    ASSUME TypeOK, NEW i \in Inode, \A n \in 1 .. Blocks : data[i][n] = "good"
    PROVE  data[i] = [b \in 1 .. Blocks |-> "good"]
  BY DEF TypeOK

\* A step of one process while the others rest keeps TurnInv, ...
LEMMA Alone ==
    ASSUME Typed, TurnInv, NEW p \in Proc, \A q \in Proc : q # p => proc[q].pc \in RestPc,
           \A q \in Proc : q # p => proc'[q] = proc[q],
           KeyInv', Failed', Apart', FetchAt(p)', ConvertAt(p)', Served'
    PROVE  TurnInv'
  <1>1. Solo'
    BY DEF Solo, Active
  <1>2. FileInv'
    <2>1. ASSUME NEW q \in Proc, q # p PROVE FetchAt(q)' /\ ConvertAt(q)'
      BY <2>1 DEF FetchAt, ConvertAt, At, RestPc
    <2> QED
      BY <2>1 DEF FileInv
  <1> QED
    BY <1>1, <1>2 DEF TurnInv

\* ... when it has nothing to do with the keys, ...
LEMMA AloneFiles ==
    ASSUME Typed, TurnInv, NEW p \in Proc, \A q \in Proc : q # p => proc[q].pc \in RestPc,
           \A q \in Proc : q # p => proc'[q] = proc[q],
           UNCHANGED <<keys, lapse>>, proc'[p].key = proc[p].key,
           proc[p].pc \notin Busy, proc'[p].pc \notin Busy,
           proc'[p].pc = "err" => proc'[p].hit,
           Apart', FetchAt(p)', ConvertAt(p)', Served'
    PROVE  TurnInv'
  <1>1. key' = key /\ pub' = pub /\ lapse' = lapse
    BY DEF keys
  <1>2. \A q \in Proc : proc[q].pc \notin Busy /\ proc'[q].pc \notin Busy
    BY DEF RestPc, Busy
  <1>3. PubLeft' /\ PubEmpty'
    BY <1>1, <1>2 DEF TurnInv, KeyInv, PubLeft, PubEmpty, Busy
  <1>4. KeyFirst'
    BY <1>1, <1>2 DEF TurnInv, KeyInv, KeyFirst
  <1>5. ASSUME NEW q \in Proc PROVE KeyAt(q)'
    <2>1. KeyAt(q) /\ proc'[q].key = proc[q].key /\ proc'[q].pc \notin Busy
      BY <1>2 DEF TurnInv, KeyInv
    <2> QED
      BY <1>1, <2>1 DEF KeyAt, At, Busy
  <1>6. KeyInv'
    BY <1>1, <1>3, <1>4, <1>5 DEF TurnInv, KeyInv
  <1>7. Failed'
    BY <1>1 DEF TurnInv, Failed, At
  <1> QED
    BY <1>6, <1>7, Alone

\* ... and when it moves no file and writes no block.
LEMMA SameDisks ==
    ASSUME TurnInv, NEW p \in Proc, UNCHANGED disks, lapse \subseteq lapse',
           \A q \in Proc : q # p => proc'[q] = proc[q],
           "raw" \in lapse' \/ proc[p].pc \notin {"copy", "convertFailed"}
             \/ proc'[p].pc \in {"copy", "convertFailed"}
    PROVE  Apart' /\ Served'
  <1>1. file' = file /\ data' = data
    BY DEF disks
  <1>2. Apart'
    BY <1>1 DEF TurnInv, FileInv, Apart, Exists
  <1>3. Stored' <=> Stored
    BY <1>1 DEF Stored, Exists, Whole
  <1>4. RawStored => RawStored'
    BY <1>1 DEF RawStored, Exists, Whole
  <1> QED
    BY <1>2, <1>3, <1>4 DEF TurnInv, Served

\* A step of the keys, of the only process at work, keeps what is said of them.
LEMMA KeyStep ==
    ASSUME Typed, TurnInv, NEW p \in Proc, \A q \in Proc : q # p => proc[q].pc \in RestPc,
           \A q \in Proc : q # p => proc'[q] = proc[q],
           proc'[p].pc \in {"imageStat", "err", "crashed"} \cup Busy,
           UNCHANGED disks, lapse \subseteq lapse',
           "raw" \in lapse' \/ proc[p].pc \notin {"copy", "convertFailed"},
           KeyInv', Failed'
    PROVE  TurnInv'
  <1>1. Apart' /\ Served'
    BY SameDisks
  <1>2. FetchAt(p)' /\ ConvertAt(p)'
    BY DEF FetchAt, ConvertAt, At, Busy
  <1> QED
    BY <1>1, <1>2, Alone

\* EnsureKey: the key that is there is taken with its public half, and a new one is
\* made only where there is none.
LEMMA KeyTurn ==
    ASSUME Typed, TurnInv, Turns, NEW p \in Proc, \A q \in Proc : q # p => proc[q].pc \in RestPc,
           KeyStat(p) \/ KeyWrite(p) \/ PubCreate(p) \/ PubWrite(p)
    PROVE  TurnInv'
  <1>0. /\ UNCHANGED disks /\ proc[p].pc \in KeyPc
        /\ proc \in [Proc -> ProcRec] /\ proc[p] \in ProcRec
        /\ key \in KeyFile /\ pub \in KeyFile
    BY DEF KeyStat, KeyWrite, PubCreate, PubWrite, KeyPc, At, Typed, TypeOK
  <1>1. \A q \in Proc : q # p => proc[q].pc \notin Busy
    BY DEF Busy, RestPc
  <1>2. /\ pub \in Proc => key = pub
        /\ key = None => pub = None
        /\ key # None /\ pub = None /\ "key" \notin lapse => proc[p].pc \in {"keyWrite", "pubCreate"}
        /\ pub = "empty" /\ "key" \notin lapse => proc[p].pc = "pubWrite"
        /\ At(p, "keyWrite") => key = "empty"
        /\ proc[p].pc \in {"pubCreate", "pubWrite"} => key = p
    BY <1>1 DEF TurnInv, KeyInv, PubLeft, PubEmpty, KeyAt, Busy
  <1>3. key = None \/ proc[p].pc \in Busy
          => \A q \in Proc : proc[q].key = None /\ (proc[q].pc = "err" => proc[q].hit)
    BY DEF TurnInv, KeyInv, KeyFirst
  <1>4. \A q \in Proc : /\ proc[q].key \in Proc => key = proc[q].key
                        /\ proc[q].key = "empty" => pub = "empty" /\ "key" \in lapse
    BY DEF TurnInv, KeyInv, KeyAt
  <1>5. \A q \in Proc : proc[q].pc = "err" =>
          proc[q].hit \/ (key # None /\ pub = None /\ "key" \in lapse)
    BY DEF TurnInv, Failed, At
  <1> USE ArtifactsAssumption DEF At
  <1>6. CASE KeyFails(p) /\ (key = None \/ proc[p].pc \in Busy)
    <2>1. Fail(p, "err") /\ key' = key /\ pub' = pub /\ lapse' = lapse \cup HalfWritten(p)
      BY <1>6 DEF KeyFails
    <2>2. /\ \A q \in Proc : q # p => proc'[q] = proc[q]
          /\ proc'[p].pc = "err" /\ proc'[p].key = proc[p].key /\ proc'[p].hit
      BY <2>1, Went DEF Pc
    <2>3. lapse \subseteq lapse' /\ (proc[p].pc \in Busy => "key" \in lapse')
      BY <2>1 DEF HalfWritten, Busy
    <2>5. KeyInv'
      <3>1. PubLeft' /\ PubEmpty'
        BY <1>2, <2>1, <2>2, <2>3, <1>6 DEF PubLeft, PubEmpty
      <3>2. KeyFirst'
        BY <1>3, <2>2, <1>6 DEF KeyFirst
      <3>3. \A q \in Proc : KeyAt(q)'
        BY <1>1, <1>4, <2>1, <2>2, <2>3 DEF KeyAt, Busy
      <3> QED
        BY <1>2, <2>1, <3>1, <3>2, <3>3 DEF KeyInv
    <2>6. Failed'
      BY <1>5, <2>1, <2>2, <2>3 DEF Failed
    <2> QED
      BY <1>0, <2>2, <2>3, <2>5, <2>6, KeyStep DEF KeyPc
  <1>7. CASE KeyStat(p) /\ (key = None => ~KeyFails(p))
    <2>0. proc[p].pc = "keyStat" /\ lapse' = lapse
      BY <1>7 DEF KeyStat
    <2>1. CASE key # None /\ pub # None
      <3>1. proc' = [proc EXCEPT ![p] = [proc[p] EXCEPT !.pc = "imageStat", !.key = pub]]
        BY <1>7, <2>1 DEF KeyStat
      <3>2. /\ proc'[p].pc = "imageStat" /\ proc'[p].key = pub /\ key' = key /\ pub' = pub
            /\ \A q \in Proc : q # p => proc'[q] = proc[q]
        BY <1>0, <1>7, <2>1, <3>1 DEF ProcRec, KeyStat, keys
      <3>3. PubLeft' /\ PubEmpty' /\ KeyFirst'
        BY <1>1, <1>2, <2>0, <2>1, <3>2 DEF PubLeft, PubEmpty, KeyFirst, Busy
      <3>4. \A q \in Proc : KeyAt(q)'
        BY <1>1, <1>2, <1>4, <2>0, <3>2 DEF KeyAt, Busy
      <3>5. KeyInv' /\ Failed'
        BY <1>2, <1>5, <2>0, <3>2, <3>3, <3>4 DEF KeyInv, Failed
      <3> QED
        BY <1>0, <2>0, <3>2, <3>5, KeyStep
    <2>2. CASE key = None
      <3>1. Goto(p, "keyWrite") /\ key' = "empty" /\ pub' = None
        BY <1>2, <1>7, <2>2 DEF KeyStat
      <3>2. /\ proc'[p].pc = "keyWrite" /\ proc'[p].key = None
            /\ \A q \in Proc : q # p => proc'[q] = proc[q]
        BY <1>3, <2>2, <3>1, Went DEF Pc
      <3>3. PubLeft' /\ PubEmpty'
        BY <3>1, <3>2 DEF PubLeft, PubEmpty
      <3>4. KeyFirst' /\ \A q \in Proc : KeyAt(q)'
        BY <1>1, <1>3, <2>2, <3>1, <3>2 DEF KeyFirst, KeyAt, Busy
      <3>5. KeyInv' /\ Failed'
        BY <1>3, <2>2, <3>1, <3>2, <3>3, <3>4 DEF KeyInv, Failed
      <3> QED
        BY <1>0, <2>0, <3>2, <3>5, KeyStep DEF Busy
    <2>3. CASE key # None /\ pub = None
      <3>1. Goto(p, "err") /\ key' = key /\ pub' = pub
        BY <1>7, <2>3 DEF KeyStat, keys
      <3>2. /\ proc'[p].pc = "err" /\ proc'[p].key = proc[p].key
            /\ \A q \in Proc : q # p => proc'[q] = proc[q]
        BY <3>1, Went DEF Pc
      <3>3. "key" \in lapse
        BY <1>2, <2>0, <2>3
      <3>4. PubLeft' /\ PubEmpty' /\ KeyFirst'
        BY <1>1, <2>0, <2>3, <3>1, <3>2, <3>3 DEF PubLeft, PubEmpty, KeyFirst, Busy
      <3>5. \A q \in Proc : KeyAt(q)'
        BY <1>1, <1>4, <2>0, <3>1, <3>2 DEF KeyAt, Busy
      <3>6. KeyInv' /\ Failed'
        BY <1>2, <1>5, <2>0, <2>3, <3>1, <3>2, <3>3, <3>4, <3>5 DEF KeyInv, Failed
      <3> QED
        BY <1>0, <2>0, <3>2, <3>6, KeyStep
    <2> QED
      BY <2>1, <2>2, <2>3
  <1>8. CASE KeyWrite(p) /\ ~KeyFails(p)
    <2>1. /\ proc[p].pc = "keyWrite" /\ Goto(p, "pubCreate") /\ key' = p /\ pub' = pub
          /\ lapse' = lapse /\ key = "empty" /\ pub \notin Proc
      BY <1>2, <1>8 DEF KeyWrite
    <2>2. /\ proc'[p].pc = "pubCreate" /\ proc'[p].key = None
          /\ \A q \in Proc : q # p => proc'[q] = proc[q]
          /\ \A q \in Proc : proc[q].key = None
      BY <1>3, <2>1, Went DEF Pc, Busy
    <2>3. PubLeft' /\ PubEmpty'
      BY <1>2, <2>1, <2>2 DEF PubLeft, PubEmpty
    <2>4. KeyFirst' /\ \A q \in Proc : KeyAt(q)'
      BY <1>1, <1>3, <2>1, <2>2 DEF KeyFirst, KeyAt, Busy
    <2>5. KeyInv' /\ Failed'
      BY <1>3, <2>1, <2>2, <2>3, <2>4 DEF KeyInv, Failed, Busy
    <2> QED
      BY <1>0, <2>1, <2>2, <2>5, KeyStep DEF Busy
  <1>9. CASE PubCreate(p) /\ ~KeyFails(p)
    <2>1. /\ proc[p].pc = "pubCreate" /\ Goto(p, "pubWrite") /\ key' = key /\ pub' = "empty"
          /\ lapse' = lapse /\ key = p
      BY <1>2, <1>9 DEF PubCreate
    <2>2. /\ proc'[p].pc = "pubWrite" /\ proc'[p].key = None
          /\ \A q \in Proc : q # p => proc'[q] = proc[q]
          /\ \A q \in Proc : proc[q].key = None
      BY <1>3, <2>1, Went DEF Pc, Busy
    <2>3. PubLeft' /\ PubEmpty'
      BY <2>1, <2>2 DEF PubLeft, PubEmpty
    <2>4. KeyFirst' /\ \A q \in Proc : KeyAt(q)'
      BY <1>1, <1>3, <2>1, <2>2 DEF KeyFirst, KeyAt, Busy
    <2>5. KeyInv' /\ Failed'
      BY <1>3, <2>1, <2>2, <2>3, <2>4 DEF KeyInv, Failed, Busy
    <2> QED
      BY <1>0, <2>1, <2>2, <2>5, KeyStep DEF Busy
  <1>10. CASE PubWrite(p) /\ ~KeyFails(p)
    <2>1. proc' = [proc EXCEPT ![p] = [proc[p] EXCEPT !.pc = "imageStat", !.key = p]]
      BY <1>10 DEF PubWrite
    <2>2. proc[p].pc = "pubWrite" /\ key' = key /\ pub' = p /\ key = p /\ lapse' = lapse
      BY <1>2, <1>10 DEF PubWrite
    <2>3. /\ proc'[p].pc = "imageStat" /\ proc'[p].key = p
          /\ \A q \in Proc : q # p => proc'[q] = proc[q]
          /\ \A q \in Proc : proc[q].key = None
      BY <1>0, <1>3, <2>1, <2>2 DEF ProcRec, Busy
    <2>4. PubLeft' /\ PubEmpty' /\ KeyFirst' /\ \A q \in Proc : KeyAt(q)'
      BY <1>1, <2>2, <2>3 DEF PubLeft, PubEmpty, KeyFirst, KeyAt, Busy
    <2>5. KeyInv' /\ Failed'
      BY <1>3, <2>2, <2>3, <2>4 DEF KeyInv, Failed, Busy
    <2> QED
      BY <1>0, <2>2, <2>3, <2>5, KeyStep
  <1> QED
    BY <1>6, <1>7, <1>8, <1>9, <1>10 DEF KeyWrite, PubCreate, PubWrite, Busy

\* The checks that a process makes of what is there.
LEMMA StatTurn ==
    ASSUME Typed, TurnInv, NEW p \in Proc, \A q \in Proc : q # p => proc[q].pc \in RestPc,
           ImageStat(p) \/ FetchStat(p) \/ BootStat(p) \/ Verify(p)
    PROVE  TurnInv'
  <1>0. /\ UNCHANGED <<disks, keys, lapse>> /\ proc \in [Proc -> ProcRec] /\ proc[p] \in ProcRec
        /\ proc[p].pc \in {"imageStat", "fetchStat", "bootStat", "verify"}
    BY DEF ImageStat, FetchStat, BootStat, Verify, At, Typed, TypeOK
  <1>1. ASSUME NEW pc \in Pc \ Busy, Goto(p, pc) \/ Fail(p, pc),
               pc \notin {"err", "write", "verify", "cleanup", "copy", "convertFailed"},
               pc = "rename" => Exists(TempOf(p)) /\ Whole(TempOf(p)),
               pc = "discard" => Fail(p, pc),
               pc = "convert" => Source = "src" /\ Exists("src")
        PROVE  TurnInv'
    <2>1. /\ \A q \in Proc : q # p => proc'[q] = proc[q]
          /\ proc'[p].pc = pc /\ proc'[p].key = proc[p].key
          /\ Fail(p, pc) => proc'[p].hit
          /\ pc = "rename" => proc'[p].dest = proc[p].dest
      BY <1>1, Went
    <2>2. Apart' /\ Served'
      BY <1>0, <2>1, SameDisks
    <2>3. FetchAt(p)' /\ ConvertAt(p)'
      BY <1>0, <1>1, <2>1 DEF FetchAt, ConvertAt, At, disks, Exists, Whole, TempOf
    <2> QED
      BY <1>0, <1>1, <2>1, <2>2, <2>3, AloneFiles DEF Busy
  <1>2. ASSUME NEW d, proc' = [proc EXCEPT ![p].pc = "create", ![p].dest = d]
        PROVE  TurnInv'
    <2>1. proc' = [proc EXCEPT ![p] = [proc[p] EXCEPT !.pc = "create", !.dest = d]]
      BY <1>2
    <2>2. /\ \A q \in Proc : q # p => proc'[q] = proc[q]
          /\ proc'[p].pc = "create" /\ proc'[p].key = proc[p].key
      BY <1>0, <2>1 DEF ProcRec
    <2>3. Apart' /\ Served'
      BY <1>0, <2>2, SameDisks
    <2>4. FetchAt(p)' /\ ConvertAt(p)'
      BY <2>2 DEF FetchAt, ConvertAt, At
    <2> QED
      BY <1>0, <2>2, <2>3, <2>4, AloneFiles DEF Busy
  <1> USE DEF At, Pc, Busy
  <1>3. CASE ImageStat(p)
    BY <1>1, <1>3 DEF ImageStat
  <1>4. CASE FetchStat(p)
    BY <1>1, <1>2, <1>4 DEF FetchStat
  <1>5. CASE BootStat(p)
    BY <1>1, <1>2, <1>5 DEF BootStat
  <1>6. CASE Verify(p)
    <2>1. TempOf(p) = Tmp[Source]
      BY <1>6 DEF Verify, TurnInv, FileInv, FetchAt, Fetches, TempOf
    <2> QED
      BY <1>1, <1>6, <2>1 DEF Verify
  <1> QED
    BY <1>3, <1>4, <1>5, <1>6

\* What is served stays so when each file there was or is whole, and the raw image
\* is not left half written.
LEMMA ServedKept ==
    ASSUME TurnInv, UNCHANGED lapse,
           \A x \in Dest : \/ ~Exists(x)'
                           \/ Exists(x) /\ (Whole(x) => Whole(x)')
                           \/ Checked => Whole(x)',
           \/ \E q \in Proc : proc'[q].pc \in {"copy", "convertFailed"}
           \/ \A q \in Proc : proc[q].pc \notin {"copy", "convertFailed"}
           \/ Checked /\ Exists("raw")' => Whole("raw")'
    PROVE  Served'
  <1> USE DEF Dest
  <1>1. Checked => Stored'
    BY DEF TurnInv, Served, Stored
  <1>2. Checked => RawStored'
    BY DEF TurnInv, Served, RawStored
  <1> QED
    BY <1>1, <1>2 DEF Served

\* A file that is opened for writing is another than those that are served.
LEMMA CreateTurn ==
    ASSUME Typed, TurnInv, NEW p \in Proc, \A q \in Proc : q # p => proc[q].pc \in RestPc,
           CreateTmp(p)
    PROVE  TurnInv'
  <1>1. /\ TempOf(p) \in Path /\ Create(TempOf(p)) /\ proc[p].dest \in {Source, "kernel", "initrd"}
        /\ \A q \in Proc : q # p => proc'[q] = proc[q]
    BY OpenEffect
  <1>2. PICK bad \in BOOLEAN :
            /\ bad => Fetches(p) /\ Allowed("badBody")
            /\ proc'[p] = [proc[p] EXCEPT !.pc = "write", !.pos = 0, !.bad = bad,
                                          !.fd = file'[TempOf(p)]]
    BY OpenEffect
  <1>3. proc[p] \in ProcRec /\ TypeOK /\ UNCHANGED <<keys, lapse>> /\ proc[p].pc = "create"
    BY DEF Typed, TypeOK, CreateTmp, At
  <1>4. /\ proc'[p].pc = "write" /\ proc'[p].pos = 0 /\ proc'[p].bad = bad
        /\ proc'[p].fd = file'[TempOf(p)] /\ proc'[p].dest = proc[p].dest
        /\ proc'[p].key = proc[p].key
    BY <1>2, <1>3 DEF ProcRec
  <1> DEFINE t == TempOf(p)
  <1>5. /\ file'[t] \in Inode /\ file'[t] # None
        /\ \A x \in Path : x # t => file'[x] = file[x]
        /\ \A i \in Inode : i # file'[t] => data'[i] = data[i]
        /\ Apart' /\ \A x \in Path : x # t /\ Exists(x) => file[x] # file'[t]
    BY <1>1, <1>3, CreateEffect DEF TurnInv, FileInv
  <1>6. t \notin Dest
    BY <1>1, Paths, TempPath DEF TempOf
  <1>7. ASSUME NEW x \in Dest PROVE Exists(x)' => Exists(x) /\ (Whole(x) => Whole(x)')
    <2>1. x \in Path /\ x # t
      BY <1>6, Paths
    <2> QED
      BY <1>3, <1>5, <2>1 DEF Exists, Whole, TypeOK
  <1>8. Served'
    <2>1. \A q \in Proc : proc[q].pc \notin {"copy", "convertFailed"}
      BY <1>3 DEF RestPc
    <2> QED
      BY <1>3, <1>7, <2>1, ServedKept
  <1>9. FetchAt(p)' /\ ConvertAt(p)'
    BY <1>2, <1>4, <1>5 DEF FetchAt, ConvertAt, At, Filled, TempOf, Exists, Fetches
  <1> QED
    BY <1>1, <1>3, <1>4, <1>5, <1>8, <1>9, AloneFiles DEF Busy

\* A block goes to the temporary file, and the last of them makes it whole.
LEMMA WriteTurn ==
    ASSUME Typed, TurnInv, NEW p \in Proc, \A q \in Proc : q # p => proc[q].pc \in RestPc, Write(p)
    PROVE  TurnInv'
  <1>1. /\ proc[p] \in ProcRec /\ TypeOK /\ UNCHANGED <<keys, lapse>> /\ proc[p].pc = "write"
        /\ proc[p].dest \in {Source, "kernel", "initrd"} /\ proc[p].fd \in Inode
    BY DEF Typed, TypeOK, Write, At, Placed, TmpPc
  <1>2. /\ Exists(TempOf(p)) /\ proc[p].fd = file[TempOf(p)]
        /\ proc[p].bad => Fetches(p) /\ Allowed("badBody")
        /\ ~proc[p].bad => Filled(proc[p].fd, p)
    BY <1>1 DEF TurnInv, FileInv, FetchAt, At
  <1> DEFINE t == TempOf(p)
             i == proc[p].fd
  <1>3. t \in Path /\ t \notin Dest
    BY <1>1, TempPath, Paths DEF TempOf
  <1>4. CASE ~Copied(p) /\ WriteBlock(p, IF proc[p].bad THEN "bad" ELSE "good") /\ UNCHANGED file
    <2> DEFINE b == IF proc[p].bad THEN "bad" ELSE "good"
    <2>1. /\ \A q \in Proc : q # p => proc'[q] = proc[q]
          /\ proc'[p] = [proc[p] EXCEPT !.pos = proc[p].pos + 1]
          /\ \A j \in Inode : j # i => data'[j] = data[j]
          /\ Filled(i, p) /\ b = "good" => \A n \in 1 .. proc[p].pos + 1 : data'[i][n] = "good"
      BY <1>1, <1>4, BlockEffect
    <2>2. /\ proc'[p].pc = "write" /\ proc'[p].pos = proc[p].pos + 1 /\ proc'[p].bad = proc[p].bad
          /\ proc'[p].fd = i /\ proc'[p].dest = proc[p].dest /\ proc'[p].key = proc[p].key
      BY <1>1, <2>1 DEF ProcRec
    <2>3. ASSUME NEW x \in Dest, Exists(x) PROVE Whole(x) => Whole(x)'
      <3>1. x \in Path /\ x # t /\ file[x] \in Inode
        BY <1>1, <1>3, <2>3, Paths DEF TypeOK, Exists
      <3>2. file[x] # i
        BY <1>2, <1>3, <2>3, <3>1 DEF TurnInv, FileInv, Apart
      <3> QED
        BY <1>4, <2>1, <3>1, <3>2 DEF Whole
    <2>4. Served'
      <3>1. \A x \in Dest : Exists(x)' => Exists(x)
        BY <1>4 DEF Exists
      <3>2. \A q \in Proc : proc[q].pc \notin {"copy", "convertFailed"}
        BY <1>1 DEF RestPc
      <3> QED
        BY <1>1, <2>3, <3>1, <3>2, ServedKept
    <2>5. Apart'
      BY <1>4 DEF TurnInv, FileInv, Apart, Exists
    <2>6. FetchAt(p)' /\ ConvertAt(p)'
      BY <1>2, <1>4, <2>1, <2>2 DEF FetchAt, ConvertAt, At, Filled, TempOf, Exists, Fetches
    <2> QED
      BY <1>1, <2>1, <2>2, <2>4, <2>5, <2>6, AloneFiles DEF Busy
  <1>5. ASSUME NEW pc \in {"verify", "rename", "discard"}, Goto(p, pc) \/ Fail(p, pc),
  UNCHANGED disks,
               pc = "discard" => Fail(p, pc),
               pc = "verify" => Fetches(p),
               pc = "rename" => Copied(p) /\ ~(Fetches(p) /\ Pinned)
        PROVE  TurnInv'
    <2>1. /\ \A q \in Proc : q # p => proc'[q] = proc[q]
          /\ proc'[p].pc = pc /\ proc'[p].key = proc[p].key /\ proc'[p].dest = proc[p].dest
          /\ Fail(p, pc) => proc'[p].hit
      BY <1>5, Went DEF Pc
    <2>2. Apart' /\ Served'
      BY <1>1, <1>5, <2>1, SameDisks
    <2>3. pc = "rename" /\ Checked => Whole(t)
      <3>1. SUFFICES ASSUME pc = "rename", Checked PROVE Whole(t)
        OBVIOUS
      <3>2. ~proc[p].bad
        BY <1>2, <1>5, <3>1 DEF Checked, Allowed
      <3>3. \A n \in 1 .. Blocks : data[i][n] = "good"
        BY <1>2, <1>5, <3>1, <3>2 DEF Filled, Copied
      <3> QED
        BY <1>1, <1>2, <3>3, WholeBy DEF Whole
    <2>4. FetchAt(p)' /\ ConvertAt(p)'
      BY <1>2, <1>5, <2>1, <2>3 DEF FetchAt, ConvertAt, At, TempOf, Exists, Fetches, disks, Whole
    <2> QED
      BY <1>1, <1>5, <2>1, <2>2, <2>4, AloneFiles DEF Busy
  <1> QED
    BY <1>4, <1>5 DEF Write

\* The rename puts a whole file in its place.
LEMMA RenameTurn ==
    ASSUME Typed, TurnInv, NEW p \in Proc, \A q \in Proc : q # p => proc[q].pc \in RestPc,
           RenameTmp(p)
    PROVE  TurnInv'
  <1>0. PICK d : d = proc[p].dest
    OBVIOUS
  <1>1. /\ proc[p] \in ProcRec /\ TypeOK /\ UNCHANGED <<data, keys, lapse>> /\ proc[p].pc = "rename"
        /\ d \in {Source, "kernel", "initrd"}
    BY <1>0 DEF Typed, TypeOK, RenameTmp, At, Placed, TmpPc
  <1> DEFINE t == Tmp[d]
  <1>2. Exists(t) /\ (Checked => Whole(t))
    BY <1>0, <1>1 DEF TurnInv, FileInv, FetchAt, At, TempOf
  <1>3. t \in Path /\ t \notin Dest /\ d \in Path /\ d \in Dest
    BY <1>1, TempPath, Paths
  <1>4. Rename(t, d)
    BY <1>0, <1>2 DEF RenameTmp
  <1>5. /\ file'[d] = file[t] /\ file'[t] = None
        /\ \A x \in Path : x # d /\ x # t => file'[x] = file[x]
    BY <1>1, <1>3, <1>4 DEF Rename, TypeOK
  <1>6. PICK pc \in {"convert", "ok", "cleanup"} :
            /\ Goto(p, pc) /\ (pc = "convert" => d = "src") /\ (pc = "cleanup" => ~Fetches(p))
    BY <1>0, <1>2 DEF RenameTmp
  <1>7. /\ \A q \in Proc : q # p => proc'[q] = proc[q]
        /\ proc'[p].pc = pc /\ proc'[p].key = proc[p].key
        /\ pc = "cleanup" => proc'[p].dest = d
    BY <1>0, <1>6, Went DEF Pc
  <1>8. Apart'
    BY <1>2, <1>3, <1>5 DEF TurnInv, FileInv, Apart, Exists
  <1>9. Checked => Whole(d)'
    BY <1>1, <1>2, <1>5 DEF Whole
  <1>10. ASSUME NEW x \in Dest, x # d PROVE Exists(x)' => Exists(x) /\ (Whole(x) => Whole(x)')
    <2>1. x \in Path /\ x # t
      BY <1>3, Paths
    <2> QED
      BY <1>1, <1>5, <1>10, <2>1 DEF Whole, Exists
  <1>11. Served'
    <2>1. \A q \in Proc : proc[q].pc \notin {"copy", "convertFailed"}
      BY <1>1 DEF RestPc
    <2> QED
      BY <1>1, <1>9, <1>10, <2>1, ServedKept
  <1>12. FetchAt(p)' /\ ConvertAt(p)'
    <2>1. d = "src" => Source = "src"
      BY <1>1
    <2>2. pc = "convert" => Exists("src")'
      BY <1>2, <1>5, <1>6 DEF Exists
    <2> QED
      BY <1>0, <1>6, <1>7, <2>1, <2>2 DEF FetchAt, ConvertAt, At, Fetches
  <1> QED
    BY <1>1, <1>6, <1>7, <1>8, <1>11, <1>12, AloneFiles DEF Busy

\* Removals leave less to serve.
LEMMA RemoveTurn ==
    ASSUME Typed, TurnInv, NEW p \in Proc, \A q \in Proc : q # p => proc[q].pc \in RestPc,
           Discard(p) \/ Cleanup(p) \/ ConvertFailed(p) \/ RemoveSource(p)
    PROVE  TurnInv'
  <1>1. /\ proc[p] \in ProcRec /\ TypeOK /\ UNCHANGED <<data, keys, lapse>>
        /\ proc[p].pc \in {"discard", "cleanup", "convertFailed", "removeSource"}
    BY DEF Typed, TypeOK, Discard, Cleanup, ConvertFailed, RemoveSource, At
  <1>2. \A x \in Path : file'[x] \in {file[x], None}
    BY <1>1 DEF Discard, Cleanup, ConvertFailed, RemoveSource, Remove, TypeOK
  <1>3. Apart'
    BY <1>2 DEF TurnInv, FileInv, Apart, Exists
  <1>4. \A x \in Dest : Exists(x)' => Exists(x) /\ (Whole(x) => Whole(x)')
    BY <1>1, <1>2, Paths DEF Exists, Whole
  <1>5. Served'
    <2>1. CASE proc[p].pc = "convertFailed"
      <3>1. ~Exists("raw")'
        BY <1>1, <2>1, Paths DEF Discard, Cleanup, ConvertFailed, RemoveSource, At, Exists,
           TypeOK, Dest
      <3> QED
        BY <1>1, <1>4, <3>1, ServedKept
    <2>2. CASE proc[p].pc # "convertFailed"
      <3>1. \A q \in Proc : proc[q].pc \notin {"copy", "convertFailed"}
        BY <1>1, <2>2 DEF RestPc
      <3> QED
        BY <1>1, <1>4, <3>1, ServedKept
    <2> QED
      BY <2>1, <2>2
  <1>6. ASSUME NEW pc \in {"ok", "err"}, Goto(p, pc), pc = "err" => proc[p].hit
        PROVE  TurnInv'
    <2>1. /\ \A q \in Proc : q # p => proc'[q] = proc[q]
          /\ proc'[p].pc = pc /\ proc'[p].key = proc[p].key
          /\ pc = "err" => proc'[p].hit
      BY <1>6, Went DEF Pc
    <2>2. FetchAt(p)' /\ ConvertAt(p)'
      BY <2>1 DEF FetchAt, ConvertAt, At
    <2> QED
      BY <1>1, <1>3, <1>5, <2>1, <2>2, AloneFiles DEF Busy
  <1>7. CASE Discard(p) \/ ConvertFailed(p) \/ RemoveSource(p)
    <2>1. Discard(p) \/ ConvertFailed(p) => proc[p].hit
      BY DEF TurnInv, FileInv, FetchAt, ConvertAt, Discard, ConvertFailed
    <2> QED
      BY <1>6, <1>7, <2>1 DEF Discard, ConvertFailed, RemoveSource
  <1>8. CASE Cleanup(p)
    <2>1. CASE proc[p].dest = "kernel"
      <3>1. proc' = [proc EXCEPT ![p] = [proc[p] EXCEPT !.pc = "create", !.dest = "initrd"]]
        BY <1>8, <2>1 DEF Cleanup
      <3>2. /\ \A q \in Proc : q # p => proc'[q] = proc[q]
            /\ proc'[p].pc = "create" /\ proc'[p].key = proc[p].key
        BY <1>1, <3>1 DEF ProcRec, TypeOK
      <3>3. FetchAt(p)' /\ ConvertAt(p)'
        BY <3>2 DEF FetchAt, ConvertAt, At
      <3> QED
        BY <1>1, <1>3, <1>5, <3>2, <3>3, AloneFiles DEF Busy
    <2>2. CASE proc[p].dest # "kernel"
      BY <1>6, <1>8, <2>2 DEF Cleanup
    <2> QED
      BY <2>1, <2>2
  <1> QED
    BY <1>7, <1>8

\* The raw image is made in place, and is not served before it is whole.
LEMMA ConvertTurn ==
    ASSUME Typed, TurnInv, NEW p \in Proc, \A q \in Proc : q # p => proc[q].pc \in RestPc,
           Convert(p)
    PROVE  TurnInv'
  <1>1. /\ proc[p] \in ProcRec /\ TypeOK /\ UNCHANGED <<keys, lapse>> /\ proc[p].pc = "convert"
        /\ {"src", "raw"} \subseteq Path /\ {"src", "raw"} \subseteq Dest
    BY Paths DEF Typed, TypeOK, Convert, At, Dest
  <1>2. Exists("src") /\ Source = "src"
    BY <1>1 DEF TurnInv, FileInv, ConvertAt
  <1>3. /\ Create("raw") /\ \A q \in Proc : q # p => proc'[q] = proc[q]
        /\ proc'[p] = [proc[p] EXCEPT !.pc = "copy", !.dest = "raw", !.pos = 0,
                                      !.fd = file'["raw"], !.from = file["src"]]
    BY <1>2, ConvertEffect
  <1>4. /\ proc'[p].pc = "copy" /\ proc'[p].pos = 0 /\ proc'[p].fd = file'["raw"]
        /\ proc'[p].from = file["src"] /\ proc'[p].key = proc[p].key
    BY <1>1, <1>3 DEF ProcRec
  <1>5. /\ file'["raw"] \in Inode /\ file'["raw"] # None
        /\ \A x \in Path : x # "raw" => file'[x] = file[x]
        /\ \A i \in Inode : i # file'["raw"] => data'[i] = data[i]
        /\ Apart' /\ \A x \in Path : x # "raw" /\ Exists(x) => file[x] # file'["raw"]
    BY <1>1, <1>3, CreateEffect DEF TurnInv, FileInv
  <1>6. ASSUME NEW x \in Dest, x # "raw"
        PROVE  Exists(x)' => Exists(x) /\ (Whole(x) => Whole(x)')
    BY <1>1, <1>5, <1>6, Paths DEF Exists, Whole, TypeOK
  <1>7. Checked => Stored'
    BY <1>6 DEF TurnInv, Served, Stored, Dest
  <1>8. Served'
    BY <1>4, <1>7 DEF Served, RawStored
  <1>9. FetchAt(p)' /\ ConvertAt(p)'
    BY <1>1, <1>2, <1>4, <1>5 DEF FetchAt, ConvertAt, At, Filled, Exists
  <1> QED
    BY <1>1, <1>3, <1>4, <1>5, <1>8, <1>9, AloneFiles DEF Busy

\* The raw image gets the blocks of the source, which is whole.
LEMMA CopyTurn ==
    ASSUME Typed, TurnInv, NEW p \in Proc, \A q \in Proc : q # p => proc[q].pc \in RestPc, Copy(p)
    PROVE  TurnInv'
  <1>1. /\ proc[p] \in ProcRec /\ TypeOK /\ UNCHANGED <<keys, lapse>> /\ proc[p].pc = "copy"
        /\ proc[p].fd \in Inode /\ proc[p].from \in Inode
        /\ {"src", "raw"} \subseteq Path /\ {"src", "raw"} \subseteq Dest
    BY Paths DEF Typed, TypeOK, Copy, At, Placed, Dest
  <1>2. /\ Source = "src" /\ Exists("src") /\ Exists("raw")
        /\ proc[p].fd = file["raw"] /\ proc[p].from = file["src"]
        /\ Checked => Filled(proc[p].fd, p)
    BY <1>1 DEF TurnInv, FileInv, ConvertAt, At
  <1> DEFINE i == proc[p].fd
             n == proc[p].pos + 1
  <1>3. CASE ~Copied(p) /\ WriteBlock(p, data[proc[p].from][n]) /\ UNCHANGED file
    <2>1. n \in 1 .. Blocks
      BY <1>1, <1>3, ArtifactsAssumption DEF ProcRec, Copied
    <2>2. data[proc[p].from][n] \in {"hole", "good", "bad"}
      BY <1>1, <2>1 DEF TypeOK
    <2>3. Checked => data[proc[p].from][n] = "good"
      BY <1>2, <2>1 DEF TurnInv, Served, Stored, Whole
    <2>4. /\ \A q \in Proc : q # p => proc'[q] = proc[q]
          /\ proc'[p] = [proc[p] EXCEPT !.pos = n]
          /\ \A j \in Inode : j # i => data'[j] = data[j]
          /\ Checked => \A m \in 1 .. n : data'[i][m] = "good"
      BY <1>1, <1>2, <1>3, <2>2, <2>3, BlockEffect
    <2>5. /\ proc'[p].pc = "copy" /\ proc'[p].pos = n /\ proc'[p].fd = i
          /\ proc'[p].from = proc[p].from /\ proc'[p].key = proc[p].key
      BY <1>1, <2>4 DEF ProcRec
    <2>6. ASSUME NEW x \in Dest, Exists(x), x # "raw" PROVE Whole(x) => Whole(x)'
      <3>1. x \in Path /\ file[x] \in Inode /\ file[x] # i
        BY <1>1, <1>2, <2>6, Paths DEF TypeOK, Exists, TurnInv, FileInv, Apart
      <3> QED
        BY <1>3, <2>4, <3>1 DEF Whole
    <2>7. Served'
      <3>1. Checked => Stored'
        BY <1>3, <2>6 DEF TurnInv, Served, Stored, Dest, Exists
      <3> QED
        BY <2>5, <3>1 DEF Served, RawStored
    <2>8. Apart'
      BY <1>3 DEF TurnInv, FileInv, Apart, Exists
    <2>9. FetchAt(p)' /\ ConvertAt(p)'
      BY <1>2, <1>3, <2>4, <2>5 DEF FetchAt, ConvertAt, At, Filled, Exists
    <2> QED
      BY <1>1, <2>4, <2>5, <2>7, <2>8, <2>9, AloneFiles DEF Busy
  <1>4. CASE UNCHANGED disks /\ Goto(p, "removeSource") /\ Copied(p)
    <2>1. /\ \A q \in Proc : q # p => proc'[q] = proc[q]
          /\ proc'[p].pc = "removeSource" /\ proc'[p].key = proc[p].key
      BY <1>4, Went DEF Pc
    <2>2. Checked => Whole("raw")
      <3>1. Checked => \A m \in 1 .. Blocks : data[i][m] = "good"
        BY <1>2, <1>4 DEF Filled, Copied
      <3> QED
        BY <1>1, <1>2, <3>1, WholeBy DEF Whole
    <2>3. \A x \in Dest : (Exists(x)' => Exists(x)) /\ (Whole(x) => Whole(x)')
      BY <1>4 DEF disks, Exists, Whole
    <2>4. Served'
      BY <1>1, <2>2, <2>3, ServedKept
    <2>5. Apart'
      BY <1>4 DEF disks, TurnInv, FileInv, Apart, Exists
    <2>6. FetchAt(p)' /\ ConvertAt(p)'
      BY <2>1 DEF FetchAt, ConvertAt, At
    <2> QED
      BY <1>1, <2>1, <2>4, <2>5, <2>6, AloneFiles DEF Busy
  <1>5. CASE UNCHANGED disks /\ Fail(p, "convertFailed")
    <2>1. /\ \A q \in Proc : q # p => proc'[q] = proc[q]
          /\ proc'[p].pc = "convertFailed" /\ proc'[p].key = proc[p].key /\ proc'[p].hit
      BY <1>5, Went DEF Pc
    <2>2. Apart' /\ Served'
      BY <1>1, <1>5, <2>1, SameDisks
    <2>3. FetchAt(p)' /\ ConvertAt(p)'
      BY <2>1 DEF FetchAt, ConvertAt, At
    <2> QED
      BY <1>1, <2>1, <2>2, <2>3, AloneFiles DEF Busy
  <1> QED
    BY <1>3, <1>4, <1>5 DEF Copy

\* A process begins when no other is at work.
LEMMA BeginTurn ==
    ASSUME Typed, TurnInv, Turns', NEW p \in Proc, Begin(p)
    PROVE  TurnInv'
  <1>1. /\ proc[p].pc = "idle" /\ \A q \in Proc : proc[q].pc \in RestPc
        /\ UNCHANGED <<disks, keys, lapse>>
    BY DEF Begin, At, Ended, RestPc, Turns
  <1>2. PICK pc \in {"keyStat", "bootStat"} : Goto(p, pc)
    BY DEF Begin
  <1>3. /\ \A q \in Proc : q # p => proc'[q] = proc[q]
        /\ proc'[p].pc = pc /\ proc'[p].key = proc[p].key
    BY <1>2, Went DEF Pc
  <1>4. Apart' /\ Served'
    BY <1>1, <1>3, SameDisks
  <1>5. FetchAt(p)' /\ ConvertAt(p)'
    BY <1>2, <1>3 DEF FetchAt, ConvertAt, At
  <1> QED
    BY <1>1, <1>2, <1>3, <1>4, <1>5, AloneFiles DEF Busy

\* What a process that dies leaves half written is a lapse.
LEMMA CrashTurn ==
    ASSUME Typed, TurnInv, NEW p \in Proc, \A q \in Proc : q # p => proc[q].pc \in RestPc, Crash(p)
    PROVE  TurnInv'
  <1>1. /\ UNCHANGED <<disks, keys>> /\ lapse \subseteq lapse' /\ Goto(p, "crashed")
        /\ proc[p].pc \in Busy => "key" \in lapse'
        /\ proc[p].pc \in {"copy", "convertFailed"} => "raw" \in lapse'
    BY DEF Crash, HalfWritten, Busy
  <1>2. /\ \A q \in Proc : q # p => proc'[q] = proc[q]
        /\ proc'[p].pc = "crashed" /\ proc'[p].key = proc[p].key
    BY <1>1, Went DEF Pc
  <1>3. key' = key /\ pub' = pub /\ \A q \in Proc : proc'[q].pc \notin Busy
    BY <1>1, <1>2 DEF keys, Busy, RestPc
  <1>4. PubLeft' /\ PubEmpty'
    <2>1. /\ key # None /\ pub = None /\ "key" \notin lapse => proc[p].pc \in Busy
          /\ pub = "empty" /\ "key" \notin lapse => proc[p].pc \in Busy
      BY DEF TurnInv, KeyInv, PubLeft, PubEmpty, RestPc, Busy
    <2> QED
      BY <1>1, <1>3, <2>1 DEF PubLeft, PubEmpty
  <1>5. KeyFirst'
    BY <1>2, <1>3 DEF TurnInv, KeyInv, KeyFirst
  <1>6. ASSUME NEW q \in Proc PROVE KeyAt(q)'
    <2>1. KeyAt(q) /\ proc'[q].key = proc[q].key
      BY <1>2 DEF TurnInv, KeyInv
    <2> QED
      BY <1>1, <1>3, <2>1 DEF KeyAt, At, Busy
  <1>7. KeyInv' /\ Failed'
    BY <1>1, <1>2, <1>3, <1>4, <1>5, <1>6 DEF TurnInv, KeyInv, Failed, At
  <1> QED
    BY <1>1, <1>2, <1>7, KeyStep

\* TurnInv is inductive, as long as processes take turns ...
LEMMA CacheStep == Typed /\ CacheInv /\ [Next]_vars => CacheInv'
  <1> SUFFICES ASSUME Typed, Turns => TurnInv, [Next]_vars, Turns' PROVE TurnInv'
    BY DEF CacheInv
  <1>1. Turns
    BY DEF Turns, Next, Begin, Work, Crash, KeyStat, KeyWrite, PubCreate, PubWrite, ImageStat,
       FetchStat,
       BootStat, CreateTmp, Write, Verify, RenameTmp, Discard, Cleanup, Convert, Copy,
       ConvertFailed,
       RemoveSource, KeyFails, Quiet, vars
  <1>2. TurnInv
    BY <1>1
  <1>3. ASSUME NEW p \in Proc, Work(p) \/ Crash(p) PROVE TurnInv'
    <2>1. Active(p)
      BY <1>3 DEF Work, Crash, KeyStat, KeyWrite, PubCreate, PubWrite, ImageStat, FetchStat,
         BootStat, CreateTmp, Write, Verify, RenameTmp, Discard, Cleanup, Convert, Copy,
         ConvertFailed,
         RemoveSource, At, Ended, Active, RestPc
    <2>2. \A q \in Proc : q # p => proc[q].pc \in RestPc
      BY <1>2, <2>1 DEF TurnInv, Solo, Active
    <2> QED
      BY <1>1, <1>2, <1>3, <2>2, KeyTurn, StatTurn, CreateTurn, WriteTurn, RenameTurn, RemoveTurn,
         ConvertTurn, CopyTurn, CrashTurn
         DEF Work
  <1>4. CASE UNCHANGED vars
    <2>1. UNCHANGED <<file, data, key, pub, proc, lapse>>
      BY <1>4 DEF vars
    <2>2. Solo' /\ Failed'
      BY <1>2, <2>1 DEF TurnInv, Solo, Active, Failed, At
    <2>3. KeyInv'
      BY <1>2, <2>1 DEF TurnInv, KeyInv, PubLeft, PubEmpty, KeyFirst, KeyAt, At
    <2>4. FileInv'
      BY <1>2, <2>1 DEF TurnInv, FileInv, Apart, FetchAt, ConvertAt, Filled, TempOf, Fetches,
         Exists, Whole, At
    <2>5. Served'
      BY <1>2, <2>1 DEF TurnInv, Served, Stored, RawStored, Exists, Whole
    <2> QED
      BY <2>2, <2>3, <2>4, <2>5 DEF TurnInv
  <1> QED
    BY <1>2, <1>3, <1>4, BeginTurn DEF Next, Quiet

\* ... and so always holds.
LEMMA InvCorrect == Spec => []Inv
  <1>1. Init => CacheInv
    BY ArtifactsAssumption, Paths
       DEF Init, CacheInv, TurnInv, Solo, Active, KeyInv, PubLeft, PubEmpty, KeyFirst, KeyAt, Failed, FileInv, Apart,
       FetchAt,
           ConvertAt, Served, Stored, RawStored, Exists, At, Idle, RestPc, Dest
  <1>2. Inv /\ [Next]_vars => Inv'
    BY TypedStep, CacheStep DEF Inv
  <1> QED
    BY <1>1, <1>2, InitTyped, PTL DEF Inv, Spec

\* What fetch.Ensure, atomicWrite and convertQcow2ToRaw leave under a name the cache
\* serves is whole, wherever a process failed or died before: a name is given by
\* rename, to a file that was verified or written to its end, and a raw image that
\* a failure left is removed.
THEOREM CachedCorrect == Checked /\ Spec => []CachedWhole
  <1>1. CASE Checked
    <2>1. Inv => CachedWhole
      <3> SUFFICES ASSUME Inv, NEW d \in {Source, "kernel", "initrd", "raw"}, Exists(d),
                          lapse \cap {d, "overlap"} = {}, d = "raw" => ~BeingConverted
                   PROVE  Whole(d)
        BY DEF CachedWhole
      <3>1. TurnInv
        BY DEF Inv, CacheInv, Turns
      <3>2. CASE d # "raw"
        BY <1>1, <3>1, <3>2, ArtifactsAssumption DEF TurnInv, Served, Stored
      <3>3. CASE d = "raw"
        <4>1. \A p \in Proc : proc[p].pc \notin {"copy", "convertFailed"}
          BY <3>1, <3>3 DEF TurnInv, FileInv, ConvertAt, BeingConverted, At
        <4> QED
          BY <1>1, <3>1, <3>3, <4>1 DEF TurnInv, Served, RawStored
      <3> QED
        BY <3>2, <3>3
    <2> QED
      BY <2>1, InvCorrect, PTL
  <1> QED
    BY <1>1

\* The public key that EnsureKey returned, which goes into a seed, belongs to the
\* private key on disk from then on, or none was returned because the public file was
\* left empty.
THEOREM KeysCorrect == Spec => []KeysMatch
  <1>1. Inv => KeysMatch
    <2> SUFFICES ASSUME Inv, NEW p \in Proc, proc[p].key # None, "overlap" \notin lapse
                 PROVE  \/ proc[p].key \in Proc /\ key = proc[p].key
                        \/ proc[p].key = "empty" /\ pub = "empty" /\ "key" \in lapse
      BY DEF KeysMatch
    <2>1. KeyAt(p) /\ proc[p].key \in KeyFile
      BY DEF Inv, CacheInv, TurnInv, Turns, KeyInv, Typed, TypeOK, ProcRec
    <2> QED
      BY <2>1 DEF KeyAt, KeyFile
  <1> QED
    BY <1>1, InvCorrect, PTL

\* A leftover of a predecessor (a temporary file, a source without its raw image)
\* never makes resolveStartDeps or bootArgs fail; a private key that was left without
\* its public half does.
THEOREM RecoversCorrect == Spec => []Recovers
  <1>1. Inv => Recovers
    BY DEF Inv, CacheInv, TurnInv, Turns, Failed, Recovers
  <1> QED
    BY <1>1, InvCorrect, PTL

=============================================================================
