----------------------------- MODULE Artifacts -----------------------------
(***************************************************************************)
(* The files that outlive a process: the SSH key pair, the downloaded and   *)
(* converted image, and the kernel and initrd extracted from a disk         *)
(* (sshkey.go, fetch.go, image.go, binaries.go, bootextract.go).           *)
(*                                                                         *)
(* A path leads to an inode and an inode holds blocks, so that a writer    *)
(* whose file is renamed, removed or truncated by another goes on writing  *)
(* where it was.  A process is used once and does what resolveStartDeps    *)
(* does (key, then image), or bootArgs (kernel, then initrd).              *)
(***************************************************************************)
EXTENDS Naturals, FiniteSets

CONSTANTS
    Proc,      \* processes
    Source,    \* "src" for a qcow2 source that is converted, "raw" for a raw one
    Pinned,    \* the catalog pins the checksum of the source
    Blocks,    \* blocks of a file
    Faults,    \* what may go wrong, see below
    None

\* Faults a run may allow:
\*   netFails    a download breaks off
\*   badBody     a download delivers another body to its end
\*   copyFails   a conversion or an extraction fails part way
\*   keyFails    a file of the key pair cannot be created, or not be written
\*   crash       a process dies
\*   overlap     two processes are at work at a time
Fault == {"netFails", "badBody", "copyFails", "keyFails", "crash", "overlap"}

ASSUME ArtifactsAssumption ==
    /\ Source \in {"src", "raw"}
    /\ Pinned \in BOOLEAN
    /\ Blocks \in Nat \ {0}
    /\ Faults \subseteq Fault
    /\ IsFiniteSet(Proc)
    /\ "empty" \notin Proc
    /\ None \notin Proc \cup Nat \cup {"empty"}

VARIABLES
    file,   \* path -> inode or None
    data,   \* inode -> its blocks
    key,    \* the private key file: whose key, "empty" (or cut short) or None
    pub,    \* the public key file
    proc,   \* the processes
    lapse   \* history: what was left half written, and whether two processes met

vars  == <<file, data, key, pub, proc, lapse>>
disks == <<file, data>>
keys  == <<key, pub>>

\* The temporary names of fetch.Ensure and atomicWrite.
Dest  == {"src", "raw", "kernel", "initrd"}
Tmp   == [src |-> "src.tmp", raw |-> "raw.tmp", kernel |-> "kernel.tmp", initrd |-> "initrd.tmp"]
Path  == Dest \cup {Tmp[d] : d \in Dest}
Inode == 1 .. 2 * Cardinality(Proc) + Cardinality(Path)
KeyFile == Proc \cup {"empty", None}

Pc == {"idle", "keyStat", "keyWrite", "pubCreate", "pubWrite", "imageStat", "fetchStat",
       "create", "write", "verify", "rename", "cleanup", "discard", "convert", "copy",
       "convertFailed", "removeSource", "bootStat", "ok", "err", "crashed"}
ProcRec == [pc : Pc, dest : Dest \cup {None}, fd : Inode \cup {None},
            from : Inode \cup {None}, pos : 0 .. Blocks, bad : BOOLEAN, hit : BOOLEAN,
            key : KeyFile]

TypeOK ==
    /\ file \in [Path -> Inode \cup {None}]
    /\ data \in [Inode -> [1 .. Blocks -> {"hole", "good", "bad"}]]
    /\ key \in KeyFile /\ pub \in KeyFile
    /\ proc \in [Proc -> ProcRec]
    /\ lapse \subseteq {"key", "raw", "overlap"}

-----------------------------------------------------------------------------

Allowed(f) == f \in Faults
Hole == [b \in 1 .. Blocks |-> "hole"]
Exists(path) == file[path] # None
Whole(path) == data[file[path]] = [b \in 1 .. Blocks |-> "good"]

Idle == [pc |-> "idle", dest |-> None, fd |-> None, from |-> None, pos |-> 0,
         bad |-> FALSE, hit |-> FALSE, key |-> None]

At(p, pc) == proc[p].pc = pc
Ended(p) == proc[p].pc \in {"ok", "err", "crashed"}
\* A process that ends closes its files and keeps what it returns.
Goto(p, pc) == proc' = [proc EXCEPT ![p] =
                          IF pc \in {"ok", "err", "crashed"}
                          THEN [Idle EXCEPT !.pc = pc, !.key = proc[p].key, !.hit = proc[p].hit]
                          ELSE [@ EXCEPT !.pc = pc]]
\* ... because of a fault of its own.
Fail(p, pc) == proc' = [proc EXCEPT ![p].pc = pc, ![p].hit = TRUE]

Init ==
    /\ file = [path \in Path |-> None]
    /\ data = [i \in Inode |-> Hole]
    /\ key = None /\ pub = None
    /\ proc = [p \in Proc |-> Idle]
    /\ lapse = {}

\* A kernel is cached beside the disk of its member, which one process boots.
Booting == {p \in Proc : proc[p].pc = "bootStat" \/ proc[p].dest \in {"kernel", "initrd"}}

Begin(p) ==
    /\ At(p, "idle")
    /\ \E pc \in {"keyStat", "bootStat"} : (pc = "bootStat" => Booting = {}) /\ Goto(p, pc)
    /\ \/ (\A q \in Proc : At(q, "idle") \/ Ended(q)) /\ UNCHANGED lapse
       \/ (\E q \in Proc : ~At(q, "idle") /\ ~Ended(q)) /\ Allowed("overlap")
          /\ lapse' = lapse \cup {"overlap"}
    /\ UNCHANGED <<disks, keys>>

-----------------------------------------------------------------------------
(* EnsureKey                                                               *)

\* What it was writing in place stays half written.
HalfWritten(p) ==
    IF proc[p].pc \in {"keyWrite", "pubCreate", "pubWrite"} THEN {"key"}
    ELSE IF proc[p].pc \in {"copy", "convertFailed"} THEN {"raw"} ELSE {}

\* os.WriteFile fails: what it was at stays as it is.
KeyFails(p) ==
    /\ Allowed("keyFails") /\ Fail(p, "err")
    /\ lapse' = lapse \cup HalfWritten(p)
    /\ UNCHANGED <<key, pub>>

\* Mutant: a key without its public half gets a new one.
KeyStatRepairs(p) ==
    /\ At(p, "keyStat")
    /\ \/ key = None /\ key' = "empty" /\ Goto(p, "keyWrite")
       \/ key # None /\ pub = None /\ Goto(p, "pubCreate") /\ UNCHANGED key
       \/ /\ key # None /\ pub # None
          /\ proc' = [proc EXCEPT ![p].pc = "imageStat", ![p].key = pub] /\ UNCHANGED key
    /\ UNCHANGED <<disks, pub, lapse>>

\* An existing key is read, and its public half must be there; otherwise a new
\* pair is generated and os.WriteFile opens the private one.
KeyStat(p) ==
    /\ At(p, "keyStat")
    /\ \/ key = None /\ key' = "empty" /\ Goto(p, "keyWrite") /\ UNCHANGED <<pub, lapse>>
       \/ key = None /\ KeyFails(p)
       \/ key # None /\ pub = None /\ Goto(p, "err") /\ UNCHANGED <<keys, lapse>>
       \/ /\ key # None /\ pub # None
          /\ proc' = [proc EXCEPT ![p].pc = "imageStat", ![p].key = pub]
          /\ UNCHANGED <<keys, lapse>>
    /\ UNCHANGED disks

KeyWrite(p) ==
    /\ At(p, "keyWrite")
    /\ \/ key' = p /\ Goto(p, "pubCreate") /\ UNCHANGED <<pub, lapse>>
       \/ KeyFails(p)
    /\ UNCHANGED disks

PubCreate(p) ==
    /\ At(p, "pubCreate")
    /\ \/ pub' = "empty" /\ Goto(p, "pubWrite") /\ UNCHANGED <<key, lapse>>
       \/ KeyFails(p)
    /\ UNCHANGED disks

PubWrite(p) ==
    /\ At(p, "pubWrite")
    /\ \/ /\ pub' = p
          /\ proc' = [proc EXCEPT ![p].pc = "imageStat", ![p].key = p]
          /\ UNCHANGED <<key, lapse>>
       \/ KeyFails(p)
    /\ UNCHANGED disks

-----------------------------------------------------------------------------
(* Files                                                                   *)

Free(i) == /\ \A path \in Path : file[path] # i
           /\ \A p \in Proc : i \notin {proc[p].fd, proc[p].from}
Fresh == CHOOSE i \in Inode : Free(i)

\* os.Create: a file that exists is truncated and shared with its other users.
Create(path) ==
    LET i == IF Exists(path) THEN file[path] ELSE Fresh IN
    /\ file' = [file EXCEPT ![path] = i]
    /\ data' = [data EXCEPT ![i] = Hole]

Remove(path) == file' = [file EXCEPT ![path] = None]
Rename(old, new) == file' = [file EXCEPT ![new] = file[old], ![old] = None]

\* One block of io.Copy.
WriteBlock(p, block) ==
    /\ data' = [data EXCEPT ![proc[p].fd][proc[p].pos + 1] = block]
    /\ proc' = [proc EXCEPT ![p].pos = @ + 1]

Copied(p) == proc[p].pos = Blocks

-----------------------------------------------------------------------------
(* fetch.Ensure and atomicWrite, which differ in the check and the cleanup *)

Fetches(p) == proc[p].dest = Source

ImageStat(p) ==
    /\ At(p, "imageStat")
    /\ Goto(p, IF Exists("raw") THEN "ok" ELSE "fetchStat")
    /\ UNCHANGED <<disks, keys, lapse>>

FetchStat(p) ==
    /\ At(p, "fetchStat")
    /\ IF Exists(Source)
       THEN Goto(p, IF Source = "src" THEN "convert" ELSE "ok")
       ELSE proc' = [proc EXCEPT ![p].pc = "create", ![p].dest = Source]
    /\ UNCHANGED <<disks, keys, lapse>>

\* bootArgs extracts both unless both are there.
BootStat(p) ==
    /\ At(p, "bootStat")
    /\ IF Exists("kernel") /\ Exists("initrd")
       THEN Goto(p, "ok")
       ELSE proc' = [proc EXCEPT ![p].pc = "create", ![p].dest = "kernel"]
    /\ UNCHANGED <<disks, keys, lapse>>

\* Mutant: the temporary file must not be there yet.
CreateTmpNew(p) ==
    /\ At(p, "create")
    /\ \/ /\ ~Exists(Tmp[proc[p].dest])
          /\ Create(Tmp[proc[p].dest])
          /\ proc' = [proc EXCEPT ![p].pc = "write", ![p].pos = 0, ![p].bad = FALSE,
                                  ![p].fd = file'[Tmp[proc[p].dest]]]
       \/ Exists(Tmp[proc[p].dest]) /\ Goto(p, "err") /\ UNCHANGED disks
    /\ UNCHANGED <<keys, lapse>>

CreateTmp(p) ==
    /\ At(p, "create")
    /\ Create(Tmp[proc[p].dest])
    /\ \E bad \in BOOLEAN :
         /\ bad => Fetches(p) /\ Allowed("badBody")
         /\ proc' = [proc EXCEPT ![p].pc = "write", ![p].pos = 0, ![p].bad = bad,
                                 ![p].fd = file'[Tmp[proc[p].dest]]]
    /\ UNCHANGED <<keys, lapse>>

Write(p) ==
    /\ At(p, "write")
    /\ \/ ~Copied(p) /\ WriteBlock(p, IF proc[p].bad THEN "bad" ELSE "good") /\ UNCHANGED file
       \/ /\ Copied(p) /\ Goto(p, IF Fetches(p) /\ Pinned THEN "verify" ELSE "rename")
          /\ UNCHANGED disks
       \/ /\ Allowed(IF Fetches(p) THEN "netFails" ELSE "copyFails") /\ Fail(p, "discard")
          /\ UNCHANGED disks
    /\ UNCHANGED <<keys, lapse>>

\* Mutant: the checksum is not compared.
VerifySkipped(p) ==
    /\ At(p, "verify")
    /\ Goto(p, "rename")
    /\ UNCHANGED <<disks, keys, lapse>>

\* verifyChecksum opens the temporary name again; the read is taken as one step.
Verify(p) ==
    /\ At(p, "verify")
    /\ IF Exists(Tmp[Source]) /\ Whole(Tmp[Source])
       THEN Goto(p, "rename") ELSE Fail(p, "discard")
    /\ UNCHANGED <<disks, keys, lapse>>

RenameTmp(p) ==
    /\ At(p, "rename")
    /\ LET d == proc[p].dest IN
       \/ /\ Exists(Tmp[d])
          /\ Rename(Tmp[d], d)
          /\ IF Fetches(p) THEN Goto(p, IF d = "src" THEN "convert" ELSE "ok")
                           ELSE Goto(p, "cleanup")
       \/ ~Exists(Tmp[d]) /\ Goto(p, "discard") /\ UNCHANGED file
    /\ UNCHANGED <<data, keys, lapse>>

\* The failure path of both.
Discard(p) ==
    /\ At(p, "discard")
    /\ Remove(Tmp[proc[p].dest])
    /\ Goto(p, "err")
    /\ UNCHANGED <<data, keys, lapse>>

\* The deferred removal of atomicWrite, after success too; then the initrd.
Cleanup(p) ==
    /\ At(p, "cleanup")
    /\ Remove(Tmp[proc[p].dest])
    /\ IF proc[p].dest = "kernel"
       THEN proc' = [proc EXCEPT ![p].pc = "create", ![p].dest = "initrd"]
       ELSE Goto(p, "ok")
    /\ UNCHANGED <<data, keys, lapse>>

-----------------------------------------------------------------------------
(* convertQcow2ToRaw, in place                                             *)

Convert(p) ==
    /\ At(p, "convert")
    /\ \/ /\ Exists("src")
          /\ Create("raw")
          /\ proc' = [proc EXCEPT ![p].pc = "copy", ![p].dest = "raw", ![p].pos = 0,
                                  ![p].fd = file'["raw"], ![p].from = file["src"]]
       \/ ~Exists("src") /\ Goto(p, "convertFailed") /\ UNCHANGED disks
    /\ UNCHANGED <<keys, lapse>>

Copy(p) ==
    /\ At(p, "copy")
    /\ \/ /\ ~Copied(p)
          /\ WriteBlock(p, data[proc[p].from][proc[p].pos + 1])
          /\ UNCHANGED file
       \/ Copied(p) /\ Goto(p, "removeSource") /\ UNCHANGED disks
       \/ Allowed("copyFails") /\ Fail(p, "convertFailed") /\ UNCHANGED disks
    /\ UNCHANGED <<keys, lapse>>

ConvertFailed(p) ==
    /\ At(p, "convertFailed")
    /\ file' = [file EXCEPT !["raw"] = None, !["src"] = None]
    /\ Goto(p, "err")
    /\ UNCHANGED <<data, keys, lapse>>

RemoveSource(p) ==
    /\ At(p, "removeSource")
    /\ Remove("src")
    /\ Goto(p, "ok")
    /\ UNCHANGED <<data, keys, lapse>>

Crash(p) ==
    /\ Allowed("crash") /\ ~At(p, "idle") /\ ~Ended(p)
    /\ Goto(p, "crashed")
    /\ lapse' = lapse \cup HalfWritten(p)
    /\ UNCHANGED <<disks, keys>>

-----------------------------------------------------------------------------

Work(p) ==
    \/ KeyStat(p) \/ KeyWrite(p) \/ PubCreate(p) \/ PubWrite(p) \/ ImageStat(p) \/ FetchStat(p)
    \/ BootStat(p) \/ CreateTmp(p) \/ Write(p) \/ Verify(p) \/ RenameTmp(p) \/ Discard(p)
    \/ Cleanup(p) \/ Convert(p) \/ Copy(p) \/ ConvertFailed(p) \/ RemoveSource(p)

Quiet == (\A p \in Proc : Ended(p)) /\ UNCHANGED vars

Next == (\E p \in Proc : Begin(p) \/ Work(p) \/ Crash(p)) \/ Quiet

Spec == Init /\ [][Next]_vars

-----------------------------------------------------------------------------
(* Properties                                                              *)

BeingConverted == \E p \in Proc : proc[p].fd = file["raw"] \/ At(p, "convertFailed")

\* What stands under a name that the cache serves is whole, and verified when it is
\* pinned: the download, an extracted kernel or initrd, and a raw image that no
\* process is at, whatever fails and wherever a process dies.  It is so of processes
\* that take turns; and one that dies converting leaves half a raw image.
CachedWhole ==
    \A d \in {Source, "kernel", "initrd", "raw"} :
        (Exists(d) /\ lapse \cap {d, "overlap"} = {} /\ (d = "raw" => ~BeingConverted))
        => Whole(d)

\* EnsureKey: the public key a process returned, which goes into a seed, belongs to
\* the private key on disk, or the VM made with it cannot be reached.  But a public
\* file left empty, by a process that died or failed between creating and writing it,
\* is returned with success: nothing else makes a process return no key.
KeysMatch ==
    \A p \in Proc : (At(p, "ok") /\ proc[p].key # None /\ "overlap" \notin lapse) =>
        \/ proc[p].key \in Proc /\ key = proc[p].key
        \/ proc[p].key = "empty" /\ pub = "empty" /\ "key" \in lapse

\* A predecessor that failed or died does not stop its successors: a process fails by
\* a fault of its own, or because the private key stands without a public one, which
\* takes a death or a failure between the two; EnsureKey then refuses for ever.
Recovers ==
    \A p \in Proc : (At(p, "err") /\ "overlap" \notin lapse) =>
        proc[p].hit \/ (key # None /\ pub = None /\ "key" \in lapse)

=============================================================================
