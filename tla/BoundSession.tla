---------------------------- MODULE BoundSession ----------------------------
(***************************************************************************)
(* A test process and the helper bound to it: Spawn, dialBind and Close of  *)
(* control.go against Run, watchParent and handleBindConn of holder.go.    *)
(*                                                                         *)
(* The helper must go when the test goes, however it goes, and must not be *)
(* torn down by a connection that failed, was retried or was never meant.  *)
(* The members are one here; Holder.tla has what happens inside Serving.   *)
(***************************************************************************)
EXTENDS FiniteSets

CONSTANTS
    Attempt,  \* the connections dialBind may make before its deadline
    Stray,    \* connections of anybody else, closed without a word
    Faults,   \* what may go wrong, see below
    None

\* Faults a run may allow:
\*   nospawn   the runner log cannot be created, or the helper not started
\*   killed    the test process dies
\*   crash     the helper dies, or fails before it serves
\*   signal    the helper gets SIGTERM
\*   nosocket  listenControl fails
\*   late      the deadline of dialBind passes before the socket is up
\*   slow      a deadline of the handshake passes, on either side
\*   version   the helper speaks another version of the protocol
Fault == {"nospawn", "killed", "crash", "signal", "nosocket", "late", "slow", "version"}

ASSUME BoundAssumption ==
    /\ Attempt # {} /\ Attempt \cap Stray = {} /\ None \notin Attempt
    /\ Faults \subseteq Fault

Conn == Attempt \cup Stray

VARIABLES
    test,     \* the test process: where it is, and its Session.bindConn
    helper,   \* the helper process
    sock,     \* the control socket's path: nothing, a listener, or a dead one
    conn,     \* the connections: the dialer's end, the handler, bytes in flight
    trigger,  \* boundShutdown is closed
    members,  \* the VMs
    network,  \* the host's side of the network
    hit       \* history: the faults that happened

vars == <<test, helper, sock, conn, trigger, members, network, hit>>

\* Down to "wait", the places where the test process still runs.
TestPc == {"spawn", "dial", "hello", "ack", "mismatch", "reap", "up", "wait"}
\* "shut" and "slow": the handler is gone, "slow" because a deadline of its passed.
Handler == {"none", "queued", "bind", "ack", "armed", "shut", "slow"}
Shut == {"shut", "slow"}
Ended == {"gone", "killed"}

TypeOK ==
    /\ test \in [pc : TestPc \cup {"over", "failed", "dead"}, conn : Attempt \cup {None}]
    /\ test.pc \in {"hello", "ack"} => test.conn # None
    /\ helper \in {"none", "boot", "listen", "serve", "stopAll", "control", "network"} \cup Ended
    /\ sock \in {"none", "live", "stale"}
    /\ conn \in [Conn -> [far : {"none", "open", "closed"}, near : Handler,
                          wire : SUBSET {"bind", "version", "ack"}]]
    /\ trigger \in BOOLEAN
    /\ members \in {"none", "starting", "up", "down"}
    /\ network \in {"none", "up", "orphan"}
    /\ hit \subseteq Fault

-----------------------------------------------------------------------------

Happens(f) == f \in Faults /\ hit' = hit \cup {f}
Goto(to) == test' = [test EXCEPT !.pc = to]
Hangup(c) == conn' = [conn EXCEPT ![c].far = "closed"]

Init ==
    /\ test = [pc |-> "spawn", conn |-> None]
    /\ helper = "none" /\ sock = "none"
    /\ conn = [c \in Conn |-> [far |-> "none", near |-> "none", wire |-> {}]]
    /\ trigger = FALSE
    /\ members = "none" /\ network = "none"
    /\ hit = {}

-----------------------------------------------------------------------------
(* The test process: Spawn and dialBind                                    *)

Spawn ==
    /\ test.pc = "spawn"
    /\ \/ Goto("dial") /\ helper' = "boot" /\ UNCHANGED hit
       \/ Goto("failed") /\ UNCHANGED helper /\ Happens("nospawn")
    /\ UNCHANGED <<sock, conn, trigger, members, network>>

\* A connection, and the bind command on it.
Dial(c) ==
    /\ test.pc = "dial" /\ sock = "live" /\ conn[c].far = "none"
    /\ test' = [pc |-> "hello", conn |-> c]
    /\ conn' = [conn EXCEPT ![c] = [far |-> "open", near |-> "queued", wire |-> {"bind"}]]
    /\ UNCHANGED <<helper, sock, trigger, members, network, hit>>

\* The deadline passes: the helper will not listen, is slow, or every attempt failed.
DialTimeout ==
    /\ test.pc = "dial"
    /\ \/ sock # "live" /\ helper \notin {"boot", "listen"} /\ UNCHANGED hit
       \/ (\A c \in Attempt : conn[c].far # "none") /\ UNCHANGED hit
       \/ helper \in {"boot", "listen"} /\ Happens("late")
    /\ test' = [pc |-> "up", conn |-> None]
    /\ UNCHANGED <<helper, sock, conn, trigger, members, network>>

Redial == Hangup(test.conn) /\ test' = [pc |-> "dial", conn |-> None]

\* The version, or its absence; a failed attempt is closed and made again.
Hello ==
    /\ test.pc = "hello"
    /\ \/ /\ "version" \in conn[test.conn].wire
          /\ \/ Goto("ack") /\ UNCHANGED <<conn, hit>>
             \/ Happens("version") /\ Hangup(test.conn)
                /\ test' = [pc |-> "mismatch", conn |-> None]
       \/ /\ (conn[test.conn].near \in Shut /\ UNCHANGED hit) \/ Happens("slow")
          /\ Redial
    /\ UNCHANGED <<helper, sock, trigger, members, network>>

Ack ==
    /\ test.pc = "ack"
    /\ \/ /\ conn[test.conn].near \notin Shut
          /\ conn' = [conn EXCEPT ![test.conn].wire = @ \cup {"ack"}]
          /\ Goto("up")
       \/ /\ conn[test.conn].near \in Shut
          /\ Hangup(test.conn)
          /\ test' = [pc |-> "up", conn |-> None]
    /\ UNCHANGED <<helper, sock, trigger, members, network, hit>>

\* What the end of the helper process leaves, whoever ends it: a socket file, the
\* bridge and its rules; not a connection, and not a VM.
HelperDies ==
    /\ helper' = "killed"
    /\ sock' = IF sock = "live" THEN "stale" ELSE sock
    /\ network' = IF network = "up" THEN "orphan" ELSE network
    /\ members' = IF members = "none" THEN "none" ELSE "down"

Cut == [c \in Conn |-> IF conn[c].near = "none" THEN conn[c] ELSE [conn[c] EXCEPT !.near = "shut"]]

\* The helper of another version is killed, and then waited for.
Kill ==
    /\ test.pc = "mismatch"
    /\ Goto("reap")
    /\ IF helper \in Ended THEN UNCHANGED <<helper, sock, members, network, conn>>
       ELSE HelperDies /\ conn' = Cut
    /\ UNCHANGED <<trigger, hit>>

WaitKilled ==
    /\ test.pc = "reap" /\ helper \in Ended
    /\ Goto("failed")
    /\ UNCHANGED <<helper, sock, conn, trigger, members, network, hit>>

-----------------------------------------------------------------------------
(* The test process: its VMs, Close, and death                             *)

\* create-network and boot-member; a stop of the last member.
Work ==
    /\ test.pc = "up" /\ helper = "serve"
    /\ \/ members = "starting" /\ members' = "up" /\ network' = "up"
       \/ members \in {"starting", "up"} /\ members' = "down" /\ UNCHANGED network
    /\ UNCHANGED <<test, helper, sock, conn, trigger, hit>>

\* Mutant: the helper is reaped before its connection is closed.
CloseAfter ==
    /\ test.pc = "up"
    /\ Goto("wait")
    /\ UNCHANGED <<helper, sock, conn, trigger, members, network, hit>>

\* Also the Close of a helper that could not make its network.
Close ==
    /\ test.pc = "up"
    /\ Goto("wait")
    /\ IF test.conn \in Attempt THEN Hangup(test.conn) ELSE UNCHANGED conn
    /\ UNCHANGED <<helper, sock, trigger, members, network, hit>>

Reap ==
    /\ test.pc = "wait" /\ helper \in Ended
    /\ Goto("over")
    /\ UNCHANGED <<helper, sock, conn, trigger, members, network, hit>>

\* At any point, kill -9 included: the kernel closes its connections.
TestDies ==
    /\ test.pc \in TestPc
    /\ Happens("killed")
    /\ Goto("dead")
    /\ conn' = [c \in Conn |-> IF c \in Attempt /\ conn[c].far = "open"
                               THEN [conn[c] EXCEPT !.far = "closed"] ELSE conn[c]]
    /\ UNCHANGED <<helper, sock, trigger, members, network>>

StrayDial(c) ==
    /\ sock = "live" /\ conn[c].far = "none"
    /\ conn' = [conn EXCEPT ![c] = [far |-> "open", near |-> "queued", wire |-> {"bind"}]]
    /\ UNCHANGED <<test, helper, sock, trigger, members, network, hit>>

StrayHangup(c) ==
    /\ conn[c].far = "open"
    /\ Hangup(c)
    /\ UNCHANGED <<test, helper, sock, trigger, members, network, hit>>

-----------------------------------------------------------------------------
(* The helper: Run                                                         *)

Register ==
    /\ helper = "boot"
    /\ helper' = "listen" /\ members' = "starting"
    /\ UNCHANGED <<test, sock, conn, trigger, network, hit>>

ListenControl ==
    /\ helper = "listen"
    /\ \/ sock' = "live" /\ UNCHANGED hit
       \/ sock' = "none" /\ Happens("nosocket")
    /\ helper' = "serve"
    /\ UNCHANGED <<test, conn, trigger, members, network>>

\* The select of Run.
Leave ==
    /\ helper = "serve"
    /\ trigger \/ members = "down"
    /\ helper' = "stopAll"
    /\ UNCHANGED <<test, sock, conn, trigger, members, network, hit>>

Signal ==
    /\ helper = "serve"
    /\ Happens("signal")
    /\ helper' = "stopAll"
    /\ UNCHANGED <<test, sock, conn, trigger, members, network>>

StopAll ==
    /\ helper = "stopAll"
    /\ helper' = "control" /\ members' = "down"
    /\ UNCHANGED <<test, sock, conn, trigger, network, hit>>

\* What was not accepted is reset with the listener.
CloseControl ==
    /\ helper = "control"
    /\ helper' = "network"
    /\ sock' = "none"
    /\ conn' = [c \in Conn |-> IF conn[c].near = "queued"
                               THEN [conn[c] EXCEPT !.near = "shut"] ELSE conn[c]]
    /\ UNCHANGED <<test, trigger, members, network, hit>>

CloseNetwork ==
    /\ helper = "network"
    /\ helper' = "gone" /\ network' = "none"
    /\ conn' = Cut
    /\ UNCHANGED <<test, sock, trigger, members, hit>>

Crash ==
    /\ helper \notin Ended \cup {"none"}
    /\ Happens("crash")
    /\ HelperDies /\ conn' = Cut
    /\ UNCHANGED <<test, trigger>>

-----------------------------------------------------------------------------
(* The helper: watchParent, serveControl and handleBindConn                *)

\* Mutant: the parent is the one the helper finds when it looks first.
WatchParentOwn ==
    /\ helper \notin Ended \cup {"none", "boot", "listen"}
    /\ test.pc = "dead" /\ \E c \in Attempt : conn[c].far # "none"
    /\ trigger' = TRUE
    /\ UNCHANGED <<test, helper, sock, conn, members, network, hit>>

\* The parent PID comes from the environment, so the first look is as good.
WatchParent ==
    /\ helper \notin Ended \cup {"none", "boot"}
    /\ test.pc = "dead"
    /\ trigger' = TRUE
    /\ UNCHANGED <<test, helper, sock, conn, members, network, hit>>

Serving == helper \in {"serve", "stopAll", "control", "network"}
Moves(c, to) == conn' = [conn EXCEPT ![c].near = to]

Accept(c) ==
    /\ Serving /\ conn[c].near = "queued"
    /\ Moves(c, "bind")
    /\ UNCHANGED <<test, helper, sock, trigger, members, network, hit>>

\* Mutant: a connection is refused while another is in its handshake.
ReadBindOne(c) ==
    /\ Serving /\ conn[c].near = "bind"
    /\ \/ /\ conn[c].far = "open" /\ \A d \in Conn \ {c} : conn[d].near \notin {"bind", "ack"}
          /\ conn' = [conn EXCEPT ![c].near = "ack", ![c].wire = {"version"}]
       \/ /\ conn[c].far = "closed" \/ \E d \in Conn \ {c} : conn[d].near \in {"bind", "ack"}
          /\ Moves(c, "shut")
    /\ UNCHANGED <<test, helper, sock, trigger, members, network, hit>>

\* The bind command is answered by the version; a write to a closed end fails.
ReadBind(c) ==
    /\ Serving /\ conn[c].near = "bind"
    /\ \/ /\ conn[c].far = "open"
          /\ conn' = [conn EXCEPT ![c].near = "ack", ![c].wire = {"version"}]
       \/ conn[c].far = "closed" /\ Moves(c, "shut")
    /\ UNCHANGED <<test, helper, sock, trigger, members, network, hit>>

\* Mutant: the end of the connection is taken for the parent's in the handshake too.
ReadAckOrEnd(c) ==
    /\ Serving /\ conn[c].near = "ack"
    /\ \/ "ack" \in conn[c].wire \/ conn[c].far = "closed"
    /\ Moves(c, "armed")
    /\ UNCHANGED <<test, helper, sock, trigger, members, network, hit>>

\* An ack arms the watch, also when the end of the connection is right behind it.
ReadAck(c) ==
    /\ Serving /\ conn[c].near = "ack"
    /\ \/ "ack" \in conn[c].wire /\ Moves(c, "armed")
       \/ "ack" \notin conn[c].wire /\ conn[c].far = "closed" /\ Moves(c, "shut")
    /\ UNCHANGED <<test, helper, sock, trigger, members, network, hit>>

\* The read of the bind command or of the ack times out.
Timeout(c) ==
    /\ Serving /\ conn[c].near \in {"bind", "ack"}
    /\ Happens("slow") /\ Moves(c, "slow")
    /\ UNCHANGED <<test, helper, sock, trigger, members, network>>

ReadEOF(c) ==
    /\ Serving /\ conn[c].near = "armed" /\ conn[c].far = "closed"
    /\ Moves(c, "shut") /\ trigger' = TRUE
    /\ UNCHANGED <<test, helper, sock, members, network, hit>>

\* Nothing is left to happen: both processes have ended, or the test waits for a
\* helper that does not know.
Quiet ==
    /\ test.pc \in {"over", "failed", "dead", "wait"}
    /\ UNCHANGED vars

-----------------------------------------------------------------------------

TestNext ==
    \/ Spawn \/ (\E c \in Attempt : Dial(c)) \/ DialTimeout \/ Hello \/ Ack
    \/ Kill \/ WaitKilled \/ Reap
HandlerNext(c) == Accept(c) \/ ReadBind(c) \/ ReadAck(c) \/ ReadEOF(c)
RunNext == Register \/ ListenControl \/ Leave \/ StopAll \/ CloseControl \/ CloseNetwork

Next ==
    \/ TestNext \/ Work \/ Close \/ TestDies
    \/ \E c \in Stray : StrayDial(c) \/ StrayHangup(c)
    \/ RunNext \/ WatchParent \/ Signal \/ Crash
    \/ \E c \in Conn : HandlerNext(c) \/ Timeout(c)
    \/ Quiet

Spec == Init /\ [][Next]_vars

\* Both processes run, the dialer's deadline passes, and watchParent polls for ever.
\* Nothing makes the test close its session or stop its members, and no action of
\* the helper's is a fault that fairness would force.
FairSpec ==
    /\ Spec
    /\ WF_vars(TestNext)
    /\ WF_vars(RunNext) /\ WF_vars(WatchParent)
    /\ \A c \in Conn : WF_vars(HandlerNext(c))

-----------------------------------------------------------------------------

\* The helper tears down for the session only when the session is over: a retried
\* attempt, a stray connection or one that broke in the handshake never triggers it
\* (handleBindConn arms the death-watch on the ack, holder.go:315).
NoSpuriousTeardown ==
    trigger => test.pc \in {"dead", "wait", "over"}

\* A session does without its connection, and leaves its helper to the parent poll,
\* only for a cause: the helper was late or slow, it had no socket, or it was told to
\* end. Strays and retries alone never cost a session its connection: serveControl
\* gives each its own handler and keeps accepting (holder.go:286).
FallbackHasCause ==
    test.pc \in {"up", "wait", "over"} /\ test.conn = None =>
        hit \cap {"late", "slow", "nosocket", "signal", "crash"} # {}

\* However the test process dies and however far the handshake was, the helper goes
\* (watchParent backs the connection's end up, holder.go:247).
DeathReaped ==
    (test.pc = "dead" /\ helper # "none") ~> helper \in Ended

\* Close of a session with a connection ends, retried handshakes or not, unless the
\* helper's own deadline dropped that very connection just as it was acked.
CloseEnds ==
    (test.pc = "wait" /\ test.conn # None) ~>
        \/ test.pc \in {"over", "dead"}
        \/ \E c \in Attempt : test.conn = c /\ conn[c].near = "slow"
=============================================================================
