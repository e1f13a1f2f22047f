------------------------- MODULE BoundSessionProofs -------------------------
(***************************************************************************)
(* What holds of BoundSession for any number of connections of the test    *)
(* process and of others, and whatever faults happen.                      *)
(*                                                                         *)
(* That nothing but the session's end tears the helper down rests on the   *)
(* two-way handshake: an ack is on one connection only, the one the test   *)
(* process keeps, and that one stays open until the session ends (Acked).  *)
(* That a session keeps its connection but for a cause rests on the first   *)
(* attempt being as good as any: without a cause its handler is there, the  *)
(* helper serves, and no second attempt is made (Smooth).                  *)
(***************************************************************************)
EXTENDS BoundSession, TLAPS

TestRec == [pc : TestPc \cup {"over", "failed", "dead"}, conn : Attempt \cup {None}]
ConnRec == [far : {"none", "open", "closed"}, near : Handler,
            wire : SUBSET {"bind", "version", "ack"}]

\* The connection of a handshake is open on the dialer's side.
Open == test.pc \in {"hello", "ack"} => conn[test.conn].far = "open"

\* An ack, sent or read, is the session's: it is on the connection that the test
\* process holds from then on, and open until the session ends.
Acked ==
    \A c \in Conn : ("ack" \in conn[c].wire \/ conn[c].near = "armed") =>
        /\ c \in Attempt /\ test.conn = c
        /\ test.pc \in {"up", "wait", "over", "dead"}
        /\ conn[c].far # "open" => test.pc # "up"

Inv == TypeOK /\ Open /\ Acked /\ NoSpuriousTeardown

\* What may cost a session its connection, and the handshake as long as none of it
\* has happened.
Cause == {"late", "slow", "nosocket", "signal", "crash"}
Excused == hit \cap Cause # {}
Shaking == {"dial", "hello", "ack"}
Smooth == ~Excused =>
    /\ test.pc = "spawn" => helper = "none" /\ members = "none"
    /\ test.pc \in {"spawn", "dial"} => \A c \in Attempt : conn[c].far = "none"
    /\ test.pc \in Shaking => /\ helper \in {"boot", "listen", "serve"}
                               /\ members \in {"none", "starting"}
                               /\ (helper = "serve" => sock = "live")
    /\ test.pc \in {"hello", "ack"} => conn[test.conn].near \notin Shut
    /\ test.pc \in {"up", "wait", "over"} => test.conn # None

-----------------------------------------------------------------------------
(* What the steps do to the two records                                    *)

\* The test process moves on and keeps its connection.
LEMMA GotoEffect ==
    ASSUME TypeOK, NEW to \in TestPc \cup {"over", "failed", "dead"}, Goto(to)
    PROVE  test' \in TestRec /\ test'.pc = to /\ test'.conn = test.conn
  BY DEF TypeOK, Goto, TestRec

\* The dialer's end is closed, and no other.
LEMMA HangupEffect ==
    ASSUME TypeOK, NEW c \in Conn, Hangup(c)
    PROVE  /\ conn' \in [Conn -> ConnRec] /\ conn'[c].far = "closed"
           /\ \A d \in Conn : conn'[d].near = conn[d].near /\ conn'[d].wire = conn[d].wire
           /\ \A d \in Conn : d # c => conn'[d].far = conn[d].far
  BY DEF TypeOK, Hangup, ConnRec

\* A handler moves on, and no other.
LEMMA MovesEffect ==
    ASSUME TypeOK, NEW c \in Conn, NEW to \in Handler, Moves(c, to)
    PROVE  /\ conn' \in [Conn -> ConnRec] /\ conn'[c].near = to
           /\ \A d \in Conn : conn'[d].far = conn[d].far /\ conn'[d].wire = conn[d].wire
           /\ \A d \in Conn : d # c => conn'[d].near = conn[d].near
  BY DEF TypeOK, Moves, ConnRec

\* The handlers end with the helper; what was sent stays.
LEMMA CutEffect ==
    ASSUME TypeOK
    PROVE  /\ Cut \in [Conn -> ConnRec]
           /\ \A d \in Conn : /\ Cut[d].far = conn[d].far /\ Cut[d].wire = conn[d].wire
                              /\ Cut[d].near \in {conn[d].near, "shut"}
  BY DEF TypeOK, Cut, ConnRec, Handler, Shut

\* What a dead helper leaves is of its type.
LEMMA DiesEffect ==
    ASSUME TypeOK, HelperDies
    PROVE  /\ helper' \in Ended /\ sock' \in {"none", "live", "stale"}
           /\ network' \in {"none", "up", "orphan"}
           /\ members' \in {"none", "starting", "up", "down"}
  BY DEF TypeOK, HelperDies, Ended

\* Steps that break no handshake and send no ack keep the invariant.
LEMMA Frame ==
    ASSUME Inv, test' \in TestRec, conn' \in [Conn -> ConnRec],
           helper' \in {"none", "boot", "listen", "serve", "stopAll", "control", "network"}
                         \cup Ended,
           sock' \in {"none", "live", "stale"}, members' \in {"none", "starting", "up", "down"},
           network' \in {"none", "up", "orphan"}, hit' \subseteq Fault,
           test'.pc \in {"hello", "ack"} => /\ test'.conn # None
                                            /\ conn'[test'.conn].far = "open",
           \A c \in Conn :
              /\ "ack" \in conn'[c].wire => "ack" \in conn[c].wire
              /\ conn'[c].near = "armed" => "ack" \in conn[c].wire \/ conn[c].near = "armed"
              /\ conn'[c].far # conn[c].far /\ c \in Attempt
                    => test'.pc # "up" \/ test'.conn # c,
           test.pc \in {"up", "wait", "over", "dead"} =>
              /\ test'.conn = test.conn /\ test'.pc \in {"up", "wait", "over", "dead"}
              /\ test.pc # "up" => test'.pc # "up",
           trigger' \in BOOLEAN, trigger' => trigger \/ test'.pc \in {"dead", "wait", "over"}
    PROVE  Inv'
  <1>1. TypeOK'
    BY DEF TypeOK, TestRec, ConnRec
  <1>2. Open'
    BY DEF Open
  <1>3. Acked'
    <2> SUFFICES ASSUME NEW c \in Conn, "ack" \in conn'[c].wire \/ conn'[c].near = "armed"
                 PROVE  /\ c \in Attempt /\ test'.conn = c /\ test'.pc \in {"up", "wait", "over", "dead"}
                        /\ conn'[c].far # "open" => test'.pc # "up"
      BY DEF Acked
    <2>1. "ack" \in conn[c].wire \/ conn[c].near = "armed"
      OBVIOUS
    <2>2. /\ c \in Attempt /\ test.conn = c /\ test.pc \in {"up", "wait", "over", "dead"}
          /\ conn[c].far # "open" => test.pc # "up"
      BY <2>1 DEF Inv, Acked
    <2> QED
      BY <2>2
  <1>4. NoSpuriousTeardown'
    BY DEF Inv, NoSpuriousTeardown
  <1> QED
    BY <1>1, <1>2, <1>3, <1>4 DEF Inv

-----------------------------------------------------------------------------

\* The two processes start with no connection.
LEMMA InitInv == Init => Inv
  <1> SUFFICES ASSUME Init PROVE Inv
    OBVIOUS
  <1>1. \A c \in Conn : conn[c].near = "none" /\ conn[c].wire = {}
    BY DEF Init
  <1>2. test.pc = "spawn" /\ ~trigger
    BY DEF Init
  <1>3. TypeOK
    BY DEF Init, TypeOK, TestPc, Handler
  <1> QED
    BY <1>1, <1>2, <1>3 DEF Inv, Open, Acked, NoSpuriousTeardown

\* Spawn, dialBind and the reaping: the ack goes out on the open connection of the
\* handshake, and a failed attempt is hung up before another is made.
LEMMA TestInv ==
    ASSUME Inv, TestNext
    PROVE  Inv'
  <1>0. test \in TestRec /\ conn \in [Conn -> ConnRec] /\ trigger \in BOOLEAN /\ TypeOK
    BY DEF Inv, TypeOK, TestRec, ConnRec
  <1>1. CASE Spawn
    <2>1. /\ test.pc = "spawn" /\ test'.pc \in {"dial", "failed"} /\ test' \in TestRec
          /\ helper' \in {"boot", helper} /\ hit' \subseteq Fault
      BY <1>0, <1>1, GotoEffect DEF Spawn, TestPc, Happens, TypeOK, Fault
    <2> QED
      BY <1>0, <1>1, <2>1, Frame DEF Spawn, Inv, TypeOK
  <1>2. CASE \E c \in Attempt : Dial(c)
    <2>1. PICK c \in Attempt : Dial(c)
      BY <1>2
    <2>2. /\ test.pc = "dial" /\ c \in Conn /\ c # None
          /\ test'.pc = "hello" /\ test'.conn = c /\ test' \in TestRec
          /\ conn' \in [Conn -> ConnRec]
          /\ conn'[c].far = "open" /\ conn'[c].near = "queued" /\ conn'[c].wire = {"bind"}
          /\ \A d \in Conn : d # c => conn'[d] = conn[d]
      BY <1>0, <2>1, BoundAssumption DEF Dial, Conn, TestRec, ConnRec, TestPc, Handler
    <2> QED
      BY <1>0, <2>1, <2>2, Frame DEF Dial, Inv, TypeOK
  <1>3. CASE DialTimeout
    <2>1. /\ test.pc = "dial" /\ test'.pc = "up" /\ test'.conn = None /\ test' \in TestRec
          /\ hit' \subseteq Fault /\ UNCHANGED <<helper, sock, conn, trigger, members, network>>
      BY <1>0, <1>3 DEF DialTimeout, TestRec, TestPc, Happens, Inv, TypeOK, Fault
    <2> QED
      BY <1>0, <2>1, Frame DEF Inv, TypeOK
  <1>4. CASE Hello
    <2> DEFINE c == test.conn
    <2>1. /\ test.pc = "hello" /\ c \in Conn /\ hit' \subseteq Fault
          /\ UNCHANGED <<helper, sock, trigger, members, network>>
      BY <1>0, <1>4 DEF Hello, TypeOK, Conn, Happens, Fault
    <2>2. CASE Goto("ack") /\ UNCHANGED conn
      <3>1. test'.pc = "ack" /\ test'.conn = c /\ test' \in TestRec
        BY <1>0, <2>2, GotoEffect DEF TestPc
      <3> QED
        BY <1>0, <2>1, <2>2, <3>1, Frame DEF Inv, TypeOK, Open
    <2>3. CASE Hangup(c) /\ test' \in {[pc |-> to, conn |-> None] : to \in {"mismatch", "dial"}}
      <3>1. test' \in TestRec /\ test'.pc \in {"mismatch", "dial"}
        BY <2>3 DEF TestRec, TestPc
      <3>2. /\ conn' \in [Conn -> ConnRec]
            /\ \A d \in Conn : conn'[d].near = conn[d].near /\ conn'[d].wire = conn[d].wire
        BY <1>0, <2>1, <2>3, HangupEffect
      <3> QED
        BY <1>0, <2>1, <3>1, <3>2, Frame DEF Inv, TypeOK
    <2> QED
      BY <1>4, <2>2, <2>3 DEF Hello, Redial
  <1>5. CASE Ack
    <2> DEFINE c == test.conn
    <2>1. /\ test.pc = "ack" /\ c \in Attempt /\ c \in Conn /\ conn[c].far = "open"
          /\ UNCHANGED <<helper, sock, trigger, members, network, hit>>
      BY <1>0, <1>5 DEF Ack, Inv, Open, TypeOK, Conn
    <2>2. CASE Goto("up") /\ conn' = [conn EXCEPT ![c].wire = @ \cup {"ack"}]
      <3>1. test'.pc = "up" /\ test'.conn = c /\ test' \in TestRec
        BY <1>0, <2>2, GotoEffect DEF TestPc
      <3>2. /\ conn' \in [Conn -> ConnRec]
            /\ \A d \in Conn : conn'[d].far = conn[d].far /\ conn'[d].near = conn[d].near
            /\ \A d \in Conn : d # c => conn'[d].wire = conn[d].wire
        BY <1>0, <2>1, <2>2 DEF ConnRec
      <3>3. TypeOK' /\ Open'
        BY <1>0, <2>1, <3>1, <3>2 DEF TypeOK, TestRec, ConnRec, Open
      <3>4. Acked'
        BY <2>1, <3>1, <3>2 DEF Inv, Acked
      <3> QED
        BY <2>1, <3>3, <3>4 DEF Inv, NoSpuriousTeardown
    <2>3. CASE Hangup(c) /\ test' = [pc |-> "up", conn |-> None]
      <3>1. test'.pc = "up" /\ test'.conn = None /\ test' \in TestRec
        BY <2>3 DEF TestRec, TestPc
      <3>2. /\ conn' \in [Conn -> ConnRec]
            /\ \A d \in Conn : conn'[d].near = conn[d].near /\ conn'[d].wire = conn[d].wire
            /\ \A d \in Conn : d # c => conn'[d].far = conn[d].far
        BY <1>0, <2>1, <2>3, HangupEffect
      <3> QED
        BY <1>0, <2>1, <3>1, <3>2, BoundAssumption, Frame DEF Inv, TypeOK
    <2> QED
      BY <1>5, <2>2, <2>3 DEF Ack
  <1>6. CASE Kill
    <2>1. test.pc = "mismatch" /\ test'.pc = "reap" /\ test' \in TestRec
      BY <1>0, <1>6, GotoEffect DEF Kill, TestPc
    <2>2. CASE UNCHANGED <<helper, sock, members, network, conn>>
      BY <1>0, <1>6, <2>1, <2>2, Frame DEF Kill, Inv, TypeOK
    <2>3. CASE HelperDies /\ conn' = Cut
      BY <1>0, <1>6, <2>1, <2>3, CutEffect, DiesEffect, Frame DEF Kill, Inv, TypeOK
    <2> QED
      BY <1>6, <2>2, <2>3 DEF Kill
  <1>8. CASE WaitKilled
    <2>1. test.pc = "reap" /\ test'.pc = "failed" /\ test' \in TestRec
      BY <1>0, <1>8, GotoEffect DEF WaitKilled
    <2> QED
      BY <1>0, <1>8, <2>1, Frame DEF WaitKilled, Inv, TypeOK
  <1>7. CASE Reap
    <2>1. test.pc = "wait" /\ test'.pc = "over" /\ test'.conn = test.conn /\ test' \in TestRec
      BY <1>0, <1>7, GotoEffect DEF Reap
    <2> QED
      BY <1>0, <1>7, <2>1, Frame DEF Reap, Inv, TypeOK
  <1> QED
    BY <1>1, <1>2, <1>3, <1>4, <1>5, <1>6, <1>7, <1>8 DEF TestNext

\* The session's work and end; connections of others never carry an ack.
LEMMA SessionInv ==
    ASSUME Inv, Work \/ Close \/ TestDies \/ \E c \in Stray : StrayDial(c) \/ StrayHangup(c)
    PROVE  Inv'
  <1>0. test \in TestRec /\ conn \in [Conn -> ConnRec] /\ trigger \in BOOLEAN /\ TypeOK
    BY DEF Inv, TypeOK, TestRec, ConnRec
  <1>1. CASE Work
    BY <1>0, <1>1, Frame DEF Work, Inv, TypeOK, Open
  <1>2. CASE Close
    <2>1. /\ test.pc = "up" /\ test'.pc = "wait" /\ test'.conn = test.conn /\ test' \in TestRec
          /\ UNCHANGED <<helper, sock, trigger, members, network, hit>>
      BY <1>0, <1>2, GotoEffect DEF Close, TestPc
    <2>2. /\ conn' \in [Conn -> ConnRec]
          /\ \A d \in Conn : conn'[d].near = conn[d].near /\ conn'[d].wire = conn[d].wire
      BY <1>0, <1>2, HangupEffect DEF Close, Conn
    <2> QED
      BY <1>0, <2>1, <2>2, Frame DEF Inv, TypeOK
  <1>3. CASE TestDies
    <2>1. /\ test'.pc = "dead" /\ test'.conn = test.conn /\ test' \in TestRec
          /\ hit' \subseteq Fault
          /\ UNCHANGED <<helper, sock, trigger, members, network>>
      BY <1>0, <1>3, GotoEffect DEF TestDies, Happens, TypeOK, Fault
    <2>2. /\ conn' \in [Conn -> ConnRec]
          /\ \A d \in Conn : conn'[d].near = conn[d].near /\ conn'[d].wire = conn[d].wire
      BY <1>0, <1>3 DEF TestDies, ConnRec
    <2> QED
      BY <1>0, <2>1, <2>2, Frame DEF Inv, TypeOK
  <1>4. CASE \E c \in Stray : StrayDial(c) \/ StrayHangup(c)
    <2>1. PICK c \in Stray : StrayDial(c) \/ StrayHangup(c)
      BY <1>4
    <2>2. /\ c \in Conn /\ c \notin Attempt
          /\ UNCHANGED <<test, helper, sock, trigger, members, network, hit>>
      BY <2>1, BoundAssumption DEF Conn, StrayDial, StrayHangup
    <2>3. test.pc \in {"hello", "ack"} => /\ test.conn \in Conn /\ test.conn # c
                                          /\ test.conn # None /\ conn[test.conn].far = "open"
      BY <2>2 DEF Inv, TypeOK, Open, Conn
    <2>4. CASE StrayDial(c)
      <3>1. /\ conn' \in [Conn -> ConnRec] /\ conn'[c].near = "queued" /\ conn'[c].wire = {"bind"}
            /\ \A d \in Conn : d # c => conn'[d] = conn[d]
        BY <1>0, <2>2, <2>4 DEF StrayDial, ConnRec, Handler
      <3> QED
        BY <1>0, <2>2, <2>3, <3>1, Frame DEF Inv, TypeOK
    <2>5. CASE StrayHangup(c)
      <3>1. /\ conn' \in [Conn -> ConnRec]
            /\ \A d \in Conn : conn'[d].near = conn[d].near /\ conn'[d].wire = conn[d].wire
            /\ \A d \in Conn : d # c => conn'[d].far = conn[d].far
        BY <1>0, <2>2, <2>5, HangupEffect DEF StrayHangup
      <3> QED
        BY <1>0, <2>2, <2>3, <3>1, Frame DEF Inv, TypeOK
    <2> QED
      BY <2>1, <2>4, <2>5
  <1> QED
    BY <1>1, <1>2, <1>3, <1>4

\* Run and watchParent: what they cut carries no more, and what was sent stays.
LEMMA RunInv ==
    ASSUME Inv, RunNext \/ WatchParent \/ Signal \/ Crash
    PROVE  Inv'
  <1>0. test \in TestRec /\ conn \in [Conn -> ConnRec] /\ trigger \in BOOLEAN /\ TypeOK
    BY DEF Inv, TypeOK, TestRec, ConnRec
  <1>1. UNCHANGED test
    BY DEF RunNext, Register, ListenControl, Leave, StopAll, CloseControl, CloseNetwork,
       WatchParent, Signal, Crash
  <1>2. CASE Register \/ ListenControl \/ Leave \/ StopAll \/ Signal
    <2>1. UNCHANGED <<conn, trigger>>
      BY <1>2 DEF Register, ListenControl, Leave, StopAll, Signal
    <2>2. hit' \subseteq Fault /\ UNCHANGED network
      BY <1>0, <1>2 DEF Register, ListenControl, Leave, StopAll, Signal, Happens, TypeOK, Fault
    <2>3. /\ helper' \in {"listen", "serve", "stopAll", "control"}
          /\ members' \in {members, "starting", "down"} /\ sock' \in {sock, "live", "none"}
      BY <1>2 DEF Register, ListenControl, Leave, StopAll, Signal
    <2> QED
      BY <1>0, <1>1, <2>1, <2>2, <2>3, Frame DEF Inv, TypeOK, Open
  <1>3. CASE CloseControl
    <2>1. /\ conn' \in [Conn -> ConnRec]
          /\ \A d \in Conn : /\ conn'[d].far = conn[d].far /\ conn'[d].wire = conn[d].wire
                             /\ conn'[d].near \in {conn[d].near, "shut"}
      BY <1>0, <1>3 DEF CloseControl, ConnRec, Handler
    <2> QED
      BY <1>0, <1>1, <1>3, <2>1, Frame DEF CloseControl, Inv, TypeOK, Open, Conn
  <1>4. CASE CloseNetwork
    BY <1>0, <1>1, <1>4, CutEffect, Frame DEF CloseNetwork, Inv, TypeOK, Open, Conn, Ended
  <1>5. CASE Crash
    <2>1. hit' \subseteq Fault /\ conn' = Cut /\ UNCHANGED trigger
      BY <1>0, <1>5 DEF Crash, Happens, TypeOK, Fault
    <2> QED
      BY <1>0, <1>1, <1>5, <2>1, CutEffect, DiesEffect, Frame DEF Crash, Inv, TypeOK, Open, Conn
  <1>6. CASE WatchParent
    BY <1>0, <1>1, <1>6, Frame DEF WatchParent, Inv, TypeOK, Open
  <1> QED
    BY <1>2, <1>3, <1>4, <1>5, <1>6 DEF RunNext

\* handleBindConn: only an ack arms the watch.
LEMMA HandlerInv ==
    ASSUME Inv, NEW c \in Conn, HandlerNext(c) \/ Timeout(c)
    PROVE  Inv'
  <1>0. test \in TestRec /\ conn \in [Conn -> ConnRec] /\ trigger \in BOOLEAN /\ TypeOK
    BY DEF Inv, TypeOK, TestRec, ConnRec
  <1>1. UNCHANGED <<test, helper, sock, members, network>> /\ hit' \subseteq Fault
    BY <1>0 DEF HandlerNext, Accept, ReadBind, ReadAck, ReadEOF, Timeout, Happens, TypeOK, Fault
  <1>2. ASSUME NEW to \in Handler, Moves(c, to),
               to = "armed" => "ack" \in conn[c].wire \/ conn[c].near = "armed",
               trigger' \in BOOLEAN, trigger' => trigger \/ test.pc \in {"dead", "wait", "over"}
        PROVE  Inv'
    BY <1>0, <1>1, <1>2, MovesEffect, Frame DEF Inv, TypeOK, Open, Conn
  <1>3. CASE Accept(c) \/ ReadAck(c) \/ Timeout(c)
    BY <1>0, <1>2, <1>3 DEF Accept, ReadAck, Timeout, Handler, Inv, NoSpuriousTeardown
  <1>4. CASE ReadEOF(c)
    BY <1>0, <1>2, <1>4 DEF ReadEOF, Handler, Inv, Acked
  <1>5. CASE ReadBind(c)
    <2>1. CASE Moves(c, "shut")
      BY <1>0, <1>2, <1>5, <2>1 DEF ReadBind, Handler
    <2>2. CASE conn' = [conn EXCEPT ![c].near = "ack", ![c].wire = {"version"}]
      <3>1. /\ conn' \in [Conn -> ConnRec] /\ conn'[c].near = "ack" /\ conn'[c].wire = {"version"}
            /\ \A d \in Conn : conn'[d].far = conn[d].far
            /\ \A d \in Conn : d # c => conn'[d] = conn[d]
        BY <1>0, <2>2 DEF ConnRec, Handler
      <3> QED
        BY <1>0, <1>1, <1>5, <3>1, Frame DEF ReadBind, Inv, TypeOK, Open, Conn
    <2> QED
      BY <1>5, <2>1, <2>2 DEF ReadBind
  <1> QED
    BY <1>3, <1>4, <1>5 DEF HandlerNext

\* The invariant is inductive.
LEMMA NextInv == Inv /\ [Next]_vars => Inv'
  <1> SUFFICES ASSUME Inv, [Next]_vars PROVE Inv'
    OBVIOUS
  <1>1. CASE UNCHANGED vars
    BY <1>1 DEF vars, Inv, TypeOK, Open, Acked, NoSpuriousTeardown
  <1> QED
    BY <1>1, TestInv, SessionInv, RunInv, HandlerInv DEF Next, Quiet

-----------------------------------------------------------------------------
(* The handshake without a cause                                           *)

\* What has happened has.
LEMMA HitGrows ==
    ASSUME Next
    PROVE  hit \subseteq hit'
  BY DEF Next, TestNext, Spawn, Dial, DialTimeout, Hello, Ack, Kill, WaitKilled, Reap, Work, Close,
     TestDies, StrayDial, StrayHangup, RunNext, Register, ListenControl, Leave, StopAll,
     CloseControl, CloseNetwork, WatchParent, Signal, Crash, HandlerNext, Accept, ReadBind,
     ReadAck, ReadEOF, Timeout, Quiet, Happens, vars

\* Every step of a run without a cause keeps the handshake on its first attempt.
LEMMA SmoothNext == Inv /\ Smooth /\ [Next]_vars => Smooth'
  <1> SUFFICES ASSUME Inv, Smooth, Next, ~Excused' PROVE Smooth'
    BY DEF Smooth, Excused, vars, Shaking
  <1>0. /\ ~Excused /\ TypeOK /\ Open /\ NoSpuriousTeardown
        /\ conn \in [Conn -> ConnRec] /\ test \in TestRec /\ Attempt \subseteq Conn
    BY HitGrows DEF Excused, Inv, TypeOK, TestRec, ConnRec, Conn
  <1>h. /\ ~Happens("late") /\ ~Happens("slow") /\ ~Happens("nosocket")
        /\ ~Happens("signal") /\ ~Happens("crash")
    BY DEF Excused, Happens, Cause
  <1>1. CASE TestNext
    <2>1. CASE Spawn
      <3>1. CASE Goto("dial") /\ helper' = "boot"
        BY <1>0, <2>1, <3>1, GotoEffect DEF Spawn, Smooth, Shaking, TestPc
      <3>2. CASE Goto("failed")
        BY <1>0, <3>2, GotoEffect DEF Smooth, Shaking
      <3> QED
        BY <2>1, <3>1, <3>2 DEF Spawn
    <2>2. CASE \E c \in Attempt : Dial(c)
      <3>1. PICK c \in Attempt : Dial(c)
        BY <2>2
      <3>2. /\ test.pc = "dial" /\ test'.pc = "hello" /\ test'.conn = c
            /\ conn'[c].near = "queued" /\ UNCHANGED <<helper, sock, members>>
        BY <1>0, <3>1 DEF Dial
      <3> QED
        BY <1>0, <3>2 DEF Smooth, Shaking, Shut
    <2>3. CASE DialTimeout
      <3>1. test.pc = "dial" /\ \E c \in Attempt : conn[c].far = "none"
        BY <1>0, <2>3, BoundAssumption DEF DialTimeout, Smooth
      <3>2. helper \in {"boot", "listen", "serve"} /\ (helper = "serve" => sock = "live")
        BY <1>0, <3>1 DEF Smooth, Shaking
      <3> QED
        BY <1>h, <2>3, <3>1, <3>2 DEF DialTimeout
    <2>4. CASE Hello
      <3> DEFINE c == test.conn
      <3>1. test.pc = "hello" /\ conn[c].near \notin Shut /\ ~Happens("slow")
        BY <1>0, <1>h, <2>4 DEF Hello, Smooth, Cause
      <3>2. CASE Goto("ack") /\ UNCHANGED conn
        BY <1>0, <2>4, <3>1, <3>2, GotoEffect DEF Hello, Smooth, Shaking, TestPc
      <3>3. CASE test' = [pc |-> "mismatch", conn |-> None]
        BY <3>3 DEF Smooth, Shaking
      <3> QED
        BY <2>4, <3>1, <3>2, <3>3 DEF Hello
    <2>5. CASE Ack
      <3>1. test.pc = "ack" /\ conn[test.conn].near \notin Shut /\ test.conn # None
        BY <1>0, <2>5 DEF Ack, Smooth, TypeOK
      <3>2. test'.pc = "up" /\ test'.conn = test.conn
        BY <1>0, <2>5, <3>1, GotoEffect DEF Ack, TestPc
      <3> QED
        BY <3>1, <3>2 DEF Smooth, Shaking
    <2>6. CASE Kill \/ WaitKilled
      <3>1. test'.pc \in {"reap", "failed"}
        BY <1>0, <2>6, GotoEffect DEF Kill, WaitKilled, TestPc
      <3> QED
        BY <3>1 DEF Smooth, Shaking
    <2>7. CASE Reap
      <3>1. test.pc = "wait" /\ test'.pc = "over" /\ test'.conn = test.conn
        BY <1>0, <2>7, GotoEffect DEF Reap
      <3> QED
        BY <1>0, <3>1 DEF Smooth, Shaking
    <2> QED
      BY <1>1, <2>1, <2>2, <2>3, <2>4, <2>5, <2>6, <2>7 DEF TestNext
  <1>2. CASE Close \/ TestDies
    <2>1. \/ test'.pc = "dead"
          \/ test.pc = "up" /\ test'.pc = "wait" /\ test'.conn = test.conn
      BY <1>0, <1>2, GotoEffect DEF Close, TestDies, TestPc
    <2> QED
      BY <1>0, <2>1 DEF Smooth, Shaking
  <1>3. CASE Work
    BY <1>0, <1>3 DEF Work, Smooth, Shaking
  <1>4. CASE \E c \in Stray : StrayDial(c) \/ StrayHangup(c)
    <2>1. PICK c \in Stray : StrayDial(c) \/ StrayHangup(c)
      BY <1>4
    <2>2. /\ UNCHANGED <<test, helper, sock, members>>
          /\ \A d \in Attempt : conn'[d] = conn[d]
      BY <1>0, <2>1, BoundAssumption DEF StrayDial, StrayHangup, Hangup, Conn
    <2>3. test.pc \in {"hello", "ack"} => test.conn \in Attempt
      BY <1>0 DEF TypeOK
    <2> QED
      BY <1>0, <2>2, <2>3 DEF Smooth
  <1>5. CASE RunNext \/ WatchParent \/ Signal \/ Crash
    <2>1. UNCHANGED test
      BY <1>5 DEF RunNext, Register, ListenControl, Leave, StopAll, CloseControl, CloseNetwork,
         WatchParent, Signal, Crash
    <2>2. CASE test.pc \notin Shaking \cup {"spawn"}
      BY <1>0, <2>1, <2>2 DEF Smooth, Shaking
    <2>3. ~trigger \/ test.pc \notin Shaking
      BY <1>0 DEF NoSpuriousTeardown, Shaking
    <2>4. CASE test.pc \in Shaking
      <3>1. CASE Register \/ ListenControl
        BY <1>0, <1>h, <2>1, <2>4, <3>1 DEF Register, ListenControl, Smooth, Shaking, Cause
      <3>2. ~Signal /\ ~Crash
        BY <1>h DEF Signal, Crash, Cause
      <3>3. /\ helper \in {"boot", "listen", "serve"} /\ members \in {"none", "starting"}
            /\ ~trigger /\ test.pc # "dead"
        BY <1>0, <2>3, <2>4 DEF Smooth, Shaking
      <3>4. ~Leave
        BY <3>3 DEF Leave
      <3>5. ~StopAll /\ ~CloseControl /\ ~CloseNetwork /\ ~WatchParent
        BY <3>3 DEF StopAll, CloseControl, CloseNetwork, WatchParent
      <3> QED
        BY <1>5, <3>1, <3>2, <3>4, <3>5 DEF RunNext
    <2>5. CASE test.pc = "spawn"
      <3>1. helper = "none"
        BY <1>0, <2>5 DEF Smooth
      <3> QED
        BY <1>5, <3>1 DEF RunNext, Register, ListenControl, Leave, StopAll, CloseControl,
           CloseNetwork, WatchParent, Signal, Crash
    <2> QED
      BY <2>2, <2>4, <2>5
  <1>6. CASE \E c \in Conn : HandlerNext(c) \/ Timeout(c)
    <2>1. PICK c \in Conn : HandlerNext(c) \/ Timeout(c)
      BY <1>6
    <2>2. /\ UNCHANGED <<test, helper, sock, members>> /\ ~Timeout(c)
          /\ \A d \in Conn : conn'[d].far = conn[d].far
          /\ conn[c].far = "open" => conn'[c].near \notin Shut \/ conn[c].near \in Shut
          /\ \A d \in Conn : d # c => conn'[d] = conn[d]
      BY <1>0, <1>h, <2>1 DEF HandlerNext, Accept, ReadBind, ReadAck, ReadEOF, Timeout, Moves,
         ConnRec, Shut, Cause
    <2>3. test.pc \in {"hello", "ack"} => test.conn \in Attempt /\ conn[test.conn].far = "open"
      BY <1>0 DEF TypeOK, Open
    <2> QED
      BY <1>0, <2>2, <2>3 DEF Smooth, Shut
  <1>7. CASE Quiet
    BY <1>0, <1>7 DEF Quiet, vars, Smooth
  <1> QED
    BY <1>1, <1>2, <1>3, <1>4, <1>5, <1>6, <1>7 DEF Next

-----------------------------------------------------------------------------

\* The records of the two processes and of their connections keep their types.
THEOREM TypeCorrect == Spec => []TypeOK
  BY InitInv, NextInv, PTL DEF Spec, Inv

\* Whatever fails, is retried or is not meant for it, the helper is torn down for
\* the end of the session only: handleBindConn (holder.go:315) arms the watch on
\* an ack, and an ack is on the connection that the test process keeps.
THEOREM TeardownCorrect == Spec => []NoSpuriousTeardown
  BY InitInv, NextInv, PTL DEF Spec, Inv

\* A bound session is without its connection only for a cause: a late or slow helper,
\* one without a socket, or one that was told to end or died. Nothing that strays or
\* retries do makes dialBind (control.go:370) give the connection up.
THEOREM FallbackCorrect == Spec => []FallbackHasCause
  <1>1. Init => Smooth
    BY DEF Init, Smooth, Shaking, Conn
  <1>2. Smooth => FallbackHasCause
    BY DEF Smooth, FallbackHasCause, Excused, Cause
  <1> QED
    BY <1>1, <1>2, InitInv, NextInv, SmoothNext, PTL DEF Spec

=============================================================================
