--------------------------- MODULE LifecycleProofs ---------------------------
(***************************************************************************)
(* Safety of the process's life, for any number of connections and any     *)
(* configuration files: the invariant below is inductive.                  *)
(***************************************************************************)
EXTENDS Lifecycle, TLAPS

Starting == {"config", "load", "bind_public", "bind_admin"}

(* Nothing runs before both listeners are bound, nor after the end, and    *)
(* until then nobody was accepted.                                         *)
PhaseInv ==
  /\ phase # "serving" => watcher = "none" /\ \A s \in Server : server[s] = "down"
  /\ phase \in Starting => ~accepted /\ exit = "none"
  /\ phase = "serving" => exit = "none"

(* A server that has stopped has no connection left. *)
StopInv == \A c \in Conn : server[ServerOf(c)] = "stopped" => conn[c] = "closed"

(* What the end of the process recorded. *)
ExitInv == FailedStartServesNobody /\ NoRequestCut

Inv == TypeOK /\ PhaseInv /\ StopInv /\ ExitInv

LEMMA ServerOfType == ASSUME NEW c \in Conn PROVE ServerOf(c) \in Server
BY DEF ServerOf, Server

(* A path that is configured is one of the words given. *)
LEMMA ConfiguredType ==
  ASSUME TypeOK, Configured
  PROVE  File[ConfigPath] \in Config
<1>1. ConfigPath \in Arg
  <2>1. CASE args = <<>>
    BY <2>1, LifecycleAssumption DEF TypeOK, Configured, ConfigPath
  <2>2. CASE args # <<>>
    <3>1. args \in Seq(Arg)
      BY LifecycleAssumption DEF TypeOK
    <3>2. Len(args) \in 1..Len(args)
      BY <2>2, <3>1
    <3>3. args[Len(args)] \in Arg
      BY <3>1, <3>2
    <3> QED
      BY <2>2, <3>3 DEF Configured, ConfigPath
  <2> QED
    BY <2>1, <2>2
<1> QED
  BY <1>1, LifecycleAssumption DEF Configured

LEMMA InitInv == Init => Inv
BY DEF Init, Inv, TypeOK, PhaseInv, StopInv, ExitInv, Phases, Starting,
       FailedStartServesNobody, NoRequestCut

(* The end of the process: each way to end keeps what it must not break. *)
LEMMA EndInv ==
  ASSUME Inv, NEW how \in {"success", "failure", "killed"}, End(how),
         how = "failure" => ~accepted,
         how = "success" => \A c \in Conn : conn[c] = "closed"
  PROVE  Inv'
<1>1. TypeOK'
  BY DEF Inv, TypeOK, End, started, Phases
<1>2. PhaseInv'
  BY DEF End, PhaseInv, Starting, Server
<1>3. StopInv'
  BY DEF End, StopInv
<1>4. ExitInv'
  BY DEF End, ExitInv, FailedStartServesNobody, NoRequestCut, started, InHand
<1> QED
  BY <1>1, <1>2, <1>3, <1>4 DEF Inv

LEMMA StartupInv == Inv /\ Startup => Inv'
<1> SUFFICES ASSUME Inv, Startup PROVE Inv'
  OBVIOUS
<1>1. CASE Configure
  <2>1. File[ConfigPath] \in Config
    BY <1>1, ConfiguredType DEF Configure, Inv
  <2> QED
    BY <1>1, <2>1 DEF Configure, Inv, TypeOK, PhaseInv, StopInv, ExitInv, Phases,
       Starting, FailedStartServesNobody, NoRequestCut
<1>2. CASE Misconfigured
  BY <1>2, EndInv DEF Misconfigured, Inv, PhaseInv, Starting
<1>3. CASE LoadStore
  BY <1>3 DEF LoadStore, Inv, TypeOK, PhaseInv, StopInv, ExitInv, Phases, started,
     Starting, FailedStartServesNobody, NoRequestCut
<1>4. CASE LoadFails
  BY <1>4, EndInv DEF LoadFails, Inv, PhaseInv, Starting
<1>5. CASE BindPublic
  BY <1>5 DEF BindPublic, Inv, TypeOK, PhaseInv, StopInv, ExitInv, Phases, started,
     Starting, FailedStartServesNobody, NoRequestCut, Server
<1>6. CASE BindAdmin
  BY <1>6, ServerOfType DEF BindAdmin, Inv, TypeOK, PhaseInv, StopInv, ExitInv, Phases,
     started, Starting, FailedStartServesNobody, NoRequestCut, Server
<1>7. CASE BindFails
  BY <1>7, EndInv DEF BindFails, Inv, PhaseInv, Starting
<1> QED
  BY <1>1, <1>2, <1>3, <1>4, <1>5, <1>6, <1>7 DEF Startup

LEMMA ShutdownInv == Inv /\ Shutdown => Inv'
<1> SUFFICES ASSUME Inv, Shutdown PROVE Inv'
  OBVIOUS
<1>1. CASE Watch \/ CannotWatch \/ Announce
  BY <1>1 DEF Watch, CannotWatch, Announce, Inv, TypeOK, PhaseInv, StopInv, ExitInv,
     started, FailedStartServesNobody, NoRequestCut
<1>2. ASSUME NEW s \in Server, Drain(s)
      PROVE  Inv'
  <2>1. phase = "serving"
    BY <1>2 DEF Drain, Inv, PhaseInv
  <2>2. TypeOK' /\ PhaseInv' /\ ExitInv'
    BY <1>2, <2>1 DEF Drain, Inv, TypeOK, PhaseInv, ExitInv, started,
       FailedStartServesNobody, NoRequestCut, Starting
  <2>3. StopInv'
    BY <1>2, ServerOfType DEF Drain, Inv, TypeOK, StopInv
  <2> QED
    BY <2>2, <2>3 DEF Inv
<1>3. ASSUME NEW s \in Server, Stop(s)
      PROVE  Inv'
  <2>1. phase = "serving"
    BY <1>3 DEF Stop, Inv, PhaseInv
  <2>2. TypeOK' /\ PhaseInv' /\ ExitInv'
    BY <1>3, <2>1 DEF Stop, Inv, TypeOK, PhaseInv, ExitInv, started,
       FailedStartServesNobody, NoRequestCut, Starting
  <2>3. StopInv'
    BY <1>3, ServerOfType DEF Stop, Inv, TypeOK, StopInv
  <2> QED
    BY <2>2, <2>3 DEF Inv
<1>4. CASE Finish
  <2>1. \A c \in Conn : conn[c] = "closed"
    BY <1>4, ServerOfType DEF Finish, Inv, StopInv
  <2> QED
    BY <1>4, <2>1, EndInv DEF Finish
<1> QED
  BY <1>1, <1>2, <1>3, <1>4 DEF Shutdown

(* A step of one connection, which no stopped server has. *)
LEMMA GotoInv ==
  ASSUME Inv, NEW c \in Conn,
         NEW from \in SUBSET {"closed", "open", "idle", "handling", "upstream", "sending"},
         NEW to \in {"closed", "open", "idle", "handling", "upstream", "sending"},
         Goto(c, from, to),
         accepted' \in BOOLEAN,
         accepted' # accepted => server[ServerOf(c)] = "accepting",
         "closed" \in from => server[ServerOf(c)] = "accepting"
  PROVE  Inv'
<1>1. TypeOK'
  BY DEF Goto, Inv, TypeOK, started, InHand
<1>2. PhaseInv' /\ ExitInv'
  BY ServerOfType DEF Goto, Inv, TypeOK, PhaseInv, ExitInv, started, Starting, Phases,
     FailedStartServesNobody, NoRequestCut
<1>3. StopInv'
  BY ServerOfType DEF Goto, Inv, TypeOK, StopInv
<1> QED
  BY <1>1, <1>2, <1>3 DEF Inv

LEMMA ConnectionInv ==
  ASSUME Inv, NEW c \in Conn,
         Connect(c) \/ Ask(c) \/ OriginAnswers(c) \/ Sent(c) \/ HangUp(c) \/ Handle(c)
  PROVE  Inv'
<1>0. accepted \in BOOLEAN
  BY DEF Inv, TypeOK
<1>1. CASE Connect(c)
  BY <1>0, <1>1, GotoInv DEF Connect
<1>2. CASE Ask(c)
  BY <1>0, <1>2, GotoInv DEF Ask
<1>3. CASE OriginAnswers(c) \/ TimeOut(c)
  BY <1>0, <1>3, GotoInv DEF OriginAnswers, TimeOut
<1>4. CASE Sent(c)
  BY <1>0, <1>4, GotoInv DEF Sent
<1>5. CASE HangUp(c)
  BY <1>0, <1>5, GotoInv DEF HangUp, InHand
<1>6. CASE Answer(c) \/ Forward(c)
  BY <1>0, <1>6, GotoInv DEF Answer, Forward
<1>7. CASE CloseIdle(c)
  BY <1>0, <1>7, GotoInv DEF CloseIdle
<1> QED
  BY <1>1, <1>2, <1>3, <1>4, <1>5, <1>6, <1>7 DEF Handle

LEMMA SignalInv == Inv /\ Signal => Inv'
<1> SUFFICES ASSUME Inv, Signal PROVE Inv'
  OBVIOUS
<1>1. CASE End("killed")
  BY <1>1, EndInv
<1>2. CASE /\ watcher = "waiting"
           /\ watcher' = "signalled"
           /\ UNCHANGED <<started, phase, bound, server, conn, exit, cut, accepted>>
  BY <1>2 DEF Inv, TypeOK, PhaseInv, StopInv, ExitInv, started,
     FailedStartServesNobody, NoRequestCut
<1> QED
  BY <1>1, <1>2 DEF Signal

LEMMA NextInv == Inv /\ [Next]_vars => Inv'
<1> SUFFICES ASSUME Inv, [Next]_vars PROVE Inv'
  OBVIOUS
<1>1. CASE Startup
  BY <1>1, StartupInv
<1>2. CASE Shutdown
  BY <1>2, ShutdownInv
<1>3. CASE World
  BY <1>3, SignalInv, ConnectionInv DEF World
<1>4. CASE \E c \in Conn : Handle(c)
  BY <1>4, ConnectionInv
<1>5. CASE UNCHANGED vars
  BY <1>5 DEF vars, Inv, TypeOK, PhaseInv, StopInv, ExitInv, FailedStartServesNobody,
     NoRequestCut
<1> QED
  BY <1>1, <1>2, <1>3, <1>4, <1>5 DEF Next

THEOREM Invariance == Spec => []Inv
BY InitInv, NextInv, PTL DEF Spec

-----------------------------------------------------------------------------
(* The process never leaves the states of its variables: for example, no   *)
(* server drains that was never started (serve_until_shutdown_with_clock). *)
THEOREM TypeCorrect == Spec => []TypeOK
<1>1. Inv => TypeOK
  BY DEF Inv
<1> QED
  BY <1>1, Invariance, PTL

(* A start that fails, for whatever reason and at whatever point, has not  *)
(* accepted a single connection (serve_until_shutdown_with_clock binds     *)
(* both listeners before it serves on either).                             *)
THEOREM AllOrNothing == Spec => []FailedStartServesNobody
<1>1. Inv => FailedStartServesNobody
  BY DEF Inv, ExitInv
<1> QED
  BY <1>1, Invariance, PTL

(* A graceful shutdown cuts no request that either server has in hand,     *)
(* however many connections there are (with_graceful_shutdown, try_join!). *)
THEOREM GracefulShutdown == Spec => []NoRequestCut
<1>1. Inv => NoRequestCut
  BY DEF Inv, ExitInv
<1> QED
  BY <1>1, Invariance, PTL
-----------------------------------------------------------------------------
(* The refinement of Process. *)

(* No server drains before the watcher has sent its message, so the        *)
(* watcher is still there, or its message is, when the first one does.     *)
WatchInv ==
  phase = "serving" /\ watcher # "sent" =>
    \A s \in Server : server[s] = "accepting"

LEMMA WatchStep ==
  ASSUME Inv, WatchInv, [Next]_vars
  PROVE  WatchInv'
<1>1. CASE Startup
  BY <1>1 DEF Startup, Configure, Misconfigured, LoadStore, LoadFails, BindPublic,
     BindAdmin, BindFails, End, WatchInv
<1>2. CASE Shutdown
  <2>1. CASE Watch \/ CannotWatch \/ Announce
    BY <1>2, <2>1 DEF Watch, CannotWatch, Announce, WatchInv, Inv, PhaseInv
  <2>2. ASSUME NEW s \in Server, Drain(s) \/ Stop(s)
        PROVE  WatchInv'
    BY <2>2 DEF Drain, Stop, WatchInv, Inv, PhaseInv
  <2>3. CASE Finish
    BY <2>3 DEF Finish, End, WatchInv
  <2> QED
    BY <1>2, <2>1, <2>2, <2>3 DEF Shutdown
<1>3. CASE Signal
  BY <1>3 DEF Signal, End, WatchInv
<1>4. ASSUME NEW c \in Conn,
             Connect(c) \/ Ask(c) \/ OriginAnswers(c) \/ Sent(c) \/ HangUp(c) \/ Handle(c)
      PROVE  WatchInv'
  BY <1>4 DEF Connect, Ask, OriginAnswers, Sent, HangUp, Handle, Answer, Forward,
     TimeOut, CloseIdle, Goto, WatchInv
<1>5. CASE UNCHANGED vars
  BY <1>5 DEF vars, WatchInv
<1> QED
  BY <1>1, <1>2, <1>3, <1>4, <1>5 DEF Next, World

LEMMA LifeEnds ==
  ASSUME NEW how, End(how)
  PROVE  Life!Over(how)
BY DEF End, Life!Over, InHand

LEMMA LifeStartup ==
  ASSUME Inv, Startup
  PROVE  [Life!Next]_(Life!vars)
<1>1. CASE Configure \/ LoadStore \/ BindPublic
  BY <1>1 DEF Configure, LoadStore, BindPublic, started, Life!vars
<1>2. CASE BindAdmin
  <2>1. Life!Start
    BY <1>2 DEF BindAdmin, started, Life!Start
  <2> QED
    BY <2>1 DEF Life!Next
<1>3. CASE Misconfigured \/ LoadFails \/ BindFails
  <2>1. phase \in Starting /\ End("failure")
    BY <1>3 DEF Misconfigured, LoadFails, BindFails, Starting
  <2>2. Life!Fail
    BY <2>1, LifeEnds DEF Life!Fail, Starting
  <2> QED
    BY <2>2 DEF Life!Next
<1> QED
  BY <1>1, <1>2, <1>3 DEF Startup

LEMMA LifeShutdown ==
  ASSUME Inv, Shutdown
  PROVE  [Life!Next]_(Life!vars)
<1>1. CASE Watch \/ CannotWatch \/ Announce
  BY <1>1 DEF Watch, CannotWatch, Announce, started, Life!vars
<1>2. ASSUME NEW s \in Server, Drain(s)
      PROVE  Life!Next
  <2>1. {t \in Server : server'[t] = "accepting"} =
          {t \in Server : server[t] = "accepting"} \ {s}
    BY <1>2 DEF Drain, Inv, TypeOK
  <2>2. Life!Close(s)
    BY <1>2, <2>1 DEF Drain, started, Life!Close
  <2> QED
    BY <2>2 DEF Life!Next
<1>3. ASSUME NEW s \in Server, Stop(s)
      PROVE  UNCHANGED Life!vars
  <2>1. {t \in Server : server'[t] = "accepting"} =
          {t \in Server : server[t] = "accepting"}
    BY <1>3 DEF Stop, Inv, TypeOK
  <2> QED
    BY <1>3, <2>1 DEF Stop, started, Life!vars
<1>4. CASE Finish
  <2>1. phase = "serving"
    BY <1>4 DEF Finish, Inv, PhaseInv, Server
  <2>2. \A c \in Conn : conn[c] = "closed"
    BY <1>4, ServerOfType DEF Finish, Inv, StopInv
  <2>3. Life!Succeed
    BY <1>4, <2>1, <2>2, LifeEnds DEF Finish, Life!Succeed
  <2> QED
    BY <2>3 DEF Life!Next
<1> QED
  BY <1>1, <1>2, <1>3, <1>4 DEF Shutdown

LEMMA LifeSignal ==
  ASSUME Inv, WatchInv, Signal
  PROVE  [Life!Next]_(Life!vars)
<1>1. CASE End("killed") /\ watcher \in {"none", "spawned"}
  <2>1. phase \in Starting \/ phase = "serving"
    BY DEF Signal, Inv, TypeOK, Phases, Starting
  <2>2. phase = "serving" => {s \in Server : server[s] = "accepting"} = Server
    BY <1>1 DEF WatchInv
  <2>3. Life!Kill
    BY <1>1, <2>1, <2>2, LifeEnds DEF Life!Kill, Starting
  <2> QED
    BY <2>3 DEF Life!Next
<1>2. CASE /\ watcher = "waiting"
           /\ watcher' = "signalled"
           /\ UNCHANGED <<started, phase, bound, server, conn, exit, cut, accepted>>
  BY <1>2 DEF started, Life!vars
<1> QED
  BY <1>1, <1>2 DEF Signal

(* What one client's step does to those that are connected or waiting. *)
LEMMA LifeGoto ==
  ASSUME Inv, NEW c \in Conn, NEW from, NEW to, Goto(c, from, to)
  PROVE  /\ {d \in Conn : conn'[d] # "closed"} =
              IF to = "closed" THEN {d \in Conn : conn[d] # "closed"} \ {c}
                               ELSE {d \in Conn : conn[d] # "closed"} \cup {c}
         /\ {d \in Conn : conn'[d] \in InHand} =
              IF to \in InHand THEN {d \in Conn : conn[d] \in InHand} \cup {c}
                               ELSE {d \in Conn : conn[d] \in InHand} \ {c}
         /\ conn[c] \in from
         /\ UNCHANGED <<phase, server, exit>>
<1>1. \A d \in Conn : conn'[d] = IF d = c THEN to ELSE conn[d]
  BY DEF Goto, Inv, TypeOK
<1>2. conn[c] \in from /\ UNCHANGED <<phase, server, exit>>
  BY DEF Goto, started
<1> QED
  BY <1>1, <1>2

LEMMA LifeConnection ==
  ASSUME Inv, NEW c \in Conn,
         Connect(c) \/ Ask(c) \/ OriginAnswers(c) \/ Sent(c) \/ HangUp(c) \/ Handle(c)
  PROVE  [Life!Next]_(Life!vars)
<1>1. CASE Connect(c)
  <2>1. Goto(c, {"closed"}, "open") /\ server[ServerOf(c)] = "accepting"
    BY <1>1 DEF Connect
  <2>2. Life!Attach(c)
    BY <2>1, LifeGoto, ServerOfType DEF Life!Attach, InHand
  <2> QED
    BY <2>2 DEF Life!Next
<1>2. CASE Ask(c)
  <2>1. Goto(c, {"open", "idle"}, "handling")
    BY <1>2 DEF Ask
  <2>2. Life!Begin(c)
    BY <2>1, LifeGoto DEF Life!Begin, InHand
  <2> QED
    BY <2>2 DEF Life!Next
<1>3. CASE Answer(c) \/ Forward(c) \/ OriginAnswers(c) \/ TimeOut(c)
  <2>1. \E from \in SUBSET InHand, to \in InHand : Goto(c, from, to)
    BY <1>3 DEF Answer, Forward, OriginAnswers, TimeOut, InHand
  <2>2. UNCHANGED Life!vars
    BY <2>1, LifeGoto DEF Life!vars, InHand
  <2> QED
    BY <2>2
<1>4. CASE Sent(c) \/ CloseIdle(c) \/ HangUp(c)
  <2>1. PICK from \in SUBSET ({"open", "idle"} \cup InHand), to \in {"closed", "idle"} :
          Goto(c, from, to)
    BY <1>4 DEF Sent, CloseIdle, HangUp, InHand
  <2>2. Life!Answer(c)
    BY <2>1, LifeGoto DEF Life!Answer, InHand
  <2> QED
    BY <2>2 DEF Life!Next
<1> QED
  BY <1>1, <1>2, <1>3, <1>4 DEF Handle

LEMMA LifeStep ==
  ASSUME Inv, WatchInv, [Next]_vars
  PROVE  [Life!Next]_(Life!vars)
<1>1. CASE UNCHANGED vars
  BY <1>1 DEF vars, Life!vars
<1> QED
  BY <1>1, LifeStartup, LifeShutdown, LifeSignal, LifeConnection DEF Next, World

(* The process with its command line, two binds, watcher, servers and      *)
(* connections implements the abstract Process: it starts with both        *)
(* listeners or not at all, and once it has closed one it ends only when   *)
(* everybody on both has been answered or has left.                        *)
THEOREM LifecycleImplementsProcess == Spec => ImplementsProcess
<1>1. Init => Life!Init
  BY DEF Init, Life!Init, InHand
<1>2. Init => WatchInv
  BY DEF Init, WatchInv
<1> QED
  BY <1>1, <1>2, Invariance, WatchStep, LifeStep, PTL DEF Spec, ImplementsProcess, Life!Spec
=============================================================================
