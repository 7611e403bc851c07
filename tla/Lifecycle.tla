------------------------------ MODULE Lifecycle ------------------------------
(***************************************************************************)
(* The gateway process from its command line to its exit: the              *)
(* configuration (crates/ajar-gateway), the startup of both listeners and  *)
(* the graceful shutdown (serve_until_shutdown_with_clock), beside clients *)
(* that connect, ask and hang on, an origin that may stay silent, and      *)
(* signals at any moment.  Writes to stderr succeed here: if one fails,    *)
(* log_event of main.rs panics, and the process exits with 101 in place of *)
(* what is said below, be it before it serves, after a failed start, or    *)
(* when it reports gateway_stopped after a complete shutdown.              *)
(***************************************************************************)
EXTENDS Integers, Sequences

CONSTANTS
  PublicConn,   \* connections to the public listener
  AdminConn,    \* connections to the admin listener
  Arg,          \* words of the command line; "--config" is one of them
  CommandLine,  \* the command lines and ...
  EnvPath,      \* ... values of AJAR_GATEWAY_CONFIG that it is started with
  NoPath,       \* no path is given
  Bad,          \* the path is not that of a TOML file with the right fields
  File          \* File[p] is what the configuration file at p says

Server == {"public", "admin"}

Conn == PublicConn \cup AdminConn

ServerOf(c) == IF c \in PublicConn THEN "public" ELSE "admin"

(* GatewayConfig, of which the origin's URL keeps only its form. *)
Config ==
  [origin_url         : {"http", "https", "relative", "malformed"},
   request_timeout_ms : Nat,
   max_body_bytes     : Nat,
   store_dir          : BOOLEAN,      \* is one configured?
   one_addr           : BOOLEAN]      \* are listen_addr and admin_addr the same port?

ASSUME LifecycleAssumption ==
  /\ PublicConn \cap AdminConn = {}
  /\ CommandLine \subseteq Seq(Arg)
  /\ EnvPath \subseteq Arg \cup {NoPath}
  /\ NoPath \notin Arg
  /\ Bad \notin Config
  /\ File \in [Arg -> Config \cup {Bad}]

VARIABLES
  args, env,   \* what the process was started with
  phase,       \* what the main task does next
  config,      \* the configuration it has loaded
  bound,       \* the listeners that are bound
  watcher,     \* the task that waits for a signal and tells the servers
  server,      \* the two axum servers
  conn,        \* what the gateway does for each connection
  exit,        \* how the process ended
  cut,         \* history: connections that its end cut with a request in hand
  accepted     \* history: has a connection ever been accepted?

started == <<args, env, config>>
vars == <<args, env, phase, config, bound, watcher, server, conn, exit, cut, accepted>>

Phases == {"config", "load", "bind_public", "bind_admin", "serving", "over"}

InHand == {"handling", "upstream", "sending"}

TypeOK ==
  /\ args \in CommandLine
  /\ env \in EnvPath
  /\ phase \in Phases
  /\ config \in Config \cup {Bad}
  /\ bound \in SUBSET Server
  /\ watcher \in {"none", "spawned", "waiting", "signalled", "sent"}
  /\ server \in [Server -> {"down", "accepting", "draining", "stopped"}]
  /\ conn \in [Conn -> {"closed", "open", "idle"} \cup InHand]
  /\ exit \in {"none", "success", "failure", "killed"}
  /\ cut \in SUBSET Conn
  /\ accepted \in BOOLEAN

Init ==
  /\ args \in CommandLine
  /\ env \in EnvPath
  /\ phase = "config"
  /\ config = Bad
  /\ bound = {}
  /\ watcher = "none"
  /\ server = [s \in Server |-> "down"]
  /\ conn = [c \in Conn |-> "closed"]
  /\ exit = "none"
  /\ cut = {}
  /\ accepted = FALSE

(* The end of the process takes its listeners, tasks and connections along. *)
End(how) ==
  /\ phase' = "over"
  /\ exit' = how
  /\ bound' = {}
  /\ watcher' = "none"
  /\ server' = [s \in Server |-> "down"]
  /\ cut' = {c \in Conn : conn[c] \in InHand}
  /\ conn' = [c \in Conn |-> "closed"]
  /\ UNCHANGED <<started, accepted>>

-----------------------------------------------------------------------------
(* run and serve_until_shutdown_with_clock, up to the servers. *)

(* parse_config_path: only --config, each with a value; the last one wins, *)
(* and the environment counts if there is none.                            *)
ConfigPath ==
  IF \/ Len(args) % 2 = 1
     \/ \E i \in 1..Len(args) : i % 2 = 1 /\ args[i] # "--config"
  THEN NoPath
  ELSE IF args = <<>> THEN env ELSE args[Len(args)]

(* GatewayConfig::validate. *)
Valid(c) ==
  /\ c.origin_url = "http"
  /\ c.request_timeout_ms > 0
  /\ c.max_body_bytes > 0

Configured ==
  /\ ConfigPath # NoPath
  /\ File[ConfigPath] # Bad
  /\ Valid(File[ConfigPath])

Configure ==
  /\ phase = "config"
  /\ Configured
  /\ config' = File[ConfigPath]
  /\ phase' = "load"
  /\ UNCHANGED <<args, env, bound, watcher, server, conn, exit, cut, accepted>>

Misconfigured ==
  /\ phase = "config"
  /\ ~Configured
  /\ End("failure")

(* The store is loaded, or none is configured.  A load may fail. *)
LoadStore ==
  /\ phase = "load"
  /\ phase' = "bind_public"
  /\ UNCHANGED <<started, bound, watcher, server, conn, exit, cut, accepted>>

LoadFails ==
  /\ phase = "load"
  /\ config.store_dir
  /\ End("failure")

(* Mutant: the public server starts as soon as its listener is bound. *)
BindPublicServing ==
  /\ phase = "bind_public"
  /\ bound' = bound \cup {"public"}
  /\ phase' = "bind_admin"
  /\ server' = [server EXCEPT !["public"] = "accepting"]
  /\ UNCHANGED <<started, watcher, conn, exit, cut, accepted>>

BindPublic ==
  /\ phase = "bind_public"
  /\ bound' = bound \cup {"public"}
  /\ phase' = "bind_admin"
  /\ UNCHANGED <<started, watcher, server, conn, exit, cut, accepted>>

(* Mutant: only the listeners bound so far get a server. *)
BindAdminPartly ==
  /\ phase = "bind_admin"
  /\ ~config.one_addr
  /\ bound' = bound \cup {"admin"}
  /\ phase' = "serving"
  /\ watcher' = "spawned"
  /\ server' = [s \in bound |-> "accepting"]
  /\ UNCHANGED <<started, conn, exit, cut, accepted>>

(* Both servers start, and the watcher is spawned. *)
BindAdmin ==
  /\ phase = "bind_admin"
  /\ ~config.one_addr
  /\ bound' = bound \cup {"admin"}
  /\ phase' = "serving"
  /\ watcher' = "spawned"
  /\ server' = [s \in Server |-> "accepting"]
  /\ UNCHANGED <<started, conn, exit, cut, accepted>>

BindFails ==
  /\ phase \in {"bind_public", "bind_admin"}
  /\ End("failure")

-----------------------------------------------------------------------------
(* Signals and the graceful shutdown. *)

(* The watcher is polled for the first time and installs its handlers ... *)
Watch ==
  /\ watcher = "spawned"
  /\ watcher' = "waiting"
  /\ UNCHANGED <<started, phase, bound, server, conn, exit, cut, accepted>>

(* ... or cannot, and takes the failure for a signal. *)
CannotWatch ==
  /\ watcher = "spawned"
  /\ watcher' = "signalled"
  /\ UNCHANGED <<started, phase, bound, server, conn, exit, cut, accepted>>

(* Mutant: once the watcher has gone, a second signal kills. *)
SignalTwice ==
  /\ phase # "over"
  /\ \/ /\ watcher \in {"none", "spawned", "sent"}
        /\ End("killed")
     \/ /\ watcher = "waiting"
        /\ watcher' = "signalled"
        /\ UNCHANGED <<started, phase, bound, server, conn, exit, cut, accepted>>

(* SIGTERM or SIGINT.  Without a handler it kills; once one was received,  *)
(* tokio's handlers remain and nobody listens to them any more.            *)
Signal ==
  /\ phase # "over"
  /\ \/ /\ watcher \in {"none", "spawned"}
        /\ End("killed")
     \/ /\ watcher = "waiting"
        /\ watcher' = "signalled"
        /\ UNCHANGED <<started, phase, bound, server, conn, exit, cut, accepted>>

(* shutdown_tx.send(true) *)
Announce ==
  /\ watcher = "signalled"
  /\ watcher' = "sent"
  /\ UNCHANGED <<started, phase, bound, server, conn, exit, cut, accepted>>

(* Mutant: only the public server is given a receiver. *)
DrainPublic(s) ==
  /\ s = "public"
  /\ server[s] = "accepting"
  /\ watcher = "sent"
  /\ server' = [server EXCEPT ![s] = "draining"]
  /\ UNCHANGED <<started, phase, bound, watcher, conn, exit, cut, accepted>>

(* shutdown_signal returns: the watched value, or its change, is seen. *)
Drain(s) ==
  /\ server[s] = "accepting"
  /\ watcher = "sent"
  /\ server' = [server EXCEPT ![s] = "draining"]
  /\ UNCHANGED <<started, phase, bound, watcher, conn, exit, cut, accepted>>

(* A draining server ends when its last connection has. *)
Stop(s) ==
  /\ server[s] = "draining"
  /\ \A c \in Conn : ServerOf(c) = s => conn[c] = "closed"
  /\ server' = [server EXCEPT ![s] = "stopped"]
  /\ UNCHANGED <<started, phase, bound, watcher, conn, exit, cut, accepted>>

(* Mutant: the first server to stop ends the process. *)
FinishFirst ==
  /\ \E s \in Server : server[s] = "stopped"
  /\ End("success")

(* try_join! waits for both. *)
Finish ==
  /\ \A s \in Server : server[s] = "stopped"
  /\ End("success")

-----------------------------------------------------------------------------
(* One connection. *)

Goto(c, from, to) ==
  /\ conn[c] \in from
  /\ conn' = [conn EXCEPT ![c] = to]
  /\ UNCHANGED <<started, phase, bound, watcher, server, exit, cut>>

Connect(c) ==
  /\ server[ServerOf(c)] = "accepting"
  /\ Goto(c, {"closed"}, "open")
  /\ accepted' = TRUE

(* A whole request has come in.  An idle connection is kept alive for the  *)
(* next one, but a draining server closes it.                              *)
Ask(c) == Goto(c, {"open", "idle"}, "handling") /\ UNCHANGED accepted

(* The answer is at hand: from the store, from the admin routes, an error. *)
Answer(c) == Goto(c, {"handling"}, "sending") /\ UNCHANGED accepted

Forward(c) ==
  /\ ServerOf(c) = "public"
  /\ Goto(c, {"handling"}, "upstream")
  /\ UNCHANGED accepted

OriginAnswers(c) == Goto(c, {"upstream"}, "sending") /\ UNCHANGED accepted

(* The timeout covers the wait for the response headers only. *)
TimeOut(c) == Goto(c, {"upstream"}, "sending") /\ UNCHANGED accepted

(* The body has been read to its end by the client. *)
Sent(c) ==
  /\ Goto(c, {"sending"}, IF server[ServerOf(c)] = "draining" THEN "closed" ELSE "idle")
  /\ UNCHANGED accepted

CloseIdle(c) ==
  /\ server[ServerOf(c)] = "draining"
  /\ Goto(c, {"idle"}, "closed")
  /\ UNCHANGED accepted

HangUp(c) == Goto(c, {"open", "idle"} \cup InHand, "closed") /\ UNCHANGED accepted

-----------------------------------------------------------------------------
Startup ==
  \/ Configure \/ Misconfigured
  \/ LoadStore \/ LoadFails
  \/ BindPublic \/ BindAdmin \/ BindFails

Shutdown ==
  \/ Watch \/ CannotWatch \/ Announce
  \/ \E s \in Server : Drain(s) \/ Stop(s)
  \/ Finish

Handle(c) == Answer(c) \/ Forward(c) \/ TimeOut(c) \/ CloseIdle(c)

World ==
  \/ Signal
  \/ \E c \in Conn : Connect(c) \/ Ask(c) \/ OriginAnswers(c) \/ Sent(c) \/ HangUp(c)

Next == Startup \/ Shutdown \/ World \/ \E c \in Conn : Handle(c)

Spec == Init /\ [][Next]_vars

(* The process runs on by itself.  Nothing is assumed of signals, clients, *)
(* the origin or the length of a body.                                     *)
Fairness ==
  /\ WF_vars(Startup)
  /\ WF_vars(Watch \/ CannotWatch)
  /\ WF_vars(Announce)
  /\ \A s \in Server : WF_vars(Drain(s)) /\ WF_vars(Stop(s))
  /\ WF_vars(Finish)
  /\ \A c \in Conn : WF_vars(Handle(c))

FairSpec == Spec /\ Fairness

-----------------------------------------------------------------------------
(* "Startup is all-or-nothing": a start that fails has served nobody, not  *)
(* even over the listener that was bound before the other failed.          *)
FailedStartServesNobody == exit = "failure" => ~accepted

(* A shutdown that reports success has answered every request in hand, on  *)
(* both listeners (with_graceful_shutdown, try_join!).                     *)
NoRequestCut == exit = "success" => cut = {}

(* What the process promises as a whole: it starts with both listeners or  *)
(* not at all (serve_until_shutdown_with_clock), a listener that its       *)
(* shutdown has closed takes no new client, and from the moment the first  *)
(* is closed the process ends only by answering everybody on both.         *)
Life == INSTANCE Process
  WITH Listener <- Server,
       Client   <- Conn,
       At       <- [c \in Conn |-> ServerOf(c)],
       stage    <- CASE phase = "serving" -> "running"
                     [] phase = "over"    -> "over"
                     [] OTHER             -> "starting",
       open     <- {s \in Server : server[s] = "accepting"},
       attached <- {c \in Conn : conn[c] # "closed"},
       inHand   <- {c \in Conn : conn[c] \in InHand},
       result   <- exit

ImplementsProcess == Life!Spec

(* A signal is enough: once the watcher has received it, the process ends, *)
(* however silent the origin, unless a client holds a connection for ever  *)
(* with half a request or a body that never ends: there is no deadline.    *)
ShutdownCompletes ==
  \/ \E c \in Conn : <>[](conn[c] \in {"open", "sending"})
  \/ (watcher = "signalled" ~> exit = "success")
=============================================================================
