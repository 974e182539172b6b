------------------------------- MODULE Startup -------------------------------
(***************************************************************************)
(* Startup of the jetstream server (src/jetstream/main.go, main and        *)
(* initConnPool): the initialisation steps main takes in order, each of    *)
(* which may end the process with log.Fatal, and the loop that waits for   *)
(* the database.  The loop computes its timeout boundary at the top of     *)
(* every iteration, pings the database, gives up when the boundary is      *)
(* behind the clock, and otherwise sleeps a second and starts over.        *)
(* Before that, while an upgrade lock file is present, main serves an     *)
(* upgrade web server until a poller sees the lock removed.  Once the      *)
(* proxy exists a signal handler may end the process at any time.          *)
(* Durations are in seconds; what the database answers, the lock file and *)
(* signals are the environment's choice.                                   *)
(***************************************************************************)
EXTENDS Integers

CONSTANTS
    TimeoutBoundary,  \* TimeoutBoundary minutes, in seconds
    PingTimes         \* how long one datastore.Ping may take, in seconds

ASSUME TimeoutBoundary \in Nat /\ PingTimes \subseteq Nat

VARIABLES
    phase,   \* where main is
    left,    \* timeout.Sub(time.Now()) inside initConnPool
    lock     \* is the upgrade lock file present?

vars == <<phase, left, lock>>

Phases == {"config", "upgradecheck", "upgrade", "upgradewait", "keys",
           "connect", "loop", "ping", "check", "migrate", "session",
           "console", "plugins", "start", "serving", "exited"}

\* The least value left can take: a boundary minus the longest ping.
MinLeft == TimeoutBoundary - 1 - (IF PingTimes = {} THEN 0
                                  ELSE CHOOSE d \in PingTimes :
                                           \A e \in PingTimes : e <= d)

TypeOK ==
    /\ phase \in Phases /\ left \in MinLeft..TimeoutBoundary /\ lock \in BOOLEAN

Init == phase = "config" /\ left = TimeoutBoundary /\ lock \in BOOLEAN

\* log.Fatal: the process exits.
Fatal == phase' = "exited" /\ UNCHANGED <<left, lock>>

\* An initialisation step that succeeds or ends the process.
Step(from, to) ==
    /\ phase = from
    /\ \/ phase' = to /\ UNCHANGED <<left, lock>>
       \/ Fatal

\* loadPortalConfig, fatal on error.  The migrator mode (main returns) is
\* left out.
LoadConfig == Step("config", "upgradecheck")

\* isConsoleUpgrading: the lock file named by the environment exists.
isConsoleUpgrading ==
    /\ phase = "upgradecheck"
    /\ phase' = IF lock THEN "upgrade" ELSE "keys"
    /\ UNCHANGED <<left, lock>>

(* start(..., isUpgrade = TRUE): the upgrade server is started with the   *)
(* poller stopEchoWhenUpgraded beside it.  When the server cannot start    *)
(* (no TLS certificate, the port taken) start only logs and returns, and   *)
(* main goes on with the lock still present.                               *)
StartUpgradeServer ==
    /\ phase = "upgrade"
    /\ phase' \in {"upgradewait", "keys"}
    /\ UNCHANGED <<left, lock>>

\* stopEchoWhenUpgraded: once the lock is gone the server is closed and
\* start returns to main.
stopEchoWhenUpgraded ==
    /\ phase = "upgradewait" /\ ~lock
    /\ phase' = "keys"
    /\ UNCHANGED <<left, lock>>

\* initializeHTTPClients, getEncryptionKey and loadDatabaseConfig, each
\* fatal on error.
LoadKeys == Step("keys", "connect")

\* initConnPool: datastore.GetConnection, whose error is fatal in main.
GetConnection == Step("connect", "loop")

\* The top of the loop: timeout := time.Now().Add(time.Minute * TimeoutBoundary).
LoopTop ==
    /\ phase = "loop"
    /\ phase' = "ping" /\ left' = TimeoutBoundary
    /\ UNCHANGED lock

\* datastore.Ping takes some time; on success the loop breaks.
Ping ==
    /\ phase = "ping"
    /\ \E d \in PingTimes :
          /\ left' = left - d
          /\ \/ phase' = "migrate"
             \/ phase' = "check"
    /\ UNCHANGED lock

(* If the boundary is behind the clock initConnPool returns an error and  *)
(* main exits; otherwise time.Sleep(time.Second) and circle back.          *)
CheckBoundary ==
    /\ phase = "check"
    /\ IF left < 0
       THEN Fatal
       ELSE phase' = "loop" /\ left' = left - 1 /\ UNCHANGED lock

\* datastore.WaitForMigrations, fatal on error.
WaitForMigrations == Step("migrate", "session")

\* The config plugins, the session secret and initSessionStore (fatal).
InitSessionStore == Step("session", "console")

\* initialiseConsoleConfiguration: on error main logs and returns.
InitConsoleConfig == Step("console", "plugins")

\* loadPlugins and each plugin's Init, a failing plugin being disabled.
InitPlugins ==
    phase = "plugins" /\ phase' = "start" /\ UNCHANGED <<left, lock>>

\* start: echo serves until it fails, which is fatal.
Start == Step("start", "serving")

(* The goroutine registered with signal.Notify once the proxy exists:     *)
(* on SIGINT or SIGTERM it runs cleanup (closes the pool and the session   *)
(* store) and calls os.Exit(1), whatever main is doing.                    *)
Terminate ==
    /\ phase \in {"console", "plugins", "start", "serving"}
    /\ phase' = "exited"
    /\ UNCHANGED <<left, lock>>

\* The upgrading container finishes and removes the lock file.
RemoveLock == lock /\ lock' = FALSE /\ UNCHANGED <<phase, left>>

\* The steps of main's own goroutine and of the upgrade poller.
Main ==
    \/ LoadConfig \/ isConsoleUpgrading \/ StartUpgradeServer
    \/ stopEchoWhenUpgraded \/ LoadKeys \/ GetConnection
    \/ LoopTop \/ Ping \/ CheckBoundary
    \/ WaitForMigrations \/ InitSessionStore \/ InitConsoleConfig
    \/ InitPlugins \/ Start

Next == Main \/ Terminate \/ RemoveLock

(* main runs in one goroutine that is always scheduled: each of its steps *)
(* that is enabled is eventually taken.  What the database answers, when  *)
(* the lock file goes and whether a signal comes are not constrained.      *)
Spec == Init /\ [][Next]_vars /\ WF_vars(Main)

-----------------------------------------------------------------------------
(* main.go:45: TimeoutBoundary is "the amount of time we'll wait for the   *)
(* database server to come online before we bail out".  Startup therefore  *)
(* ends: the server serves, or the process has exited, even when the       *)
(* database never answers a ping.                                          *)
StartupEnds == <>(phase \in {"serving", "exited"})

(* main.go:140-156: while the lock file says another container is still   *)
(* upgrading the database, main holds back behind the upgrade server and   *)
(* touches the database only after stopEchoWhenUpgraded has seen the lock  *)
(* removed.  So no database phase is reached while the lock is present.    *)
NoDatabaseDuringUpgrade ==
    [](phase \in {"connect", "loop", "ping", "check", "migrate"} => ~lock)

=============================================================================
