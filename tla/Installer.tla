------------------------------ MODULE Installer ------------------------------
(***************************************************************************)
(* `motekarctl install apply`: preflight, the plan and the actions of      *)
(* FullInstaller (internal/installer), which bring up PostgreSQL, a web    *)
(* server, the schema (Migrations), the web server setting                 *)
(* (WebServerSetting), the systemd services and the first administrator    *)
(* (Bootstrap).  Several installations may run on one host at once, and    *)
(* one that failed may be started again; what they did to the host stays.  *)
(*                                                                         *)
(* All of them use the same database: the local one, or the same external  *)
(* one.  A database URL stands for the password in it, and a password for  *)
(* the number of the run that generated it.                                *)
(***************************************************************************)
EXTENDS Bootstrap, WebServerSetting, Preflight

CONSTANTS
    Installers,   \* installations that may run at once
    Hosts,        \* what the host may be, before anything is installed
    Options,      \* command lines: records of web, profile, sample, systemd, admin
    External,     \* the URL of the external database
    NoURL,        \* no database URL
    MaxRuns       \* bound: installations started

ASSUME InstallerAssumptions ==
    /\ Installers \subseteq Runners \cap Bootstraps \cap Selectors
    /\ External # NoURL
    /\ {External, NoURL} \cap Nat = {}
    /\ MaxRuns \in Nat
    /\ Hosts \subseteq HostRecords
    /\ Options # {}
    /\ \A o \in Options : {o.systemd, o.sample} \subseteq BOOLEAN

VARIABLES
    host,       \* what the host was before
    postgresql, \* the plan for PostgreSQL
    step,       \* per installation, the action Apply executes
    options,    \* per installation, its command line
    run,        \* per installation, the number of its run
    url,        \* per installation, FullInstaller.dbURL
    runs,       \* installations started
    packages,   \* web server packages installed
    server,     \* the one that listens on the web ports
    role,       \* the password of the PostgreSQL role, 0 without the role
    hasDatabase,\* whether the local database exists
    env,        \* the database URL in panel.env
    panel,      \* the database URL the panel service was started with
    answer      \* per installation, how its last run ended

hostVars == <<packages, server, role, hasDatabase, env, panel>>
runVars == <<step, options, run, url, runs, answer>>
installerVars == <<host, postgresql, runVars, hostVars>>
allVars == <<installerVars, vars, settingVars>>

Steps == {"off", "role", "database", "external", "webserver", "migrate", "migrating",
          "select", "selecting", "services", "start", "admin", "creating"}

NoServer == "none"

IInit ==
    /\ Init
    /\ SettingInit
    /\ host \in Hosts
    /\ postgresql \in PostgreSQLPlans
    /\ step = [i \in Installers |-> "off"]
    /\ options = [i \in Installers |-> CHOOSE o \in Options : TRUE]
    /\ run = [i \in Installers |-> 0]
    /\ url = [i \in Installers |-> NoURL]
    /\ runs = 0
    /\ packages = {}
    /\ server = NoServer
    /\ role = 0
    /\ hasDatabase = (postgresql = "external")
    /\ env = NoURL
    /\ panel = NoURL
    /\ answer = [i \in Installers |-> "none"]

GoTo(i, next) == step' = [step EXCEPT ![i] = next]

\* Apply stops with the error of the action.
StopRun(i, outcome) ==
    /\ GoTo(i, "off")
    /\ answer' = [answer EXCEPT ![i] = outcome]

-----------------------------------------------------------------------------
(* runInstallApply: the facts, the plan *)

\* The host as the collector finds it now.
HostNow ==
    [host EXCEPT !.listening = @ \cup IF server = NoServer THEN {} ELSE RequiredPorts]

Facts(o) == IF o.sample THEN Sample(o.profile, postgresql)
                        ELSE Collect(HostNow, o.profile, postgresql)

Admitted(o) == ParseWebServer(o.web) # Unset /\ Ready(Run(Facts(o)))

\* Without systemd only the setting is written, to a database that must be there.
FirstStep(o) ==
    IF ~o.systemd THEN "select"
    ELSE IF postgresql = "external" THEN "external" ELSE "role"

RunInstallApply(i, o) ==
    /\ step[i] = "off"
    /\ runs < MaxRuns
    /\ runs' = runs + 1
    /\ options' = [options EXCEPT ![i] = o]
    /\ run' = [run EXCEPT ![i] = runs + 1]
    /\ url' = [url EXCEPT ![i] = NoURL]
    /\ IF Admitted(o) /\ (o.systemd \/ hasDatabase)
       THEN GoTo(i, FirstStep(o)) /\ answer' = [answer EXCEPT ![i] = "none"]
       ELSE StopRun(i, "refused")
    /\ UNCHANGED <<host, postgresql, hostVars, vars, settingVars>>

-----------------------------------------------------------------------------
(* FullInstaller.Execute *)

\* Mutant: the role is created or altered.
CreateRoleReplaced(i) ==
    /\ step[i] = "role"
    /\ role' = run[i]
    /\ GoTo(i, "database")
    /\ UNCHANGED <<host, postgresql, options, run, url, runs, answer, packages, server,
                   hasDatabase, env, panel, vars, settingVars>>

\* Mutant: a role that exists is taken for the one this run needs.
CreateRoleAnyway(i) ==
    /\ step[i] = "role"
    /\ role' = IF role = 0 THEN run[i] ELSE role
    /\ GoTo(i, "database")
    /\ UNCHANGED <<host, postgresql, options, run, url, runs, answer, packages, server,
                   hasDatabase, env, panel, vars, settingVars>>

\* CREATE ROLE and CREATE DATABASE fail where there is one.
CreateRole(i) ==
    /\ step[i] = "role"
    /\ IF role = 0 THEN role' = run[i] /\ GoTo(i, "database") /\ UNCHANGED answer
                   ELSE UNCHANGED role /\ StopRun(i, "failed")
    /\ UNCHANGED <<host, postgresql, options, run, url, runs, packages, server,
                   hasDatabase, env, panel, vars, settingVars>>

CreateDatabase(i) ==
    /\ step[i] = "database"
    /\ IF hasDatabase
       THEN StopRun(i, "failed") /\ UNCHANGED <<url, hasDatabase>>
       ELSE /\ GoTo(i, "webserver")
            /\ hasDatabase' = TRUE
            /\ url' = [url EXCEPT ![i] = run[i]]
            /\ UNCHANGED answer
    /\ UNCHANGED <<host, postgresql, options, run, runs, packages, server, role, env,
                   panel, vars, settingVars>>

SetExternalDatabase(i) ==
    /\ step[i] = "external"
    /\ GoTo(i, "webserver")
    /\ url' = [url EXCEPT ![i] = External]
    /\ UNCHANGED <<host, postgresql, options, run, runs, answer, hostVars, vars,
                   settingVars>>

\* The option is compared as it was typed.
Package(o) == IF o.web = "apache" THEN "apache2" ELSE "nginx"

\* The service cannot start while the other web server has the ports.
InstallWebServer(i) ==
    /\ step[i] = "webserver"
    /\ packages' = packages \cup {Package(options[i])}
    /\ IF server \in {NoServer, Package(options[i])}
       THEN GoTo(i, "migrate") /\ server' = Package(options[i]) /\ UNCHANGED answer
       ELSE StopRun(i, "failed") /\ UNCHANGED server
    /\ UNCHANGED <<host, postgresql, options, run, url, runs, role, hasDatabase, env,
                   panel, vars, settingVars>>

\* Runner.Up on the opened database, and its answer.
RunMigrations(i) ==
    /\ step[i] = "migrate"
    /\ Up(i)
    /\ GoTo(i, "migrating")
    /\ UNCHANGED <<host, postgresql, options, run, url, runs, answer, hostVars, adminVars,
                   settingVars>>

\* Mutant: the error of Up is not looked at.
MigratedOrNot(i) ==
    /\ step[i] = "migrating"
    /\ pc[i] \in {"done", "failed"}
    /\ GoTo(i, "select")
    /\ UNCHANGED <<host, postgresql, options, run, url, runs, answer, hostVars, vars,
                   settingVars>>

Migrated(i) ==
    /\ step[i] = "migrating"
    /\ \/ pc[i] = "done" /\ GoTo(i, "select") /\ UNCHANGED answer
       \/ pc[i] = "failed" /\ StopRun(i, "failed")
    /\ UNCHANGED <<host, postgresql, options, run, url, runs, hostVars, vars, settingVars>>

\* Selecting in a database without the settings table fails.
SelectWebServer(i) ==
    /\ step[i] = "select"
    /\ IF CoreVersion \in applied
       THEN Select(i, options[i].web) /\ GoTo(i, "selecting") /\ UNCHANGED answer
       ELSE StopRun(i, "failed") /\ UNCHANGED settingVars
    /\ UNCHANGED <<host, postgresql, options, run, url, runs, hostVars, vars>>

WebServerSelected(i) ==
    /\ step[i] = "selecting"
    /\ \/ /\ selecting[i] = "selected"
          /\ IF options[i].systemd THEN GoTo(i, "services") /\ UNCHANGED answer
                                   ELSE StopRun(i, "installed")
       \/ selecting[i] \in {"refused", "failed"} /\ StopRun(i, "failed")
    /\ UNCHANGED <<host, postgresql, options, run, url, runs, hostVars, vars, settingVars>>

\* panel.env is written, with the unit files, before the services start.
WriteEnvironment(i) ==
    /\ step[i] = "services"
    /\ GoTo(i, "start")
    /\ env' = url[i]
    /\ UNCHANGED <<host, postgresql, options, run, url, runs, answer, packages, server,
                   role, hasDatabase, panel, vars, settingVars>>

\* `systemctl enable --now` does not restart a service that runs.
StartServices(i) ==
    /\ step[i] = "start"
    /\ panel' = IF panel = NoURL THEN env ELSE panel
    /\ IF options[i].admin = "none" THEN StopRun(i, "installed")
                                    ELSE GoTo(i, "admin") /\ UNCHANGED answer
    /\ UNCHANGED <<host, postgresql, options, run, url, runs, packages, server, role,
                   hasDatabase, env, vars, settingVars>>

\* An input CreateFirstAdmin does not accept is only found out here.
BootstrapAdmin(i) ==
    /\ step[i] = "admin"
    /\ IF options[i].admin = "valid"
       THEN CreateAdmin(i) /\ GoTo(i, "creating") /\ UNCHANGED answer
       ELSE StopRun(i, "failed") /\ UNCHANGED vars
    /\ UNCHANGED <<host, postgresql, options, run, url, runs, hostVars, settingVars>>

\* Mutant: the error of CreateAdmin is not looked at.
AdminCreatedOrNot(i) ==
    /\ step[i] = "creating"
    /\ stage[i] \in Ended
    /\ StopRun(i, "installed")
    /\ UNCHANGED <<host, postgresql, options, run, url, runs, hostVars, vars, settingVars>>

AdminCreated(i) ==
    /\ step[i] = "creating"
    /\ \/ stage[i] = "created" /\ StopRun(i, "installed")
       \/ stage[i] \in {"refused", "failed"} /\ StopRun(i, "failed")
    /\ UNCHANGED <<host, postgresql, options, run, url, runs, hostVars, vars, settingVars>>

-----------------------------------------------------------------------------
(* What goes wrong *)

\* A command fails, the 30 minutes are over or the process dies, while none of the
\* components is at work.
Interrupted(i) ==
    /\ step[i] \notin {"off", "migrating", "selecting", "creating"}
    /\ Fault
    /\ StopRun(i, "failed")
    /\ UNCHANGED <<host, postgresql, options, run, url, runs, hostVars, pc, release, pending,
                   applied, effects, adminVars, settingVars>>

\* The operator frees the web ports.
ServerStopped ==
    /\ server # NoServer
    /\ Fault
    /\ server' = NoServer
    /\ UNCHANGED <<host, postgresql, runVars, packages, role, hasDatabase, env, panel, pc,
                   release, pending, applied, effects, adminVars, settingVars>>

-----------------------------------------------------------------------------

\* The components, at work for an installation.
MigrationWork(i) ==
    /\ Proceed(i)
    /\ UNCHANGED <<installerVars, adminVars, settingVars>>

SettingWork(i) ==
    /\ SelectProceeds(i)
    /\ UNCHANGED <<installerVars, vars>>

AdminWork(i) ==
    /\ Lock(i) \/ Work(i)
    /\ UNCHANGED <<installerVars, settingVars>>

Disturbed(i) ==
    \/ /\ CommitLost(i) \/ Fail(i)
       /\ UNCHANGED <<installerVars, adminVars, settingVars>>
    \/ /\ CommitAdminLost(i) \/ Abort(i)
       /\ UNCHANGED <<installerVars, settingVars>>
    \/ /\ SelectDisturbed(i)
       /\ Fault
       /\ UNCHANGED <<installerVars, pc, release, pending, applied, effects, adminVars>>

\* What an installation does by itself once it runs.
Installs(i) ==
    \/ CreateRole(i)
    \/ CreateDatabase(i)
    \/ SetExternalDatabase(i)
    \/ InstallWebServer(i)
    \/ RunMigrations(i)
    \/ MigrationWork(i)
    \/ Migrated(i)
    \/ SelectWebServer(i)
    \/ SettingWork(i)
    \/ WebServerSelected(i)
    \/ WriteEnvironment(i)
    \/ StartServices(i)
    \/ BootstrapAdmin(i)
    \/ AdminWork(i)
    \/ AdminCreated(i)

INext ==
    \/ \E i \in Installers :
           \/ \E o \in Options : RunInstallApply(i, o)
           \/ Installs(i)
           \/ Interrupted(i)
           \/ Disturbed(i)
    \/ ServerStopped

ISpec == IInit /\ [][INext]_allVars

-----------------------------------------------------------------------------
(* Properties *)

\* Every variable keeps its type.
InstallerTypeOK ==
    /\ host \in Hosts
    /\ postgresql \in PostgreSQLPlans
    /\ step \in [Installers -> Steps]
    /\ options \in [Installers -> Options]
    /\ run \in [Installers -> Nat]
    /\ runs \in Nat
    /\ url \in [Installers -> Nat \cup {External, NoURL}]
    /\ role \in Nat
    /\ hasDatabase \in BOOLEAN
    /\ {env, panel} \subseteq Nat \cup {External, NoURL}
    /\ answer \in [Installers -> {"none", "refused", "failed", "installed"}]

\* The password in panel.env is the one the role of the local database has, however
\* many runs failed or raced before: no run replaces the role of an earlier one or
\* writes the URL of a database it has not created.
CredentialsAgree ==
    postgresql = "install" => /\ env \in {NoURL, role}
                              /\ panel \in {NoURL, role}
                              /\ env # NoURL => hasDatabase

\* The panel is only started on a database with all migrations and with a web
\* server selected.
PanelHasDatabase ==
    panel # NoURL => Versions \subseteq applied /\ setting # Unset

\* What "Motekar Panel installed." says is true: the package of the web server that
\* is recorded for good is installed, the panel was started on a complete database,
\* and there is an administrator if one was asked for.
InstalledMeansComplete ==
    \A i \in Installers :
        answer[i] = "installed" =>
            /\ setting = ParseWebServer(options[i].web)
            /\ options[i].systemd =>
                   /\ (IF setting = "apache" THEN "apache2" ELSE "nginx") \in packages
                   /\ panel # NoURL
                   /\ options[i].admin # "none" => AdminExists

\* A run that starts later, at the same time or with made-up facts changes nothing
\* of what the panel of a completed installation depends on.
InstalledStays ==
    [][panel # NoURL => UNCHANGED <<role, env, setting, panel>>]_allVars

\* Apart from --sample, a run gets past the preflight only on a host that fits its
\* profile in the host's own units, with the web ports free; and it does on every
\* such host.
PreflightSound ==
    [][\A i \in Installers :
          /\ run'[i] # run[i]
          /\ ~options'[i].sample
          /\ ParseWebServer(options'[i].web) # Unset
          /\ options'[i].systemd
          => (step'[i] # "off") = Fits(HostNow, options'[i].profile)]_allVars

\* Of the runs that race one at most is past the setting, and none gets there beside a
\* run that has installed the panel: the immutable setting is what keeps a second one
\* from writing panel.env and creating the administrator.  A run that failed past it is
\* not counted any more.
Serving(i) ==
    \/ step[i] \in {"services", "start", "admin", "creating"}
    \/ step[i] = "off" /\ answer[i] = "installed"

OneRunServes == \A i, j \in Installers : Serving(i) /\ Serving(j) => i = j

=============================================================================
