---------------------------- MODULE InstallerProofs ----------------------------
(***************************************************************************)
(* Proofs about Installer, for any installations at once and in a row, any *)
(* hosts and command lines and any number of faults.  What is proved of    *)
(* the runners and the bootstraps is taken from their own modules.         *)
(***************************************************************************)
EXTENDS Installer, BootstrapProofs

-----------------------------------------------------------------------------
(* The inductive invariant of the setting *)

\* Whoever has saved the setting is the only one ever, and nothing is recorded before
\* it records; a change is denied only where there is a setting.
SettingInv ==
    /\ SettingTypeOK
    /\ SettingTruthful
    /\ \A s \in Selectors :
           /\ selecting[s] \notin {"off", "refused", "failed"} => choice[s] # Unset
           /\ selecting[s] \in {"deny", "conflict"} => setting # Unset
           /\ selecting[s] = "record" => \A v \in WebServers : selected[v] = 0
    /\ \A s, t \in Selectors :
           {selecting[s], selecting[t]} \subseteq {"record", "selected"} => s = t

-----------------------------------------------------------------------------
(* The inductive invariant of the installer *)

\* All installations are of one release.
OneRelease == \A R \in Releases : R = Versions

\* The command lines spell the web server as installWebServer compares it.
ExactSpelling == \A o \in Options : ParseWebServer(o.web) \in {o.web, Unset}

DatabaseURL == IF postgresql = "install" THEN role ELSE External

DatabaseReady == hasDatabase /\ (postgresql = "install" => role # 0)

\* panel.env has the URL of the one database; the panel runs with what is in it.
HostSound ==
    /\ postgresql = "external" => hasDatabase
    /\ panel \in {NoURL, env}
    /\ env # NoURL => env = DatabaseURL /\ DatabaseReady
    /\ panel # NoURL => setting # Unset /\ (OneRelease => Versions \subseteq applied)

\* A run has what its steps so far have brought about.  It gets to its database only
\* by having created it, or by being given one.
RunSound(i) ==
    /\ step[i] # "off" => run[i] > 0
    /\ step[i] \notin {"off", "select", "selecting"} => options[i].systemd
    /\ step[i] \in {"role", "database"} => postgresql = "install"
    /\ step[i] = "external" => postgresql = "external"
    /\ step[i] = "database" => role = run[i]
    /\ step[i] \notin {"off", "role", "database", "external"} /\ options[i].systemd
           => url[i] = DatabaseURL /\ DatabaseReady
    /\ OneRelease /\ options[i].systemd
           /\ step[i] \in {"select", "selecting", "services", "start"}
           => Versions \subseteq applied
    /\ step[i] = "selecting" => choice[i] = ParseWebServer(options[i].web)
    /\ step[i] \in {"start", "admin", "creating"} => env # NoURL
    /\ step[i] \in {"admin", "creating"} => panel # NoURL

\* And a run that has the web server recorded keeps what it promises.
ServingSound(i) ==
    /\ Serving(i) => /\ selecting[i] = "selected"
                     /\ choice[i] = ParseWebServer(options[i].web)
    /\ answer[i] = "installed" => /\ step[i] = "off"
                                  /\ options[i].systemd =>
                                         /\ panel # NoURL
                                         /\ options[i].admin # "none" => AdminExists
    /\ /\ options[i].systemd
       /\ \/ step[i] \notin {"off", "role", "database", "external", "webserver"}
          \/ answer[i] = "installed"
       => Package(options[i]) \in packages

ComponentInv ==
    /\ MigrationInv
    /\ BootstrapInv
    /\ SettingInv
    /\ \A r \in Runners : pc[r] # "idle" => release[r] \in Releases

InstallerInv ==
    /\ InstallerTypeOK
    /\ ComponentInv
    /\ HostSound
    /\ \A i \in Installers : RunSound(i) /\ ServingSound(i)

-----------------------------------------------------------------------------

(* Preflight *)

\* KbToMB rounds down, which is what comparing with a minimum in MB wants.
LEMMA RoundedDown ==
    ASSUME NEW kb \in Int, NEW least \in Nat
    PROVE  (KbToMB(kb) >= least) <=> (kb >= 1024 * least \/ least = 0)
<1>1. CASE kb <= 0
  BY <1>1 DEF KbToMB
<1>2. CASE kb > 0
  <2>1. KbToMB(kb) = kb \div 1024
    BY <1>2 DEF KbToMB
  <2>2. (kb \div 1024 >= least) <=> (kb >= 1024 * least)
    BY <1>2
  <2> QED
    BY <1>2, <2>1, <2>2
<1> QED
  BY <1>1, <1>2

\* Of the lines with a key one is the last.
LEMMA LastExists ==
    ASSUME NEW n \in Nat, NEW S \in SUBSET (1..n), S # {}
    PROVE  \E m \in S : /\ \A k \in S : k <= m
                        /\ \A x \in S : (\A k \in S : k <= x) => x = m
<1> DEFINE R == {n - m : m \in S}
<1>1. R \in SUBSET Nat /\ R # {}
  <2>1. \A m \in S : m \in Nat /\ n - m \in Nat
    OBVIOUS
  <2>2. PICK m \in S : TRUE
    OBVIOUS
  <2> QED
    BY <2>1, <2>2
<1>2. PICK v \in R : \A w \in R : v <= w
  <2> HIDE DEF R
  <2> QED
    BY <1>1, LeastExists
<1>3. PICK m \in S : v = n - m
  BY <1>2
<1>4. \A k \in S : n - k \in R /\ n - m <= n - k
  BY <1>2, <1>3
<1>5. \A k \in S : k <= m
  BY <1>4
<1>6. \A x \in S : m <= x => x = m
  BY <1>5
<1> QED
  BY <1>5, <1>6

LEMMA PairElements == ASSUME NEW a, NEW b PROVE <<a, b>>[1] = a /\ <<a, b>>[2] = b
  OBVIOUS

LEMMA PairIsElements == ASSUME NEW S, NEW p \in S \X S PROVE p = <<p[1], p[2]>>
  OBVIOUS

LEMMA SequenceElements ==
    ASSUME NEW T, NEW seq \in Seq(T)
    PROVE  /\ DOMAIN seq = 1..Len(seq) /\ Len(seq) \in Nat
           /\ \A n \in DOMAIN seq : seq[n] \in T
  OBVIOUS

\* The value osdetect finds is the one of the last line of the key.
LEMMA ReleaseValueIsLast ==
    ASSUME NEW lines, NEW len \in Nat, DOMAIN lines = 1..len,
           \A n \in DOMAIN lines : lines[n] = <<lines[n][1], lines[n][2]>>,
           NEW key, NEW value, value # ""
    PROVE  (ReleaseValue(lines, key) = value) <=> LastLine(lines, <<key, value>>)
<1> DEFINE at == {n \in DOMAIN lines : lines[n][1] = key}
<1>1. LastLine(lines, <<key, value>>) <=>
          \E n \in at : lines[n][2] = value /\ \A k \in at : k <= n
  <2> DEFINE line == <<key, value>>
  <2>1. line[1] = key /\ line[2] = value
    BY PairElements
  <2>2. \A n \in DOMAIN lines : lines[n] = line <=> lines[n][1] = key /\ lines[n][2] = value
    BY <2>1
  <2> HIDE DEF line
  <2>3. LastLine(lines, line) <=>
            \E n \in at : lines[n][2] = value /\ \A k \in at : k <= n
    BY <2>1, <2>2 DEF LastLine
  <2> QED
    BY <2>3 DEF line
<1> HIDE DEF at
<1>2. at \in SUBSET (1..len)
  BY DEF at
<1>3. ReleaseValue(lines, key) =
          IF at = {} THEN "" ELSE lines[CHOOSE n \in at : \A k \in at : k <= n][2]
  BY DEF ReleaseValue, at
<1>4. CASE at = {}
  BY <1>1, <1>3, <1>4
<1>5. CASE at # {}
  <2>1. PICK m \in at : /\ \A k \in at : k <= m
                        /\ \A n \in at : (\A k \in at : k <= n) => n = m
    BY <1>2, <1>5, LastExists
  <2>2. (CHOOSE n \in at : \A k \in at : k <= n) = m
    BY <2>1
  <2>3. ReleaseValue(lines, key) = lines[m][2]
    BY <1>3, <1>5, <2>2
  <2> QED
    BY <1>1, <2>1, <2>3
<1> QED
  BY <1>4, <1>5

\* The checks on the collected facts are those on the host itself.
LEMMA ReadyMeansFits ==
    ASSUME NEW h \in HostRecords, NEW profile, NEW plan \in PostgreSQLPlans
    PROVE  Ready(Run(Collect(h, profile, plan))) <=> Fits(h, profile)
<1> DEFINE facts == Collect(h, profile, plan)
           least == MinimumOf(profile)
<1>1. /\ least.cpu \in Nat /\ least.memory \in Nat \ {0} /\ least.disk \in Nat
      /\ least.swap \in Nat \ {0}
  BY DEF MinimumOf
<1>2. /\ h.release \in Seq(STRING \X STRING) /\ h.cpus \in Nat /\ h.memoryKB \in Int
      /\ h.diskMB \in Nat /\ h.swapKB \in Int /\ {h.root, h.systemdDir} \subseteq BOOLEAN
  BY DEF HostRecords
<1>3. Ready(Run(facts)) <=>
          /\ CheckSupport(ParseOSRelease(h.release))
          /\ h.cpus >= least.cpu
          /\ KbToMB(h.memoryKB) >= least.memory
          /\ h.diskMB \div 1024 >= least.disk
          /\ KbToMB(h.swapKB) >= least.swap
          /\ h.root
          /\ HasSystemd(h)
          /\ \A port \in RequiredPorts : port \notin h.listening
  <2>1. \A got, recommended :
            Advised(facts.profile, got, least.memory, recommended) # "FAIL"
                <=> got >= least.memory
    BY DEF Advised, AtLeast, Status
  <2>2. \A got, recommended :
            Advised(facts.profile, got, least.swap, recommended) # "FAIL"
                <=> got >= least.swap
    BY DEF Advised, AtLeast, Status
  <2>3. facts.profile = profile /\ facts.plan \in PostgreSQLPlans
    BY DEF Collect
  <2>4. Ready(Run(facts)) <=>
            /\ CheckSupport(facts.os)
            /\ facts.cpu >= least.cpu
            /\ facts.memory >= least.memory
            /\ facts.disk >= least.disk
            /\ facts.swap >= least.swap
            /\ facts.root
            /\ facts.systemd
            /\ \A port \in DOMAIN facts.free : facts.free[port]
    <3> HIDE DEF facts
    <3> DEFINE report == Run(facts)
    <3>1. /\ DOMAIN report = {"os", "cpu", "memory", "disk", "swap", "root", "systemd",
                              "postgresql", "ports"}
          /\ report.os = Status(CheckSupport(facts.os))
          /\ report.cpu = AtLeast(facts.cpu, least.cpu)
          /\ report.memory = Advised(facts.profile, facts.memory, least.memory,
                                     RecommendedSingleUser.memory)
          /\ report.disk = AtLeast(facts.disk, least.disk)
          /\ report.swap = Advised(facts.profile, facts.swap, least.swap,
                                   RecommendedSingleUser.swap)
          /\ report.root = Status(facts.root)
          /\ report.systemd = Status(facts.systemd)
          /\ report.postgresql = Status(facts.plan \in PostgreSQLPlans)
          /\ report.ports = Status(\A port \in DOMAIN facts.free : facts.free[port])
      BY <2>3 DEF Run
    <3> HIDE DEF report
    <3>2. /\ report.memory # "FAIL" <=> facts.memory >= least.memory
          /\ report.swap # "FAIL" <=> facts.swap >= least.swap
      BY <2>1, <2>2, <3>1, Zenon
    <3>3. /\ report.os # "FAIL" <=> CheckSupport(facts.os)
          /\ report.cpu # "FAIL" <=> facts.cpu >= least.cpu
          /\ report.disk # "FAIL" <=> facts.disk >= least.disk
          /\ report.root # "FAIL" <=> facts.root
          /\ report.systemd # "FAIL" <=> facts.systemd
          /\ report.postgresql # "FAIL"
          /\ report.ports # "FAIL" <=> \A port \in DOMAIN facts.free : facts.free[port]
      <4> HIDE DEF least
      <4> QED
        BY <2>3, <3>1 DEF AtLeast, Status
    <3>4. Ready(report) <=> \A check \in DOMAIN report : report[check] # "FAIL"
      BY DEF Ready
    <3> QED
      BY <3>1, <3>2, <3>3, <3>4 DEF report
  <2>5. /\ facts.os = ParseOSRelease(h.release)
        /\ facts.cpu = h.cpus
        /\ facts.memory = KbToMB(h.memoryKB)
        /\ facts.disk = h.diskMB \div 1024
        /\ facts.swap = KbToMB(h.swapKB)
        /\ facts.root = h.root
        /\ facts.systemd = HasSystemd(h)
        /\ facts.free = [port \in RequiredPorts |-> port \notin h.listening]
    BY DEF Collect
  <2> HIDE DEF facts, least
  <2>6. (\A port \in DOMAIN facts.free : facts.free[port])
            <=> \A port \in RequiredPorts : port \notin h.listening
    BY <2>5
  <2> QED
    BY <2>4, <2>5, <2>6
<1>4. CheckSupport(ParseOSRelease(h.release)) <=>
          /\ LastLine(h.release, <<"ID", "ubuntu">>)
          /\ LastLine(h.release, <<"VERSION_ID", "24.04">>)
  <2>1. /\ ReleaseValue(h.release, "ID") = "ubuntu"
            <=> LastLine(h.release, <<"ID", "ubuntu">>)
        /\ ReleaseValue(h.release, "VERSION_ID") = "24.04"
            <=> LastLine(h.release, <<"VERSION_ID", "24.04">>)
    <3>1. /\ Len(h.release) \in Nat /\ DOMAIN h.release = 1..Len(h.release)
          /\ \A n \in DOMAIN h.release : h.release[n] \in STRING \X STRING
      BY <1>2, SequenceElements
    <3>2. \A n \in DOMAIN h.release :
              h.release[n] = <<h.release[n][1], h.release[n][2]>>
      BY <3>1, PairIsElements
    <3> QED
      BY <3>1, <3>2, ReleaseValueIsLast
  <2> QED
    BY <2>1 DEF CheckSupport, ParseOSRelease
<1>5. /\ (KbToMB(h.memoryKB) >= least.memory) <=> (h.memoryKB >= 1024 * least.memory)
      /\ (KbToMB(h.swapKB) >= least.swap) <=> (h.swapKB >= 1024 * least.swap)
  BY <1>1, <1>2, RoundedDown
<1>6. (h.diskMB \div 1024 >= least.disk) <=> (h.diskMB >= 1024 * least.disk)
  BY <1>1, <1>2
<1>7. (\A port \in RequiredPorts : port \notin h.listening)
          <=> RequiredPorts \cap h.listening = {}
  OBVIOUS
<1> QED
  BY <1>3, <1>4, <1>5, <1>6, <1>7 DEF Fits, HasSystemd

-----------------------------------------------------------------------------
(* The web server setting *)

LEMMA InitSettingInv == SettingInit => SettingInv
  BY UnsetAssumption
  DEF SettingInit, SettingInv, SettingTypeOK, SettingTruthful, WebServers, Selections

LEMMA ParsedIsWebServer == \A value : ParseWebServer(value) \in WebServers \cup {Unset}
  BY DEF ParseWebServer, WebServers

\* A step of s that does not write the setting keeps the invariant if it keeps what the
\* invariant says of s.
LEMMA UnsavedPreserves ==
    ASSUME SettingInv, NEW s \in Selectors, UNCHANGED <<setting, selected>>,
           NEW v \in WebServers \cup {Unset}, choice' = [choice EXCEPT ![s] = v],
           NEW p \in Selections, selecting' = [selecting EXCEPT ![s] = p],
           denied' # denied => setting # Unset,
           \A d \in denied' \ denied : d.current \in {setting, Unset},
           p \notin {"off", "refused", "failed"} => v # Unset,
           p \in {"deny", "conflict"} => setting # Unset,
           p \notin {"record", "selected"}
    PROVE  SettingInv'
<1> USE DEF SettingInv, SettingTypeOK
<1>1. SettingTypeOK'
  OBVIOUS
<1>2. SettingTruthful'
  BY DEF SettingTruthful
<1>3. \A t \in Selectors :
          t # s => selecting'[t] = selecting[t] /\ choice'[t] = choice[t]
  OBVIOUS
<1>4. selecting'[s] = p /\ choice'[s] = v
  OBVIOUS
<1> QED
  BY <1>1, <1>2, <1>3, <1>4

\* Save is the only writer, and writes once.
LEMMA SavePreserves ==
    ASSUME SettingInv, NEW s \in Selectors, selecting[s] = "save",
           NEW p \in Selections, selecting' = [selecting EXCEPT ![s] = p],
           UNCHANGED <<selected, denied, choice>>,
           \/ setting = Unset /\ setting' = choice[s] /\ p \in {"record", "failed"}
           \/ setting # Unset /\ setting' = setting /\ p \in {"conflict", "failed"}
    PROVE  SettingInv' /\ (setting # Unset => setting' = setting)
<1> USE DEF SettingInv, SettingTypeOK
<1>1. choice[s] \in WebServers /\ choice[s] # Unset
  BY UnsetAssumption DEF WebServers
<1>2. CASE setting # Unset
  <2>1. choice' = [choice EXCEPT ![s] = choice[s]]
    OBVIOUS
  <2> QED
    BY <1>1, <1>2, <2>1, UnsavedPreserves
<1>3. CASE setting = Unset
  <2>1. \A v \in WebServers : selected[v] = 0
    BY <1>3, UnsetAssumption DEF SettingTruthful, WebServers
  <2>2. \A t \in Selectors : selecting[t] \notin {"record", "selected"}
    BY <1>3, UnsetAssumption DEF SettingTruthful, WebServers
  <2>3. SettingTypeOK'
    BY <1>1, <1>3
  <2>4. selecting'[s] = p /\ \A t \in Selectors : t # s => selecting'[t] = selecting[t]
    OBVIOUS
  <2>5. SettingTruthful'
    BY <1>1, <1>3, <2>1, <2>2, <2>4 DEF SettingTruthful
  <2> QED
    BY <1>1, <1>3, <2>1, <2>2, <2>3, <2>4, <2>5
<1> QED
  BY <1>2, <1>3

LEMMA RecordSelectedPreserves ==
    ASSUME SettingInv, NEW s \in Selectors, NEW recorded \in BOOLEAN,
           RecordSelected(s, recorded)
    PROVE  SettingInv'
<1> USE DEF SettingInv, SettingTypeOK, RecordSelected, SelectTo
<1>1. setting = choice[s] /\ choice[s] # Unset /\ choice[s] \in WebServers
  BY UnsetAssumption DEF SettingTruthful, WebServers
<1>2. \A t \in Selectors : t # s => selecting[t] \notin {"record", "selected"}
  OBVIOUS
<1>3. selecting'[s] = "selected" /\ \A t \in Selectors : t # s => selecting'[t] = selecting[t]
  OBVIOUS
<1>4. \A v \in WebServers : selected[v] = 0
  OBVIOUS
<1>5. selected' \in [WebServers -> Nat]
  BY <1>1, <1>4
<1>6. \A v \in WebServers : selected'[v] > 0 => v = choice[s] /\ selected'[v] = 1
  BY <1>1, <1>4
<1>7. SettingTypeOK'
  BY <1>5 DEF Selections
<1>8. SettingTruthful'
  BY <1>1, <1>2, <1>3, <1>6 DEF SettingTruthful
<1> QED
  BY <1>1, <1>2, <1>3, <1>7, <1>8

LEMMA SelectPreserves ==
    ASSUME SettingInv, NEW s \in Selectors, NEW value, Select(s, value)
    PROVE  SettingInv' /\ setting' = setting
<1>1. ParseWebServer(value) \in WebServers \cup {Unset}
  BY ParsedIsWebServer
<1>2. PICK p \in {"failed", "get"} :
          /\ selecting' = [selecting EXCEPT ![s] = p]
          /\ p = "get" => ParseWebServer(value) # Unset
  BY DEF Select, SelectTo
<1>3. /\ choice' = [choice EXCEPT ![s] = ParseWebServer(value)]
      /\ UNCHANGED <<setting, selected, denied>>
  BY DEF Select
<1> QED
  BY <1>1, <1>2, <1>3, UnsavedPreserves DEF Selections

\* What Select does, and what goes wrong with it, preserves the invariant and a setting
\* that is there.
LEMMA SettingStepPreserves ==
    ASSUME SettingInv, NEW s \in Selectors, SelectProceeds(s) \/ SelectDisturbed(s)
    PROVE  /\ SettingInv'
           /\ setting # Unset => setting' = setting
           /\ UNCHANGED choice
           /\ \A t \in Selectors : selecting[t] = "selected" => selecting'[t] = "selected"
<1> USE DEF Selections
<1>1. /\ choice = [choice EXCEPT ![s] = choice[s]] /\ choice[s] \in WebServers \cup {Unset}
      /\ selecting \in [Selectors -> Selections]
      /\ selecting[s] \in {"get", "save", "deny", "conflict", "record"} => choice[s] # Unset
  BY DEF SettingInv, SettingTypeOK
<1>2. CASE Get(s)
  <2>1. PICK p \in {"save", "deny"} :
          /\ selecting' = [selecting EXCEPT ![s] = p]
          /\ p = "deny" => setting # Unset
    BY <1>2 DEF Get, SelectTo
  <2>2. SettingInv'
    BY <1>1, <1>2, <2>1, UnsavedPreserves DEF Get
  <2> QED
    BY <1>1, <1>2, <2>1, <2>2 DEF Get
<1>3. CASE Save(s) \/ SaveLost(s)
  <2>1. PICK p \in {"record", "conflict", "failed"} :
            /\ selecting' = [selecting EXCEPT ![s] = p]
            /\ \/ setting = Unset /\ setting' = choice[s] /\ p \in {"record", "failed"}
               \/ setting # Unset /\ setting' = setting /\ p \in {"conflict", "failed"}
    BY <1>3 DEF Save, SaveLost, SelectTo
  <2>2. selecting[s] = "save" /\ UNCHANGED <<selected, denied, choice>>
    BY <1>3 DEF Save, SaveLost
  <2>3. SettingInv' /\ (setting # Unset => setting' = setting)
    BY <2>1, <2>2, SavePreserves
  <2> QED
    BY <1>1, <2>1, <2>2, <2>3
<1>4. ASSUME NEW recorded \in BOOLEAN, RecordSelected(s, recorded)
      PROVE  SettingInv' /\ UNCHANGED <<setting, choice>>
                         /\ selecting' = [selecting EXCEPT ![s] = "selected"]
  BY <1>4, RecordSelectedPreserves DEF RecordSelected, SelectTo
<1>5. ASSUME NEW recorded \in BOOLEAN, RecordChangeDenied(s, recorded)
      PROVE  SettingInv' /\ UNCHANGED <<setting, choice>> /\ selecting[s] # "selected"
                         /\ selecting' = [selecting EXCEPT ![s] = "refused"]
  <2>1. /\ UNCHANGED <<setting, selected, choice>>
        /\ selecting' = [selecting EXCEPT ![s] = "refused"]
        /\ selecting[s] \in {"deny", "conflict"}
    BY <1>5 DEF RecordChangeDenied, SelectTo
  <2>2. setting # Unset
    BY <2>1 DEF SettingInv
  <2>3. \A d \in denied' \ denied : d.current \in {setting, Unset}
    BY <1>5 DEF RecordChangeDenied
  <2> QED
    BY <1>1, <2>1, <2>2, <2>3, UnsavedPreserves
<1>6. CASE SelectFails(s)
  <2>1. SettingInv'
    BY <1>1, <1>6, UnsavedPreserves DEF SelectFails, SelectTo
  <2> QED
    BY <1>1, <1>6, <2>1 DEF SelectFails, SelectTo
<1>7. CASE \E recorded \in BOOLEAN : RecordSelected(s, recorded)
  BY <1>1, <1>4, <1>7
<1>8. CASE \E recorded \in BOOLEAN : RecordChangeDenied(s, recorded)
  BY <1>1, <1>5, <1>8
<1> QED
  BY <1>2, <1>3, <1>6, <1>7, <1>8 DEF SelectProceeds, SelectDisturbed

-----------------------------------------------------------------------------
(* What no step undoes *)

\* What is once there of a database, its URL, the panel, the setting, the schema, the
\* packages and the administrator stays.
HostGrows ==
    /\ UNCHANGED postgresql
    /\ (role # 0 \/ postgresql = "external") => role' = role
    /\ hasDatabase => hasDatabase'
    /\ env # NoURL => env' = env
    /\ panel # NoURL => panel' = panel
    /\ setting # Unset => setting' = setting
    /\ applied \subseteq applied'
    /\ packages \subseteq packages'
    /\ AdminExists => AdminExists'

\* Nothing happens to i, but perhaps to a Select of it that has not ended.
Untouched(i) ==
    /\ step'[i] = step[i]
    /\ options'[i] = options[i]
    /\ run'[i] = run[i]
    /\ url'[i] = url[i]
    /\ answer'[i] = answer[i]
    /\ choice'[i] = choice[i]
    /\ selecting[i] = "selected" => selecting'[i] = "selected"

LEMMA InstallerConstants ==
    /\ External # NoURL
    /\ External \notin Nat
    /\ NoURL \notin Nat
    /\ \A i \in Installers : i \in Runners /\ i \in Bootstraps /\ i \in Selectors
    /\ \A o \in Options : o.systemd \in BOOLEAN /\ o.sample \in BOOLEAN
  BY InstallerAssumptions

LEMMA UntouchedKept ==
    ASSUME InstallerInv, HostGrows, NEW i \in Installers, Untouched(i)
    PROVE  RunSound(i)' /\ ServingSound(i)'
<1>1. RunSound(i) /\ ServingSound(i)
  BY DEF InstallerInv
<1>2. postgresql \in PostgreSQLPlans /\ role \in Nat /\ UNCHANGED postgresql
  BY DEF InstallerInv, InstallerTypeOK, HostGrows
<1>3. DatabaseReady => DatabaseReady' /\ DatabaseURL' = DatabaseURL
  BY <1>2 DEF HostGrows, DatabaseReady, DatabaseURL, PostgreSQLPlans
<1>4. step[i] = "database" => role' = role
  BY <1>1 DEF HostGrows, RunSound
<1>5. RunSound(i)'
  BY <1>1, <1>2, <1>3, <1>4 DEF RunSound, Untouched, HostGrows
<1>6. Serving(i)' = Serving(i)
  BY DEF Serving, Untouched
<1>7. ServingSound(i)'
  BY <1>1, <1>6 DEF ServingSound, Untouched, HostGrows
<1> QED
  BY <1>5, <1>7

\* A step of an installation keeps the invariant if it keeps what concerns it.
LEMMA StepPreserves ==
    ASSUME InstallerInv, NEW i \in Installers, InstallerTypeOK', ComponentInv', HostGrows,
           HostSound', RunSound(i)', ServingSound(i)',
           \A j \in Installers : j # i => Untouched(j)
    PROVE  InstallerInv' /\ HostGrows
<1>1. \A j \in Installers : RunSound(j)' /\ ServingSound(j)'
  BY UntouchedKept
<1> QED
  BY <1>1 DEF InstallerInv

\* And so does a step of a component, which leaves the host to the installations.
LEMMA ComponentStepPreserves ==
    ASSUME InstallerInv, ComponentInv', UNCHANGED installerVars, UNCHANGED choice,
           setting # Unset => setting' = setting, applied \subseteq applied',
           AdminExists => AdminExists',
           \A i \in Installers : selecting[i] = "selected" => selecting'[i] = "selected"
    PROVE  InstallerInv' /\ HostGrows
<1>1. HostGrows
  BY DEF installerVars, hostVars, HostGrows
<1>2. \A i \in Installers : Untouched(i)
  BY DEF installerVars, runVars, Untouched
<1>3. \A i \in Installers : RunSound(i)' /\ ServingSound(i)'
  BY <1>1, <1>2, UntouchedKept
<1>4. HostSound'
  BY DEF InstallerInv, HostSound, DatabaseURL, DatabaseReady, installerVars, hostVars
<1>5. InstallerTypeOK'
  BY DEF InstallerInv, InstallerTypeOK, installerVars, hostVars, runVars
<1> QED
  BY <1>1, <1>3, <1>4, <1>5 DEF InstallerInv

\* The database does not notice what is done to the host, or to the setting.
LEMMA DatabaseIdle ==
    ASSUME ComponentInv, faults' \in Nat,
           UNCHANGED <<pc, release, pending, applied, effects, adminVars>>
    PROVE  MigrationInv' /\ BootstrapInv' /\ AdminExists' = AdminExists
<1>1. \A r \in Runners : Current(r)' = Current(r)
  BY DEF Current
<1>2. MigrationInv'
  BY <1>1 DEF ComponentInv, MigrationInv, MigrationTypeOK, AppliedOnce, InTransaction
<1>3. BootstrapInv'
  BY <1>2, MigrationStepPreserves DEF ComponentInv, MigrationInv
<1> QED
  BY <1>2, <1>3 DEF AdminExists, adminVars

LEMMA SettingIdle == ASSUME SettingInv, UNCHANGED settingVars PROVE SettingInv'
  BY DEF SettingInv, SettingTypeOK, SettingTruthful, settingVars

LEMMA ComponentsIdle ==
    ASSUME ComponentInv, faults' \in Nat,
           UNCHANGED <<pc, release, pending, applied, effects, adminVars, settingVars>>
    PROVE  ComponentInv' /\ AdminExists' = AdminExists
  BY DatabaseIdle, SettingIdle DEF ComponentInv

LEMMA FaultsTyped == ASSUME ComponentInv PROVE faults \in Nat /\ (Fault => faults' \in Nat)
  BY MigrationAssumptions DEF ComponentInv, MigrationInv, MigrationTypeOK, Fault

\* Steps of the migrations, of the selection and of the bootstrap, by themselves.
LEMMA MigrationComponent ==
    ASSUME ComponentInv, NEW r \in Runners,
           Up(r) \/ Proceed(r) \/ CommitLost(r) \/ Fail(r),
           UNCHANGED <<adminVars, settingVars>>
    PROVE  ComponentInv' /\ applied \subseteq applied' /\ AdminExists' = AdminExists
<1>1. MigrationInv'
  BY NextMigrationInv DEF MigrationNext, ComponentInv
<1>2. BootstrapInv'
  BY <1>1, MigrationStepPreserves DEF ComponentInv, MigrationInv
<1>3. applied \subseteq applied'
  BY DEF Up, Proceed, CommitLost, Fail, AppliedVersions, ExecuteSQL, InsertVersion, Commit,
         CommitMigration, Finish
<1>4. \A q \in Runners : pc'[q] # "idle" => release'[q] \in Releases
  <2>1. CASE Up(r)
    BY <2>1 DEF Up, Goto, ComponentInv, MigrationInv, MigrationTypeOK
  <2>2. CASE Proceed(r) \/ CommitLost(r) \/ Fail(r)
    <3>1. release' = release /\ pc[r] # "idle" /\ \A q \in Runners : q # r => pc'[q] = pc[q]
      BY <2>2 DEF Proceed, CommitLost, Fail, AppliedVersions, ExecuteSQL, InsertVersion,
                  Commit, CommitMigration, Finish, Goto, ComponentInv, MigrationInv,
                  MigrationTypeOK
    <3> QED
      BY <3>1 DEF ComponentInv
  <2> QED
    BY <2>1, <2>2
<1> QED
  BY <1>1, <1>2, <1>3, <1>4, SettingIdle DEF ComponentInv, AdminExists, adminVars

LEMMA SelectionComponent ==
    ASSUME ComponentInv, NEW s \in Selectors, SelectProceeds(s) \/ SelectDisturbed(s),
           faults' \in Nat, UNCHANGED <<pc, release, pending, applied, effects, adminVars>>
    PROVE  ComponentInv' /\ AdminExists' = AdminExists
  BY DatabaseIdle, SettingStepPreserves DEF ComponentInv

LEMMA AdminComponent ==
    ASSUME ComponentInv, NEW b \in Bootstraps,
           CreateAdmin(b) \/ Lock(b) \/ Work(b) \/ CommitAdminLost(b) \/ Abort(b),
           UNCHANGED settingVars
    PROVE  ComponentInv' /\ applied' = applied /\ (AdminExists => AdminExists')
<1>1. BootstrapInv' /\ MigrationInv'
  BY NextBootstrapInv DEF Next, ComponentInv
<1>2. UNCHANGED <<pc, release, applied>>
  BY DEF CreateAdmin, Lock, Work, CommitAdminLost, Abort, CountUsers, InsertUser,
         GrantOwner, RecordAudit, CommitAdmin, migrationVars
<1>3. rows' = rows \/ rows' = [rows EXCEPT ![b] = @ \cup draft[b]]
  BY DEF CreateAdmin, Lock, Work, CommitAdminLost, Abort, CountUsers, InsertUser,
         GrantOwner, RecordAudit, CommitAdmin
<1>4. rows \in [Bootstraps -> SUBSET Tables]
  BY DEF ComponentInv, BootstrapInv, TypeOK
<1>5. \A c \in Bootstraps : rows[c] \subseteq rows'[c]
  BY <1>3, <1>4
<1> QED
  BY <1>1, <1>2, <1>5, SettingIdle DEF ComponentInv, AdminExists

-----------------------------------------------------------------------------
(* One lemma per action: the components do not notice it, or take a step of their own; *)
(* the host only grows; and the run has what the step was to bring about.               *)

LEMMA RunInstallApplyPreserves ==
    ASSUME InstallerInv, NEW i \in Installers, NEW o \in Options, RunInstallApply(i, o)
    PROVE  InstallerInv' /\ HostGrows
<1> USE DEF InstallerInv
<1>1. PICK s \in {"off", "select", "external", "role"} :
          /\ step' = [step EXCEPT ![i] = s]
          /\ answer' = [answer EXCEPT ![i] = IF s = "off" THEN "refused" ELSE "none"]
          /\ s \in {"external", "role"} => o.systemd
          /\ s = "select" => ~o.systemd
          /\ s = "external" => postgresql = "external"
          /\ s = "role" => postgresql = "install"
  BY InstallerConstants
  DEF RunInstallApply, GoTo, StopRun, FirstStep, InstallerTypeOK, PostgreSQLPlans
<1>2. /\ options' = [options EXCEPT ![i] = o] /\ run' = [run EXCEPT ![i] = runs + 1]
      /\ url' = [url EXCEPT ![i] = NoURL] /\ runs' = runs + 1
      /\ UNCHANGED <<host, postgresql, hostVars, vars, settingVars>>
  BY DEF RunInstallApply
<1>3. ComponentInv' /\ AdminExists' = AdminExists
  BY <1>2, ComponentsIdle, FaultsTyped DEF vars, migrationVars
<1>4. InstallerTypeOK'
  BY <1>1, <1>2 DEF InstallerTypeOK, Steps, hostVars
<1>5. HostGrows
  BY <1>2, <1>3 DEF HostGrows, hostVars, vars, migrationVars, settingVars
<1>6. HostSound'
  BY <1>2
  DEF HostSound, hostVars, vars, migrationVars, settingVars, DatabaseURL,
      DatabaseReady
<1>7. RunSound(i)'
  BY <1>1, <1>2 DEF RunSound, InstallerTypeOK
<1>8. ServingSound(i)'
  BY <1>1, <1>2 DEF InstallerTypeOK, ServingSound, Serving
<1>9. \A j \in Installers : j # i => Untouched(j)
  BY <1>1, <1>2 DEF Untouched, settingVars
<1> QED
  BY <1>3, <1>4, <1>5, <1>6, <1>7, <1>8, <1>9, StepPreserves

LEMMA CreateRolePreserves ==
    ASSUME InstallerInv, NEW i \in Installers, CreateRole(i)
    PROVE  InstallerInv' /\ HostGrows
<1> USE DEF InstallerInv, CreateRole, GoTo, StopRun
<1>1. ComponentInv' /\ AdminExists' = AdminExists
  BY ComponentsIdle, FaultsTyped DEF vars, migrationVars
<1>2. InstallerTypeOK'
  BY DEF InstallerTypeOK, Steps
<1>3. HostGrows
  BY <1>1 DEF HostGrows, RunSound, vars, migrationVars, settingVars
<1>4. HostSound'
  BY DEF HostSound, vars, migrationVars, settingVars, DatabaseURL, DatabaseReady
<1>5. RunSound(i)'
  BY DEF RunSound, InstallerTypeOK
<1>6. ServingSound(i)'
  BY DEF InstallerTypeOK, ServingSound, Serving
<1>7. \A j \in Installers : j # i => Untouched(j)
  BY DEF Untouched, InstallerTypeOK, settingVars
<1> QED
  BY <1>1, <1>2, <1>3, <1>4, <1>5, <1>6, <1>7, StepPreserves

LEMMA CreateDatabasePreserves ==
    ASSUME InstallerInv, NEW i \in Installers, CreateDatabase(i)
    PROVE  InstallerInv' /\ HostGrows
<1> USE DEF InstallerInv, CreateDatabase, GoTo, StopRun
<1>1. ComponentInv' /\ AdminExists' = AdminExists
  BY ComponentsIdle, FaultsTyped DEF vars, migrationVars
<1>2. InstallerTypeOK'
  BY DEF InstallerTypeOK, Steps
<1>3. HostGrows
  BY <1>1 DEF HostGrows, vars, migrationVars, settingVars
<1>4. HostSound'
  BY DEF HostSound, vars, migrationVars, settingVars, DatabaseURL, DatabaseReady
<1>5. RunSound(i)'
  BY DEF RunSound, InstallerTypeOK, DatabaseURL, DatabaseReady
<1>6. ServingSound(i)'
  BY DEF InstallerTypeOK, ServingSound, Serving
<1>7. \A j \in Installers : j # i => Untouched(j)
  BY DEF Untouched, InstallerTypeOK, settingVars
<1> QED
  BY <1>1, <1>2, <1>3, <1>4, <1>5, <1>6, <1>7, StepPreserves

LEMMA SetExternalDatabasePreserves ==
    ASSUME InstallerInv, NEW i \in Installers, SetExternalDatabase(i)
    PROVE  InstallerInv' /\ HostGrows
<1> USE DEF InstallerInv, SetExternalDatabase, GoTo, StopRun
<1>1. ComponentInv' /\ AdminExists' = AdminExists
  BY ComponentsIdle, FaultsTyped DEF vars, migrationVars
<1>2. InstallerTypeOK'
  BY DEF InstallerTypeOK, Steps, hostVars
<1>3. HostGrows
  BY <1>1 DEF HostGrows, hostVars, vars, migrationVars, settingVars
<1>4. HostSound'
  BY DEF HostSound, hostVars, vars, migrationVars, settingVars, DatabaseURL, DatabaseReady
<1>5. RunSound(i)'
  BY DEF RunSound, InstallerTypeOK, HostSound, hostVars, DatabaseURL, DatabaseReady
<1>6. ServingSound(i)'
  BY DEF ServingSound, Serving
<1>7. \A j \in Installers : j # i => Untouched(j)
  BY DEF Untouched, settingVars
<1> QED
  BY <1>1, <1>2, <1>3, <1>4, <1>5, <1>6, <1>7, StepPreserves

LEMMA InstallWebServerPreserves ==
    ASSUME InstallerInv, NEW i \in Installers, InstallWebServer(i)
    PROVE  InstallerInv' /\ HostGrows
<1> USE DEF InstallerInv, InstallWebServer, GoTo, StopRun
<1>1. ComponentInv' /\ AdminExists' = AdminExists
  BY ComponentsIdle, FaultsTyped DEF vars, migrationVars
<1>2. InstallerTypeOK'
  BY DEF InstallerTypeOK, Steps
<1>3. HostGrows
  BY <1>1 DEF HostGrows, vars, migrationVars, settingVars
<1>4. HostSound'
  BY DEF HostSound, vars, migrationVars, settingVars, DatabaseURL, DatabaseReady
<1>5. RunSound(i)'
  BY DEF RunSound, InstallerTypeOK, DatabaseURL, DatabaseReady
<1>6. ServingSound(i)'
  BY DEF InstallerTypeOK, ServingSound, Serving
<1>7. \A j \in Installers : j # i => Untouched(j)
  BY DEF Untouched, InstallerTypeOK, settingVars
<1> QED
  BY <1>1, <1>2, <1>3, <1>4, <1>5, <1>6, <1>7, StepPreserves

LEMMA MigratedPreserves ==
    ASSUME InstallerInv, NEW i \in Installers, Migrated(i)
    PROVE  InstallerInv' /\ HostGrows
<1> USE DEF InstallerInv, Migrated, GoTo, StopRun
<1>1. ComponentInv' /\ AdminExists' = AdminExists
  BY ComponentsIdle, FaultsTyped DEF vars, migrationVars
<1>2. InstallerTypeOK'
  BY DEF InstallerTypeOK, Steps, hostVars
<1>3. HostGrows
  BY <1>1 DEF HostGrows, hostVars, vars, migrationVars, settingVars
<1>4. HostSound'
  BY DEF HostSound, hostVars, vars, migrationVars, settingVars, DatabaseURL, DatabaseReady
<1>5. OneRelease /\ pc[i] = "done" => Versions \subseteq applied
  BY InstallerConstants
  DEF ComponentInv, MigrationInv, MigrationTypeOK, OneRelease
<1>6. RunSound(i)'
  BY <1>5
  DEF RunSound, InstallerTypeOK, hostVars, vars, migrationVars, DatabaseURL,
      DatabaseReady
<1>7. ServingSound(i)'
  BY DEF InstallerTypeOK, ServingSound, Serving, hostVars
<1>8. \A j \in Installers : j # i => Untouched(j)
  BY DEF Untouched, InstallerTypeOK, settingVars
<1> QED
  BY <1>1, <1>2, <1>3, <1>4, <1>6, <1>7, <1>8, StepPreserves

LEMMA WebServerSelectedPreserves ==
    ASSUME InstallerInv, NEW i \in Installers, WebServerSelected(i)
    PROVE  InstallerInv' /\ HostGrows
<1> USE DEF InstallerInv, WebServerSelected, GoTo, StopRun
<1>1. ComponentInv' /\ AdminExists' = AdminExists
  BY ComponentsIdle, FaultsTyped DEF vars, migrationVars
<1>2. InstallerTypeOK'
  BY DEF InstallerTypeOK, Steps, hostVars
<1>3. HostGrows
  BY <1>1 DEF HostGrows, hostVars, vars, migrationVars, settingVars
<1>4. HostSound'
  BY DEF HostSound, hostVars, vars, migrationVars, settingVars, DatabaseURL, DatabaseReady
<1>5. RunSound(i)'
  BY DEF RunSound, InstallerTypeOK, hostVars, vars, migrationVars, DatabaseURL,
         DatabaseReady
<1>6. ServingSound(i)'
  BY DEF RunSound, InstallerTypeOK, ServingSound, Serving, hostVars, settingVars
<1>7. \A j \in Installers : j # i => Untouched(j)
  BY DEF Untouched, InstallerTypeOK, settingVars
<1> QED
  BY <1>1, <1>2, <1>3, <1>4, <1>5, <1>6, <1>7, StepPreserves

LEMMA WriteEnvironmentPreserves ==
    ASSUME InstallerInv, NEW i \in Installers, WriteEnvironment(i)
    PROVE  InstallerInv' /\ HostGrows
<1> USE DEF InstallerInv, WriteEnvironment, GoTo, StopRun
<1>1. ComponentInv' /\ AdminExists' = AdminExists
  BY ComponentsIdle, FaultsTyped DEF vars, migrationVars
<1>2. InstallerTypeOK'
  BY DEF InstallerTypeOK, Steps
<1>3. HostGrows
  BY <1>1 DEF HostGrows, HostSound, RunSound, vars, migrationVars, settingVars
<1>4. HostSound'
  BY DEF HostSound, RunSound, vars, migrationVars, settingVars, DatabaseURL, DatabaseReady
<1>5. RunSound(i)'
  BY InstallerConstants
  DEF RunSound, InstallerTypeOK, vars, migrationVars, DatabaseURL, DatabaseReady
<1>6. ServingSound(i)'
  BY DEF ServingSound, Serving, settingVars
<1>7. \A j \in Installers : j # i => Untouched(j)
  BY DEF Untouched, settingVars
<1> QED
  BY <1>1, <1>2, <1>3, <1>4, <1>5, <1>6, <1>7, StepPreserves

LEMMA StartServicesPreserves ==
    ASSUME InstallerInv, NEW i \in Installers, StartServices(i)
    PROVE  InstallerInv' /\ HostGrows
<1> USE DEF InstallerInv, StartServices, GoTo, StopRun
<1>1. ComponentInv' /\ AdminExists' = AdminExists
  BY ComponentsIdle, FaultsTyped DEF vars, migrationVars
<1>2. InstallerTypeOK'
  BY DEF InstallerTypeOK, Steps
<1>3. HostGrows
  BY <1>1 DEF HostGrows, vars, migrationVars, settingVars
<1>4. setting # Unset
  BY InstallerConstants
  DEF ServingSound, Serving, ComponentInv, SettingInv, SettingTruthful
<1>5. HostSound'
  BY <1>4
  DEF HostSound, RunSound, vars, migrationVars, settingVars, DatabaseURL,
      DatabaseReady
<1>6. RunSound(i)'
  BY DEF RunSound, InstallerTypeOK, DatabaseURL, DatabaseReady
<1>7. ServingSound(i)'
  BY DEF RunSound, InstallerTypeOK, ServingSound, Serving, settingVars
<1>8. \A j \in Installers : j # i => Untouched(j)
  BY DEF Untouched, InstallerTypeOK, settingVars
<1> QED
  BY <1>1, <1>2, <1>3, <1>5, <1>6, <1>7, <1>8, StepPreserves

LEMMA AdminCreatedPreserves ==
    ASSUME InstallerInv, NEW i \in Installers, AdminCreated(i)
    PROVE  InstallerInv' /\ HostGrows
<1> USE DEF InstallerInv, AdminCreated, GoTo, StopRun
<1>1. ComponentInv' /\ AdminExists' = AdminExists
  BY ComponentsIdle, FaultsTyped DEF vars, migrationVars
<1>2. InstallerTypeOK'
  BY DEF InstallerTypeOK, Steps, hostVars
<1>3. HostGrows
  BY <1>1 DEF HostGrows, hostVars, vars, migrationVars, settingVars
<1>4. HostSound'
  BY DEF HostSound, hostVars, vars, migrationVars, settingVars, DatabaseURL, DatabaseReady
<1>5. RunSound(i)'
  BY DEF RunSound, InstallerTypeOK
<1>6. stage[i] = "created" => AdminExists
  BY InstallerConstants DEF ComponentInv, BootstrapInv, AnswerTrue
<1>7. ServingSound(i)'
  BY <1>1, <1>6 DEF RunSound, InstallerTypeOK, ServingSound, Serving, hostVars, settingVars
<1>8. \A j \in Installers : j # i => Untouched(j)
  BY DEF Untouched, InstallerTypeOK, settingVars
<1> QED
  BY <1>1, <1>2, <1>3, <1>4, <1>5, <1>7, <1>8, StepPreserves

LEMMA InterruptedPreserves ==
    ASSUME InstallerInv, NEW i \in Installers, Interrupted(i)
    PROVE  InstallerInv' /\ HostGrows
<1> USE DEF InstallerInv, Interrupted, GoTo, StopRun
<1>1. ComponentInv' /\ AdminExists' = AdminExists
  BY ComponentsIdle, FaultsTyped
<1>2. InstallerTypeOK'
  BY DEF InstallerTypeOK, Steps, hostVars
<1>3. HostGrows
  BY <1>1 DEF HostGrows, hostVars, settingVars
<1>4. HostSound'
  BY DEF HostSound, hostVars, settingVars, DatabaseURL, DatabaseReady
<1>5. RunSound(i)'
  BY DEF RunSound, hostVars, DatabaseURL, DatabaseReady
<1>6. ServingSound(i)'
  BY DEF ServingSound, Serving, hostVars, settingVars
<1>7. \A j \in Installers : j # i => Untouched(j)
  BY DEF Untouched, settingVars
<1> QED
  BY <1>1, <1>2, <1>3, <1>4, <1>5, <1>6, <1>7, StepPreserves

LEMMA RunMigrationsPreserves ==
    ASSUME InstallerInv, NEW i \in Installers, RunMigrations(i)
    PROVE  InstallerInv' /\ HostGrows
<1> USE DEF InstallerInv, RunMigrations, GoTo
<1>1. ComponentInv' /\ applied \subseteq applied' /\ AdminExists' = AdminExists
  BY MigrationComponent, InstallerConstants
<1>2. InstallerTypeOK'
  BY DEF InstallerTypeOK, Steps, hostVars
<1>3. HostGrows
  BY <1>1 DEF HostGrows, hostVars, settingVars
<1>4. HostSound'
  BY <1>1 DEF HostSound, hostVars, settingVars, DatabaseURL, DatabaseReady
<1>5. RunSound(i)'
  BY <1>1 DEF RunSound, InstallerTypeOK, hostVars, settingVars, DatabaseURL, DatabaseReady
<1>6. ServingSound(i)'
  BY <1>1 DEF InstallerTypeOK, ServingSound, Serving, hostVars, settingVars
<1>7. \A j \in Installers : j # i => Untouched(j)
  BY DEF Untouched, InstallerTypeOK, settingVars
<1> QED
  BY <1>1, <1>2, <1>3, <1>4, <1>5, <1>6, <1>7, StepPreserves

LEMMA SelectWebServerPreserves ==
    ASSUME InstallerInv, NEW i \in Installers, SelectWebServer(i)
    PROVE  InstallerInv' /\ HostGrows
<1> USE DEF InstallerInv, SelectWebServer, GoTo, StopRun
<1>1. SettingInv' /\ setting' = setting
  <2>1. CASE Select(i, options[i].web)
    BY <2>1, SelectPreserves, InstallerConstants DEF ComponentInv
  <2>2. CASE UNCHANGED settingVars
    BY <2>2, SettingIdle DEF ComponentInv, settingVars
  <2> QED
    BY <2>1, <2>2
<1>2. ComponentInv' /\ AdminExists' = AdminExists
  BY <1>1, DatabaseIdle, FaultsTyped DEF ComponentInv, vars, migrationVars
<1>3. InstallerTypeOK'
  BY DEF InstallerTypeOK, Steps, hostVars
<1>4. HostGrows
  BY <1>1, <1>2 DEF HostGrows, hostVars, vars, migrationVars
<1>5. HostSound'
  BY <1>1 DEF HostSound, hostVars, vars, migrationVars, DatabaseURL, DatabaseReady
<1>6. choice \in [Selectors -> WebServers \cup {Unset}] /\ selecting \in [Selectors -> Selections]
  BY DEF ComponentInv, SettingInv, SettingTypeOK
<1>7. RunSound(i)'
  BY <1>6, InstallerConstants
  DEF RunSound, InstallerTypeOK, Select, hostVars, vars, migrationVars, DatabaseURL,
      DatabaseReady
<1>8. ServingSound(i)'
  BY DEF InstallerTypeOK, ServingSound, Serving, hostVars
<1>9. \A j \in Installers : j # i => Untouched(j)
  BY <1>6, InstallerConstants DEF Untouched, InstallerTypeOK, Select, SelectTo, settingVars
<1> QED
  BY <1>2, <1>3, <1>4, <1>5, <1>7, <1>8, <1>9, StepPreserves

LEMMA BootstrapAdminPreserves ==
    ASSUME InstallerInv, NEW i \in Installers, BootstrapAdmin(i)
    PROVE  InstallerInv' /\ HostGrows
<1> USE DEF InstallerInv, BootstrapAdmin, GoTo, StopRun
<1>1. ComponentInv' /\ applied' = applied /\ (AdminExists => AdminExists')
  <2>1. CASE CreateAdmin(i)
    BY <2>1, AdminComponent, InstallerConstants
  <2>2. CASE UNCHANGED vars
    BY <2>2, ComponentsIdle, FaultsTyped DEF vars, migrationVars
  <2> QED
    BY <2>1, <2>2
<1>2. InstallerTypeOK'
  BY DEF InstallerTypeOK, Steps, hostVars
<1>3. HostGrows
  BY <1>1 DEF HostGrows, hostVars, settingVars
<1>4. HostSound'
  BY <1>1 DEF HostSound, hostVars, settingVars, DatabaseURL, DatabaseReady
<1>5. RunSound(i)'
  BY <1>1 DEF RunSound, InstallerTypeOK, hostVars, settingVars, DatabaseURL, DatabaseReady
<1>6. ServingSound(i)'
  BY <1>1 DEF InstallerTypeOK, ServingSound, Serving, hostVars, settingVars
<1>7. \A j \in Installers : j # i => Untouched(j)
  BY DEF Untouched, InstallerTypeOK, settingVars
<1> QED
  BY <1>1, <1>2, <1>3, <1>4, <1>5, <1>6, <1>7, StepPreserves

\* The components at work, and what goes wrong with them.
LEMMA WorkPreserves ==
    ASSUME InstallerInv, NEW i \in Installers,
           MigrationWork(i) \/ SettingWork(i) \/ AdminWork(i) \/ Disturbed(i)
    PROVE  InstallerInv' /\ HostGrows
<1> USE DEF InstallerInv
<1>1. CASE /\ Proceed(i) \/ CommitLost(i) \/ Fail(i)
           /\ UNCHANGED <<installerVars, adminVars, settingVars>>
  <2>1. ComponentInv' /\ applied \subseteq applied' /\ AdminExists' = AdminExists
    BY <1>1, MigrationComponent, InstallerConstants
  <2> QED
    BY <1>1, <2>1, ComponentStepPreserves DEF settingVars
<1>2. CASE /\ SelectProceeds(i) \/ SelectDisturbed(i)
           /\ faults' \in Nat
           /\ UNCHANGED <<installerVars, pc, release, pending, applied, effects, adminVars>>
  <2>1. ComponentInv' /\ AdminExists' = AdminExists
    BY <1>2, SelectionComponent, InstallerConstants
  <2>2. /\ UNCHANGED choice
        /\ setting # Unset => setting' = setting
        /\ \A t \in Selectors : selecting[t] = "selected" => selecting'[t] = "selected"
    BY <1>2, SettingStepPreserves, InstallerConstants DEF ComponentInv
  <2> QED
    BY <1>2, <2>1, <2>2, ComponentStepPreserves, InstallerConstants
<1>3. CASE /\ Lock(i) \/ Work(i) \/ CommitAdminLost(i) \/ Abort(i)
           /\ UNCHANGED <<installerVars, settingVars>>
  <2>1. ComponentInv' /\ applied' = applied /\ (AdminExists => AdminExists')
    BY <1>3, AdminComponent, InstallerConstants
  <2> QED
    BY <1>3, <2>1, ComponentStepPreserves DEF settingVars
<1> QED
  BY <1>1, <1>2, <1>3, FaultsTyped
  DEF MigrationWork, SettingWork, AdminWork, Disturbed, vars, migrationVars

LEMMA ServerStoppedPreserves ==
    ASSUME InstallerInv, ServerStopped
    PROVE  InstallerInv' /\ HostGrows
<1> USE DEF InstallerInv, ServerStopped
<1>1. ComponentInv' /\ AdminExists' = AdminExists
  BY ComponentsIdle, FaultsTyped
<1>2. HostGrows
  BY <1>1 DEF HostGrows, settingVars
<1>3. \A i \in Installers : Untouched(i)
  BY DEF Untouched, runVars, settingVars
<1>4. \A i \in Installers : RunSound(i)' /\ ServingSound(i)'
  BY <1>2, <1>3, UntouchedKept
<1>5. HostSound' /\ InstallerTypeOK'
  BY DEF HostSound, DatabaseURL, DatabaseReady, InstallerTypeOK, runVars, settingVars
<1> QED
  BY <1>1, <1>2, <1>4, <1>5

-----------------------------------------------------------------------------

LEMMA InitInstallerInv == IInit => InstallerInv
<1> SUFFICES ASSUME IInit
             PROVE  InstallerInv
  OBVIOUS
<1>1. ComponentInv
  BY InitMigrationInv, InitBootstrapInv, InitSettingInv
  DEF IInit, Init, MigrationInit, ComponentInv
<1>2. (CHOOSE o \in Options : TRUE) \in Options
  BY InstallerAssumptions
<1>3. InstallerTypeOK
  BY <1>2 DEF IInit, InstallerTypeOK, Steps
<1> QED
  BY <1>1, <1>3, InstallerConstants
  DEF IInit, InstallerInv, HostSound, RunSound, ServingSound, Serving

LEMMA NextInstallerInv == InstallerInv /\ [INext]_allVars => InstallerInv' /\ HostGrows
<1> SUFFICES ASSUME InstallerInv, [INext]_allVars
             PROVE  InstallerInv' /\ HostGrows
  OBVIOUS
<1>1. CASE UNCHANGED allVars
  <2>1. ComponentInv' /\ AdminExists' = AdminExists
    BY <1>1, ComponentsIdle, FaultsTyped DEF InstallerInv, allVars, vars, migrationVars
  <2> QED
    BY <1>1, <2>1, ComponentStepPreserves DEF allVars, vars, migrationVars, settingVars
<1>2. ASSUME NEW i \in Installers, NEW o \in Options, RunInstallApply(i, o)
      PROVE  InstallerInv' /\ HostGrows
  BY <1>2, RunInstallApplyPreserves
<1>3. ASSUME NEW i \in Installers, Installs(i)
      PROVE  InstallerInv' /\ HostGrows
  BY <1>3, CreateRolePreserves, CreateDatabasePreserves, SetExternalDatabasePreserves,
     InstallWebServerPreserves, RunMigrationsPreserves, MigratedPreserves,
     SelectWebServerPreserves, WebServerSelectedPreserves, WriteEnvironmentPreserves,
     StartServicesPreserves, BootstrapAdminPreserves, AdminCreatedPreserves, WorkPreserves
  DEF Installs
<1>4. ASSUME NEW i \in Installers, Interrupted(i) \/ Disturbed(i)
      PROVE  InstallerInv' /\ HostGrows
  BY <1>4, InterruptedPreserves, WorkPreserves
<1> QED
  BY <1>1, <1>2, <1>3, <1>4, ServerStoppedPreserves DEF INext

\* Host, database, setting and runs stay consistent, whatever fails, is repeated or
\* runs at the same time.
THEOREM InstallerInvariant == ISpec => []InstallerInv
  BY InitInstallerInv, NextInstallerInv, PTL DEF ISpec

\* The panel's password is the role's: a role is created once, and the URL only written
\* by the run that has created it.
THEOREM CredentialsTheorem == ISpec => []CredentialsAgree
<1>1. InstallerInv => CredentialsAgree
  BY DEF InstallerInv, HostSound, DatabaseURL, DatabaseReady, CredentialsAgree
<1> QED
  BY <1>1, InstallerInvariant, PTL

\* Where all installations are of one release, the panel's database has every migration.
THEOREM PanelTheorem == ASSUME OneRelease PROVE ISpec => []PanelHasDatabase
<1>1. InstallerInv => PanelHasDatabase
  BY OneRelease DEF InstallerInv, HostSound, PanelHasDatabase
<1> QED
  BY <1>1, InstallerInvariant, PTL

\* Where the web server is spelled as it is compared, success means complete.
THEOREM CompleteTheorem == ASSUME ExactSpelling PROVE ISpec => []InstalledMeansComplete
<1>1. InstallerInv => InstalledMeansComplete
  <2> SUFFICES ASSUME InstallerInv, NEW i \in Installers, answer[i] = "installed"
               PROVE  /\ setting = ParseWebServer(options[i].web)
                      /\ options[i].systemd =>
                             /\ (IF setting = "apache" THEN "apache2" ELSE "nginx") \in packages
                             /\ panel # NoURL
                             /\ options[i].admin # "none" => AdminExists
    BY DEF InstalledMeansComplete
  <2>1. options[i] \in Options /\ ServingSound(i) /\ SettingInv
    BY DEF InstallerInv, InstallerTypeOK, ComponentInv
  <2>2. setting = choice[i] /\ choice[i] # Unset /\ choice[i] = ParseWebServer(options[i].web)
    BY <2>1, InstallerConstants DEF ServingSound, Serving, SettingInv, SettingTruthful
  <2>3. setting = options[i].web
    BY <2>1, <2>2 DEF ExactSpelling
  <2>4. Package(options[i]) = IF setting = "apache" THEN "apache2" ELSE "nginx"
    BY <2>3 DEF Package
  <2> QED
    BY <2>1, <2>2, <2>4 DEF ServingSound
<1> QED
  BY <1>1, InstallerInvariant, PTL

\* The setting and the audit log agree.
THEOREM SettingTheorem == ISpec => []SettingTruthful
<1>1. InstallerInv => SettingTruthful
  BY DEF InstallerInv, ComponentInv, SettingInv
<1> QED
  BY <1>1, InstallerInvariant, PTL

\* Whoever records the web server first is the only one to serve.
THEOREM OneRunTheorem == ISpec => []OneRunServes
<1>1. InstallerInv => OneRunServes
  BY InstallerConstants
  DEF InstallerInv, ComponentInv, SettingInv, ServingSound, OneRunServes
<1> QED
  BY <1>1, InstallerInvariant, PTL

\* Nothing a panel depends on changes once it has been started.
THEOREM InstalledStaysTheorem == ISpec => InstalledStays
<1>1. InstallerInv /\ [INext]_allVars
          => [panel # NoURL => UNCHANGED <<role, env, setting, panel>>]_allVars
  <2> SUFFICES ASSUME InstallerInv, [INext]_allVars, panel # NoURL
               PROVE  UNCHANGED <<role, env, setting, panel>>
    OBVIOUS
  <2>1. HostGrows
    BY NextInstallerInv
  <2>2. env # NoURL /\ setting # Unset /\ (role # 0 \/ postgresql = "external")
    BY DEF InstallerInv, InstallerTypeOK, HostSound, DatabaseReady, PostgreSQLPlans
  <2> QED
    BY <2>1, <2>2 DEF HostGrows
<1> QED
  BY <1>1, InstallerInvariant, PTL DEF ISpec, InstalledStays

\* The preflight lets through the hosts that fit, and no others.
THEOREM PreflightTheorem == ISpec => PreflightSound
<1> DEFINE Sound ==
        \A i \in Installers :
            /\ run'[i] # run[i]
            /\ ~options'[i].sample
            /\ ParseWebServer(options'[i].web) # Unset
            /\ options'[i].systemd
            => (step'[i] # "off") = Fits(HostNow, options'[i].profile)
<1>1. ASSUME InstallerInv, INext
      PROVE  Sound
  <2> SUFFICES ASSUME NEW i \in Installers,
                      run'[i] # run[i],
                      ~options'[i].sample,
                      ParseWebServer(options'[i].web) # Unset,
                      options'[i].systemd
               PROVE  (step'[i] # "off") = Fits(HostNow, options'[i].profile)
    OBVIOUS
  <2>1. PICK o \in Options : RunInstallApply(i, o)
    <3>1. run' = run \/ \E j \in Installers, o \in Options : RunInstallApply(j, o)
      BY <1>1 DEF INext, Installs, CreateRole, CreateDatabase, SetExternalDatabase,
         InstallWebServer, RunMigrations, MigrationWork, Migrated, SelectWebServer,
         SettingWork, WebServerSelected, WriteEnvironment, StartServices, BootstrapAdmin,
         AdminWork, AdminCreated, Interrupted, Disturbed, ServerStopped, installerVars,
         runVars
    <3> QED
      BY <1>1, <3>1 DEF RunInstallApply, InstallerInv, InstallerTypeOK
  <2>2. options'[i] = o
    BY <1>1, <2>1 DEF RunInstallApply, InstallerInv, InstallerTypeOK
  <2>3. HostNow \in HostRecords /\ postgresql \in PostgreSQLPlans
    <3>1. host \in HostRecords /\ postgresql \in PostgreSQLPlans
      BY <1>1, InstallerAssumptions DEF InstallerInv, InstallerTypeOK
    <3>2. RequiredPorts \subseteq Nat
      BY DEF RequiredPorts
    <3> QED
      BY <3>1, <3>2 DEF HostNow, HostRecords
  <2>4. Admitted(o) <=> Fits(HostNow, o.profile)
    BY <2>2, <2>3, ReadyMeansFits DEF Admitted, Facts
  <2>5. (step'[i] # "off") <=> Admitted(o)
    BY <1>1, <2>1, <2>2
    DEF RunInstallApply, GoTo, StopRun, FirstStep, InstallerInv, InstallerTypeOK
  <2>6. Fits(HostNow, o.profile) \in BOOLEAN
    BY DEF Fits
  <2> QED
    BY <2>2, <2>4, <2>5, <2>6
<1>2. InstallerInv /\ [INext]_allVars => [Sound]_allVars
  BY <1>1
<1> QED
  BY <1>2, InstallerInvariant, PTL DEF ISpec, PreflightSound

-----------------------------------------------------------------------------
(* The components under the installer: whatever an installation, or what befalls it,   *)
(* does to the database and to the setting is an operation of the component it belongs *)
(* to.  Only the count of faults is the installer's too.                               *)

schemaVars == <<pc, release, pending, applied, effects>>
databaseVars == <<schemaVars, adminVars>>

SettingNext ==
    \E s \in Selectors :
        \/ \E value : Select(s, value)
        \/ SelectProceeds(s)
        \/ SelectDisturbed(s)

\* By the action of an installation, the component that works or none.
LEMMA StepOfComponents ==
    ASSUME InstallerInv, INext
    PROVE  [Next]_databaseVars /\ [SettingNext]_settingVars
<1> USE InstallerConstants DEF vars, migrationVars, schemaVars, databaseVars
<1>1. ASSUME UNCHANGED <<databaseVars, settingVars>>
      PROVE  [Next]_databaseVars /\ [SettingNext]_settingVars
  BY <1>1
<1>2. ASSUME NEW i \in Installers, NEW o \in Options, RunInstallApply(i, o)
      PROVE  UNCHANGED <<databaseVars, settingVars>>
  BY <1>2 DEF RunInstallApply
<1>3. ASSUME NEW i \in Installers, Interrupted(i) \/ ServerStopped
      PROVE  UNCHANGED <<databaseVars, settingVars>>
  BY <1>3 DEF Interrupted, ServerStopped
<1>4. ASSUME NEW i \in Installers,
             \/ CreateRole(i) \/ CreateDatabase(i) \/ SetExternalDatabase(i)
             \/ InstallWebServer(i) \/ Migrated(i) \/ WebServerSelected(i)
             \/ WriteEnvironment(i) \/ StartServices(i) \/ AdminCreated(i)
      PROVE  UNCHANGED <<databaseVars, settingVars>>
  BY <1>4 DEF CreateRole, CreateDatabase, SetExternalDatabase, InstallWebServer, Migrated,
              WebServerSelected, WriteEnvironment, StartServices, AdminCreated
<1>5. ASSUME NEW i \in Installers,
             Up(i) \/ Proceed(i) \/ CommitLost(i) \/ Fail(i), UNCHANGED adminVars
      PROVE  Next
  BY <1>5 DEF Next, MigrationNext
<1>6. ASSUME NEW i \in Installers,
             CreateAdmin(i) \/ Lock(i) \/ Work(i) \/ CommitAdminLost(i) \/ Abort(i)
      PROVE  Next
  BY <1>6 DEF Next
<1>7. ASSUME NEW i \in Installers,
             SelectProceeds(i) \/ SelectDisturbed(i) \/ \E value : Select(i, value)
      PROVE  SettingNext
  BY <1>7 DEF SettingNext
<1>8. ASSUME NEW i \in Installers, RunMigrations(i) \/ MigrationWork(i)
      PROVE  Next /\ UNCHANGED settingVars
  BY <1>8, <1>5 DEF RunMigrations, MigrationWork
<1>9. ASSUME NEW i \in Installers, SelectWebServer(i) \/ SettingWork(i)
      PROVE  UNCHANGED databaseVars /\ [SettingNext]_settingVars
  BY <1>9, <1>7 DEF SelectWebServer, SettingWork
<1>10. ASSUME NEW i \in Installers, BootstrapAdmin(i) \/ AdminWork(i)
       PROVE  [Next]_databaseVars /\ UNCHANGED settingVars
  BY <1>10, <1>6 DEF BootstrapAdmin, AdminWork
<1>11. ASSUME NEW i \in Installers, Disturbed(i)
       PROVE  [Next]_databaseVars /\ [SettingNext]_settingVars
  <2>1. CASE (CommitLost(i) \/ Fail(i)) /\ UNCHANGED <<adminVars, settingVars>>
    BY <2>1, <1>5
  <2>2. CASE (CommitAdminLost(i) \/ Abort(i)) /\ UNCHANGED settingVars
    BY <2>2, <1>6
  <2>3. CASE SelectDisturbed(i) /\ UNCHANGED <<pc, release, pending, applied, effects, adminVars>>
    BY <2>3, <1>7
  <2> QED
    BY <1>11, <2>1, <2>2, <2>3 DEF Disturbed
<1>12. CASE \E i \in Installers : Installs(i)
  BY <1>12, <1>1, <1>4, <1>8, <1>9, <1>10 DEF Installs
<1>13. CASE ServerStopped
  BY <1>13, <1>1 DEF ServerStopped
<1> QED
  BY <1>1, <1>2, <1>3, <1>11, <1>12, <1>13 DEF INext

\* An installation uses the database as the migration runner and CreateFirstAdmin do, and
\* the setting as Select does: it writes to neither by itself.
THEOREM ComponentsTheorem ==
    ISpec => /\ Init /\ [][Next]_databaseVars
             /\ SettingInit /\ [][SettingNext]_settingVars
<1>1. InstallerInv /\ [INext]_allVars => [Next]_databaseVars /\ [SettingNext]_settingVars
  BY StepOfComponents
  DEF allVars, vars, migrationVars, databaseVars, schemaVars
<1>2. IInit => Init /\ SettingInit
  BY DEF IInit
<1> QED
  BY <1>1, <1>2, InstallerInvariant, PTL DEF ISpec

\* What migrating and bootstrapping promise on their own they keep for installations that
\* fail, race and are started again: every migration takes effect once, success is true,
\* and there is at most one first administrator, with its role and its audit event.
THEOREM DatabaseTheorem ==
    ISpec => [](AppliedOnce /\ SuccessMeansMigrated /\ OneFirstAdmin /\ AdminComplete
                    /\ AnswerTrue)
<1>1. InstallerInv => AppliedOnce /\ SuccessMeansMigrated /\ OneFirstAdmin /\ AdminComplete
                          /\ AnswerTrue
  BY DEF InstallerInv, ComponentInv, MigrationInv, BootstrapInv, SuccessMeansMigrated
<1> QED
  BY <1>1, InstallerInvariant, PTL

\* Nor does an installation apply a migration to a schema that lacks an earlier one, or
\* take one back.
THEOREM MigratesInOrderTheorem == ISpec => InOrder
<1>1. ASSUME InstallerInv, [INext]_allVars
      PROVE  [Ordered]_migrationVars
  <2>1. CASE MigrationNext
    BY <1>1, <2>1, OrderedStep DEF InstallerInv, ComponentInv
  <2>2. CASE applied' = applied
    BY <2>2 DEF Ordered
  <2>3. MigrationNext \/ applied' = applied
    BY <1>1, StepOfComponents
    DEF allVars, vars, migrationVars, databaseVars, schemaVars, Next, CreateAdmin, Lock,
        Work, CommitAdminLost, Abort, CountUsers, InsertUser, GrantOwner, RecordAudit,
        CommitAdmin
  <2> QED
    BY <2>1, <2>2, <2>3
<1>2. [][Ordered]_migrationVars <=> InOrder
  BY PTL DEF Ordered, InOrder
<1> QED
  BY <1>1, <1>2, InstallerInvariant, PTL DEF ISpec

\* And installations that race create one first administrator, at once, on the schema
\* that has its tables and its role.
THEOREM FirstAdminOfInstallations == ISpec => FirstAdminAtOnce
<1>1. InstallerInv /\ SchemaRead /\ [INext]_allVars
          => SchemaRead' /\ [FirstAdminStep]_rows
  <2> SUFFICES ASSUME InstallerInv, SchemaRead, [INext]_allVars
               PROVE  SchemaRead' /\ FirstAdminStep
    OBVIOUS
  <2>1. Next \/ UNCHANGED <<stage, rows, applied>>
    BY StepOfComponents
    DEF allVars, vars, migrationVars, databaseVars, schemaVars, adminVars
  <2> QED
    BY <2>1, SchemaNext DEF InstallerInv, ComponentInv
<1>2. IInit => SchemaRead
  BY InitSchema DEF IInit
<1> QED
  BY <1>1, <1>2, InstallerInvariant, PTL DEF ISpec, FirstAdminAtOnce

=============================================================================
