------------------------------ MODULE Preflight ------------------------------
(***************************************************************************)
(* The checks before an installation, as operators: what                   *)
(* preflight.Collector reads of a host, how osdetect reads os-release, and *)
(* what preflight.Run makes of the facts.                                  *)
(*                                                                         *)
(* A host is a record of what the kernel and /etc/os-release say: lines    *)
(* of os-release as pairs (comments and quotes removed), memory and swap   *)
(* in kB, free disk space in MB, processors, whether systemd has its       *)
(* directory and what /proc/1/comm says, and the TCP ports in use.         *)
(***************************************************************************)
EXTENDS Integers, Sequences

Profiles == {"shared-hosting", "single-user"}
PostgreSQLPlans == {"install", "external"}

\* What a host may say of itself.
HostRecords ==
    [release : Seq(STRING \X STRING), cpus : Nat, memoryKB : Int, diskMB : Nat,
     swapKB : Int, root : BOOLEAN, systemdDir : BOOLEAN, comm : STRING,
     listening : SUBSET Nat]

\* The minimum cores, MB of memory, GB of disk and MB of swap.
MinimumOf(profile) ==
    IF profile = "single-user" THEN [cpu |-> 1, memory |-> 960, disk |-> 15, swap |-> 1024]
                               ELSE [cpu |-> 1, memory |-> 2048, disk |-> 20, swap |-> 1024]

\* The single-user profile warns below these.
RecommendedSingleUser == [memory |-> 2048, swap |-> 2048]

RequiredPorts == {80, 443}

-----------------------------------------------------------------------------
(* Collector.Collect *)

\* The last line of a key counts; a key without a line reads as the empty string.
ReleaseValue(lines, key) ==
    LET at == {n \in DOMAIN lines : lines[n][1] = key}
    IN  IF at = {} THEN "" ELSE lines[CHOOSE n \in at : \A k \in at : k <= n][2]

ParseOSRelease(lines) ==
    [id |-> ReleaseValue(lines, "ID"), version |-> ReleaseValue(lines, "VERSION_ID")]

\* Mutant: kilobytes are divided by a thousand.
KbToThousands(kb) == IF kb <= 0 THEN 0 ELSE kb \div 1000

KbToMB(kb) == IF kb <= 0 THEN 0 ELSE kb \div 1024

HasSystemd(host) == host.systemdDir \/ host.comm = "systemd"

Collect(host, profile, plan) ==
    [os       |-> ParseOSRelease(host.release),
     profile  |-> profile,
     cpu      |-> host.cpus,
     memory   |-> KbToMB(host.memoryKB),
     disk     |-> host.diskMB \div 1024,
     swap     |-> KbToMB(host.swapKB),
     root     |-> host.root,
     systemd  |-> HasSystemd(host),
     free     |-> [port \in RequiredPorts |-> port \notin host.listening],
     plan     |-> plan]

\* The facts of --sample: a supported system with the profile's minimum.
Sample(profile, plan) ==
    LET least == MinimumOf(profile)
    IN  [os |-> [id |-> "ubuntu", version |-> "24.04"], profile |-> profile,
         cpu |-> least.cpu, memory |-> least.memory, disk |-> least.disk,
         swap |-> least.swap, root |-> TRUE, systemd |-> TRUE,
         free |-> [port \in RequiredPorts |-> TRUE], plan |-> plan]

-----------------------------------------------------------------------------
(* Run *)

Status(ok) == IF ok THEN "PASS" ELSE "FAIL"

CheckSupport(os) == os.id = "ubuntu" /\ os.version = "24.04"

AtLeast(got, least) == Status(got >= least)

\* Between its minimum and what is recommended a single-user host passes with a
\* warning.
Advised(profile, got, least, recommended) ==
    IF profile = "single-user" /\ got >= least /\ got < recommended
    THEN "WARN"
    ELSE AtLeast(got, least)

Run(facts) ==
    LET least == MinimumOf(facts.profile) IN
    [os         |-> Status(CheckSupport(facts.os)),
     cpu        |-> AtLeast(facts.cpu, least.cpu),
     memory     |-> Advised(facts.profile, facts.memory, least.memory,
                            RecommendedSingleUser.memory),
     disk       |-> AtLeast(facts.disk, least.disk),
     swap       |-> Advised(facts.profile, facts.swap, least.swap,
                            RecommendedSingleUser.swap),
     root       |-> Status(facts.root),
     systemd    |-> Status(facts.systemd),
     postgresql |-> Status(facts.plan \in PostgreSQLPlans),
     ports      |-> Status(\A port \in DOMAIN facts.free : facts.free[port])]

\* Every check that can fail is blocking.
Ready(report) == \A check \in DOMAIN report : report[check] # "FAIL"

-----------------------------------------------------------------------------
(* What the checks promise *)

\* The lines have this one, and none for its key after it.
LastLine(lines, line) ==
    \E n \in DOMAIN lines :
        /\ lines[n] = line
        /\ \A k \in DOMAIN lines : lines[k][1] = line[1] => k <= n

\* A host fits a profile by its own units, whatever is printed of them.
Fits(host, profile) ==
    LET least == MinimumOf(profile) IN
    /\ LastLine(host.release, <<"ID", "ubuntu">>)
    /\ LastLine(host.release, <<"VERSION_ID", "24.04">>)
    /\ host.cpus >= least.cpu
    /\ host.memoryKB >= 1024 * least.memory
    /\ host.diskMB >= 1024 * least.disk
    /\ host.swapKB >= 1024 * least.swap
    /\ host.root
    /\ host.systemdDir \/ host.comm = "systemd"
    /\ RequiredPorts \cap host.listening = {}

=============================================================================
