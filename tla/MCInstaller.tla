----------------------------- MODULE MCInstaller -----------------------------
(* A small instance of Installer for TLC. *)
EXTENDS Installer

MCVersions == 1..2
MCReleases == {1..2}
MCRerunnable == {1}

\* A VPS that fits both profiles, just: shared hosting by its memory and disk, the
\* single-user profile by its swap, of which it warns.
Enough ==
    [release |-> << <<"ID", "debian">>, <<"VERSION_ID", "24.04">>, <<"ID", "ubuntu">> >>,
     cpus |-> 1, memoryKB |-> 2097152, diskMB |-> 20480, swapKB |-> 1048576,
     root |-> TRUE, systemdDir |-> FALSE, comm |-> "systemd", listening |-> {22}]

\* And hosts that miss one profile or both, by one unit or by one line.
MCHosts ==
    {Enough,
     [Enough EXCEPT !.memoryKB = 983039],
     [Enough EXCEPT !.swapKB = 1048575],
     [Enough EXCEPT !.diskMB = 15359],
     [Enough EXCEPT !.release = << <<"VERSION_ID", "24.04">>, <<"ID", "debian">> >>],
     [Enough EXCEPT !.listening = {443}],
     [Enough EXCEPT !.comm = "init"]}

\* What most operators type, and each of its variations.
Usual ==
    [web |-> "nginx", profile |-> "single-user", sample |-> FALSE, systemd |-> TRUE,
     admin |-> "valid"]

MCOptions ==
    {Usual,
     [Usual EXCEPT !.web = "apache"],
     [Usual EXCEPT !.web = "apache", !.systemd = FALSE],
     [Usual EXCEPT !.sample = TRUE, !.admin = "none"],
     [Usual EXCEPT !.admin = "invalid"],
     [Usual EXCEPT !.web = "caddy"],
     [Usual EXCEPT !.profile = "shared-hosting"]}

\* The same with a spelling that ParseWebServer accepts.
SpelledOptions == {Usual, [Usual EXCEPT !.web = "Apache"]}

=============================================================================
