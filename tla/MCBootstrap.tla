----------------------------- MODULE MCBootstrap -----------------------------
(* A small instance of Bootstrap, and of Migrations within it, for TLC. *)
EXTENDS Bootstrap

\* The older release lacks the last migration.
MCVersions == 1..2
MCReleases == {1..1, 1..2}

\* As 000001, which creates only what is not there; 000005 cannot run again.
MCRerunnable == {1}

=============================================================================
