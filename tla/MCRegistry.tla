----------------------------- MODULE MCRegistry -----------------------------
(* A small instance of Registry for TLC. *)
EXTENDS Registry

CONSTANTS k1, p1

\* One key of one repository, whose slots its commands compete for.
OneKey == [k \in {k1} |-> p1]

(* A bound: time passes only while no content command has been started, and then *)
(* none is.  The semaphores know no time, and the cache no semaphores.           *)
ContentAtOnce == clock' > 0 => \A x \in Contents : pc'[x] = "idle"
=============================================================================
