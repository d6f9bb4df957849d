-------------------------------- MODULE Boot --------------------------------
(***************************************************************************)
(* From the command line to the first request: main.go and diagnostics.go, *)
(* config.Load, and repositories.New with the secret files it reads.       *)
(*                                                                         *)
(* The operator may replace a file, or change it in place, between any two *)
(* system calls.  A file is [kind, size, private, body], or None if there  *)
(* is none at the path; the body of a symlink is that of its target.  A    *)
(* file in hand is an open descriptor: it stays what it was when another   *)
(* one takes its path.                                                     *)
(*                                                                         *)
(* restic is missing, or fails to tell its version, or is too old, or is   *)
(* supported, all the time.  The text of reports is left out: a diagnosis  *)
(* is its exit code and the problems it found before the repositories.     *)
(***************************************************************************)
EXTENDS Config

CONSTANTS
  None,
  Paths, ConfigPath,
  Files,        \* Files[p]: what there may be at path p
  BootDisks,    \* what the disk may hold when the program starts
  MaxChanges    \* bound on what the operator changes meanwhile

EnvEntries == [key : STRING, value : STRING]
SecretBodies == [scheme : STRING, absolute : BOOLEAN, entries : Seq(EnvEntries)]
SecretFiles == [kind : STRING, size : Nat, private : BOOLEAN, body : SecretBodies]

\* A secret file that is open: whether it is still at its path, and whether it
\* has been an acceptable one while it was.
Handles == [file : SecretFiles, linked : BOOLEAN, proven : BOOLEAN]

SecretPaths == Paths \ {ConfigPath}

Repositories == [id : STRING, location : SecretPaths, password : SecretPaths,
                 env : Seq(SecretPaths), sound : BOOLEAN]
Configurations ==
  [decodes : BOOLEAN, limits : [LimitFields -> Int], repositories : Seq(Repositories)]
ConfigFiles == [kind : STRING, size : Nat, private : BOOLEAN, body : Configurations]

ASSUME FilesKnown == /\ ConfigPath \in Paths
                     /\ Files[ConfigPath] \subseteq ConfigFiles \cup {None}
                     /\ \A p \in SecretPaths : Files[p] \subseteq SecretFiles \cup {None}
ASSUME DisksKnown == \A d \in BootDisks : DOMAIN d = Paths /\ \A p \in Paths : d[p] \in Files[p]
ASSUME NoneIsNothing ==
  None \notin SecretFiles \cup ConfigFiles \cup Configurations \cup SecretBodies \cup Handles
ASSUME BoundOnChanges == MaxChanges \in Nat

VARIABLES
  mode,       \* "serve", "validate" or "diagnose"
  restic,
  disk,       \* what is at each path
  changes,    \* what the operator has changed
  stage,      \* what the program does next
  config,     \* cfg, or None
  problems,   \* report.Errors so far
  repo,       \* the repository New has come to
  file,       \* which of its secret files
  hand,       \* the secret file that is open, or None
  location,   \* loc
  extra,      \* extra
  sealed,     \* the entries of the registry
  contacted,  \* diagnose: whether each repository answered
  exit,       \* the exit code, or None
  proven,     \* observer: the file at a path was an acceptable secret since the start
  clean       \* observer: the files read for this repository were proven

environment == <<mode, restic, disk, changes, proven>>
reading == <<repo, file, hand, location, extra, clean>>
vars == <<environment, stage, config, problems, reading, sealed, contacted, exit>>

Modes == {"serve", "validate", "diagnose"}
ResticStates == {"missing", "silent", "old", "supported"}

Stages == {"load", "parse", "binary", "version", "lstat", "open", "fstat", "read", "seal",
           "connect", "serving", "exited"}

Sealed == [backend : SupportedBackends, location : SecretBodies, env : Seq(EnvEntries),
           clean : BOOLEAN]

TypeOK ==
  /\ mode \in Modes /\ restic \in ResticStates
  /\ DOMAIN disk = Paths /\ \A p \in Paths : disk[p] \in Files[p]
  /\ changes \in 0..MaxChanges
  /\ stage \in Stages
  /\ config \in Configurations \cup {None}
  /\ config = None => stage \in {"load", "parse", "exited"}
  /\ problems \subseteq {"binary", "version"}
  /\ stage \in {"lstat", "open", "fstat", "read"} =>
       repo \in DOMAIN config.repositories /\ file \in DOMAIN SecretsOf(config.repositories[repo])
  /\ stage = "seal" => repo \in DOMAIN config.repositories
  /\ stage \in {"fstat", "read"} <=> hand # None
  /\ hand \in Handles \cup {None}
  /\ location \in SecretBodies \cup {None}
  /\ extra \in Seq(EnvEntries)
  /\ sealed \in Seq(Sealed) /\ contacted \in Seq(BOOLEAN)
  /\ exit \in {None, 0, 1, 2, 3}
  /\ proven \in [Paths -> BOOLEAN] /\ clean \in BOOLEAN

Proven(f) == f # None /\ SecretAccepted(f)

Init ==
  /\ mode \in Modes /\ restic \in ResticStates
  /\ disk \in BootDisks /\ changes = 0
  /\ stage = "load" /\ config = None /\ problems = {}
  /\ repo = 1 /\ file = 1 /\ hand = None /\ location = None /\ extra = <<>>
  /\ sealed = <<>> /\ contacted = <<>> /\ exit = None
  /\ proven = [p \in Paths |-> Proven(disk[p])] /\ clean = TRUE

-----------------------------------------------------------------------------
(* Whatever goes wrong ends a server; a diagnosis goes on after problems     *)
(* with restic, and ends with the others.                                    *)

Stop(code) == stage' = "exited" /\ exit' = code
GoTo(next) == stage' = next /\ UNCHANGED exit

\* config.Load up to the size check.
CheckConfigFile ==
  /\ stage = "load"
  /\ LET f == disk[ConfigPath] IN
       IF f # None /\ f.kind = "regular" /\ f.size <= MaxConfigBytes
       THEN GoTo("parse") ELSE Stop(2)
  /\ UNCHANGED <<environment, config, problems, reading, sealed, contacted>>

\* os.ReadFile opens whatever is at the path by now; then Parse and Validate.
ReadConfig ==
  /\ stage = "parse"
  /\ LET f == disk[ConfigPath] IN
       IF f # None /\ f.kind \in {"regular", "symlink"} /\ ConfigAccepted(f.body)
       THEN /\ config' = [f.body EXCEPT !.limits = WithDefaults(@)]
            /\ GoTo("binary")
       ELSE UNCHANGED config /\ Stop(2)
  /\ UNCHANGED <<environment, problems, reading, sealed, contacted>>

Trouble(problem, next) ==
  IF mode = "serve"
  THEN UNCHANGED problems /\ Stop(2)
  ELSE problems' = problems \cup {problem} /\ GoTo(next)

\* NewExecRunner
FindBinary ==
  /\ stage = "binary"
  /\ IF restic = "missing" THEN Trouble("binary", "lstat")
     ELSE UNCHANGED problems /\ GoTo("version")
  /\ UNCHANGED <<environment, config, reading, sealed, contacted>>

\* probeResticVersion and CompareVersion
ProbeVersion ==
  /\ stage = "version"
  /\ IF restic = "supported" THEN UNCHANGED problems /\ GoTo("lstat")
     ELSE Trouble("version", "lstat")
  /\ UNCHANGED <<environment, config, reading, sealed, contacted>>

-----------------------------------------------------------------------------
(* New reads the secret files of each repository in turn: OpenSecretFile     *)
(* looks at the path, opens it without following a symlink, looks at what it *)
(* has opened, and reads.  The first error ends it, and the program.         *)

Repository == config.repositories[repo]
Path == SecretsOf(Repository)[file]

CheckSecretPath ==
  /\ stage = "lstat"
  /\ IF Proven(disk[Path]) THEN GoTo("open") ELSE Stop(2)
  /\ UNCHANGED <<environment, config, problems, reading, sealed, contacted>>

OpenSecret ==
  /\ stage = "open"
  /\ IF disk[Path] # None /\ disk[Path].kind # "symlink"
     THEN /\ hand' = [file |-> disk[Path], linked |-> TRUE, proven |-> proven[Path]]
          /\ GoTo("fstat")
     ELSE UNCHANGED hand /\ Stop(2)
  /\ UNCHANGED <<environment, config, problems, repo, file, location, extra, clean,
                 sealed, contacted>>

\* Slip: what was seen at the path is taken for what has been opened.
CheckOpenSecretNot ==
  /\ stage = "fstat"
  /\ GoTo("read")
  /\ UNCHANGED <<environment, config, problems, reading, sealed, contacted>>

CheckOpenSecret ==
  /\ stage = "fstat"
  /\ IF SecretAccepted(hand.file) THEN GoTo("read") /\ UNCHANGED hand ELSE Stop(2) /\ hand' = None
  /\ UNCHANGED <<environment, config, problems, repo, file, location, extra, clean,
                 sealed, contacted>>

\* What is made of the bytes: the location, nothing of a password, more entries.
TextAccepted(body) ==
  CASE file = 1 -> LocationAccepted(body)
    [] file = 2 -> ClassifyBackend(location) \in SupportedBackends
    [] OTHER -> EnvFileAccepted(body)

ReadSecret ==
  /\ stage = "read"
  /\ LET f == hand.file IN
       IF f.size <= MaxSecretBytes /\ TextAccepted(f.body)
       THEN /\ location' = IF file = 1 THEN f.body ELSE location
            /\ extra' = IF file > 2 THEN extra \o f.body.entries ELSE extra
            /\ file' = file + 1
            /\ GoTo(IF file < Len(SecretsOf(Repository)) THEN "lstat" ELSE "seal")
       ELSE UNCHANGED <<location, extra, file>> /\ Stop(2)
  /\ hand' = None /\ clean' = (clean /\ hand.proven)
  /\ UNCHANGED <<environment, config, problems, repo, sealed, contacted>>

\* What follows New when it has sealed all repositories.
Conclude ==
  CASE mode = "serve" -> GoTo("serving")
    [] mode = "diagnose" /\ restic # "missing" -> GoTo("connect")
    [] mode = "diagnose" /\ restic = "missing" -> Stop(2)
    [] mode = "validate" -> Stop(IF problems = {} THEN 0 ELSE 2)

SealFrom(text) ==
  /\ stage = "seal"
  /\ IF /\ ClassifyBackend(location) = "s3" => HasStaticS3Credentials(extra)
        /\ ChildEnvAccepted(extra)
     THEN /\ sealed' = Append(sealed, [backend |-> ClassifyBackend(location), location |-> text,
                                       env |-> extra, clean |-> clean])
          /\ repo' = repo + 1
          /\ IF repo < Len(config.repositories) THEN GoTo("lstat") ELSE Conclude
     ELSE UNCHANGED <<sealed, repo>> /\ Stop(2)
  /\ file' = 1 /\ location' = None /\ extra' = <<>> /\ clean' = TRUE
  /\ UNCHANGED <<environment, config, problems, hand, contacted>>

\* Slip: the child is given the location its file holds by now.
SealRepositoryReread ==
  SealFrom(IF disk[Repository.location] = None THEN location ELSE disk[Repository.location].body)

\* BuildChildEnv, and the entry of the registry.
SealRepository == SealFrom(location)

\* Slip: only the last answer counts.
LastAnswered(outcomes) == outcomes[Len(outcomes)]

AllAnswered(outcomes) == \A i \in DOMAIN outcomes : outcomes[i]

\* checkRepositoryConnectivity: `restic snapshots`, with no restriction but its timeout.
Contact(answers) ==
  /\ stage = "connect"
  /\ contacted' = Append(contacted, answers)
  /\ IF Len(contacted') < Len(sealed) THEN GoTo("connect")
     ELSE Stop(IF problems # {} THEN 2
               ELSE IF AllAnswered(contacted') THEN 0 ELSE 3)
  /\ UNCHANGED <<environment, config, problems, reading, sealed>>

\* srv.Run returns: 0 if a signal ended it, 1 if it failed.
ServerEnds(code) ==
  /\ stage = "serving"
  /\ Stop(code)
  /\ UNCHANGED <<environment, config, problems, reading, sealed, contacted>>

-----------------------------------------------------------------------------
(* The operator, at work while the program starts. *)

Changes(p, f) ==
  /\ stage \notin {"serving", "exited"} /\ changes < MaxChanges
  /\ f # disk[p]
  /\ disk' = [disk EXCEPT ![p] = f] /\ changes' = changes + 1
  /\ UNCHANGED <<mode, restic, stage, config, problems, repo, file, location, extra, clean,
                 sealed, contacted, exit>>

InHand(p) == hand # None /\ p = Path

\* Another file is put in its place, or it is removed.
Replace(p, f) ==
  /\ Changes(p, f)
  /\ proven' = [proven EXCEPT ![p] = Proven(f)]
  /\ hand' = IF InHand(p) THEN [hand EXCEPT !.linked = FALSE] ELSE hand

\* The file is written to, or its permissions are changed.
Edit(p, f) ==
  /\ disk[p] # None /\ f # None /\ f.kind = disk[p].kind /\ f.kind # "symlink"
  /\ Changes(p, f)
  /\ proven' = [proven EXCEPT ![p] = @ \/ Proven(f)]
  /\ hand' = IF InHand(p) /\ hand.linked
             THEN [file |-> f, linked |-> TRUE, proven |-> hand.proven \/ Proven(f)]
             ELSE hand

Start == CheckConfigFile \/ ReadConfig \/ FindBinary \/ ProbeVersion

Register ==
  CheckSecretPath \/ OpenSecret \/ CheckOpenSecret \/ ReadSecret \/ SealRepository

Next ==
  \/ Start
  \/ Register
  \/ \E answers \in BOOLEAN : Contact(answers)
  \/ \E code \in {0, 1} : ServerEnds(code)
  \/ \E p \in Paths : \E f \in Files[p] : Replace(p, f) \/ Edit(p, f)

Spec == Init /\ [][Next]_vars

-----------------------------------------------------------------------------
(* What must be right of the files, said of the disk as it is. *)

SecretIsGood(p) == disk[p] # None /\ SecretAccepted(disk[p])

Entries(r) == UNION {{<<n, i>> : i \in DOMAIN disk[r.env[n]].body.entries} : n \in DOMAIN r.env}
EntryAt(r, e) == disk[r.env[e[1]]].body.entries[e[2]]

RepositoryIsGood(r) ==
  /\ SecretIsGood(r.location) /\ SecretIsGood(r.password)
  /\ \A n \in DOMAIN r.env : SecretIsGood(r.env[n])
  /\ LET at == disk[r.location].body IN
       /\ at.scheme \in {"s3", "b2", "rest"} \/ (at.scheme = "" /\ at.absolute)
       /\ at.scheme = "s3" =>
            \E d, e \in Entries(r) :
              /\ EntryAt(r, d).key = "AWS_ACCESS_KEY_ID" /\ EntryAt(r, d).value # ""
              /\ EntryAt(r, e).key = "AWS_SECRET_ACCESS_KEY" /\ EntryAt(r, e).value # ""
  /\ \A e \in Entries(r) : EntryAccepted(EntryAt(r, e))
  /\ Cardinality({EntryAt(r, e).key : e \in Entries(r)}) = Cardinality(Entries(r))

Healthy ==
  LET f == disk[ConfigPath] IN
  /\ f # None /\ f.kind = "regular" /\ f.size <= MaxConfigBytes /\ ConfigAccepted(f.body)
  /\ restic = "supported"
  /\ \A i \in DOMAIN f.body.repositories : RepositoryIsGood(f.body.repositories[i])

\* If nobody changed a file, the server starts exactly if all is as it must be; a
\* validation says 0 then and 2 otherwise, and a diagnosis 0 or 3 according to
\* whether every repository answered.
VerdictTrue ==
  changes = 0 =>
    /\ stage = "serving" => Healthy
    /\ stage = "exited" /\ mode = "serve" => (exit = 2 <=> ~Healthy)
    /\ stage = "exited" /\ mode = "validate" => exit = IF Healthy THEN 0 ELSE 2
    /\ stage = "exited" /\ mode = "diagnose" =>
         exit = IF ~Healthy THEN 2
                ELSE IF \A i \in DOMAIN config.repositories : contacted[i] THEN 0 ELSE 3

\* Whatever is changed during the boot, an entry of the registry is of one piece:
\* the location a child is given is the one whose backend was allowed, an S3
\* entry has its credentials, and no variable is given twice.
SealedInOnePiece ==
  \A i \in DOMAIN sealed :
    LET e == sealed[i] IN
    /\ e.backend \in SupportedBackends /\ e.backend = ClassifyBackend(e.location)
    /\ e.backend = "s3" => HasStaticS3Credentials(e.env)
    /\ \A m, n \in DOMAIN e.env : e.env[m].key = e.env[n].key => m = n

\* Every secret that was sealed was read from a file that was regular, private
\* and of the right size while it was at its path, whatever was put there
\* between two looks at it.
SealedFromProvenFiles == \A i \in DOMAIN sealed : sealed[i].clean

\* The limits that are let through are those the other components need: slots
\* there are, pages are not empty, an expensive command has no less time than
\* another, and there is room in the cache exactly if it is on.
LimitsFit ==
  config # None =>
    LET l == config.limits IN
    /\ \A f \in SetFields : l[f] >= 1
    /\ l.command <= l.expensive
    /\ l.ttl > 0 <=> l.entries > 0
=============================================================================
