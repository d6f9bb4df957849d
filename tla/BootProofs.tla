----------------------------- MODULE BootProofs -----------------------------
(***************************************************************************)
(* What is proved of Boot, for every set of files, every configuration and *)
(* every change the operator makes meanwhile: its variables have their     *)
(* types; an entry of the registry is of one piece, and was read from      *)
(* files that were acceptable while at their paths; the limits let through *)
(* are fit for the other components; and as long as nobody changes a file, *)
(* the exit code says the truth about all of them.                         *)
(***************************************************************************)
EXTENDS Boot, SequenceTheorems, FunctionTheorems, FiniteSetTheorems, TLAPS

Reading == {"lstat", "open", "fstat", "read"}

(* The secret files of a repository. *)
LEMMA SecretsAreSecret ==
  ASSUME NEW r \in Repositories
  PROVE  /\ SecretsOf(r) \in Seq(SecretPaths)
         /\ Len(SecretsOf(r)) \in Nat /\ Len(SecretsOf(r)) >= 2
  <1>1. <<r.location, r.password>> \in Seq(SecretPaths) /\ Len(<<r.location, r.password>>) = 2
    BY DEF Repositories
  <1>2. r.env \in Seq(SecretPaths) /\ Len(r.env) \in Nat  BY LenProperties DEF Repositories
  <1> QED  BY <1>1, <1>2, ConcatProperties DEF SecretsOf

LEMMA RepositoryKnown ==
  ASSUME TypeOK, stage \in Reading \cup {"seal"}
  PROVE  /\ config \in Configurations /\ config.repositories \in Seq(Repositories)
         /\ repo \in 1..Len(config.repositories) /\ Repository \in Repositories
  <1>1. config \in Configurations  BY DEF TypeOK, Reading
  <1>2. config.repositories \in Seq(Repositories)  BY <1>1 DEF Configurations
  <1>3. repo \in DOMAIN config.repositories  BY DEF TypeOK, Reading
  <1> QED  BY <1>1, <1>2, <1>3, LenProperties, ElementOfSeq DEF Repository

LEMMA PathIsSecret ==
  ASSUME TypeOK, stage \in Reading
  PROVE  /\ file \in 1..Len(SecretsOf(Repository)) /\ Path \in SecretPaths
         /\ disk[Path] \in SecretFiles \cup {None}
  <1>1. Repository \in Repositories  BY RepositoryKnown
  <1>2. SecretsOf(Repository) \in Seq(SecretPaths)  BY <1>1, SecretsAreSecret
  <1>3. file \in DOMAIN SecretsOf(Repository)  BY DEF TypeOK, Reading, Repository
  <1>4. file \in 1..Len(SecretsOf(Repository)) /\ Path \in SecretPaths
    BY <1>2, <1>3, LenProperties, ElementOfSeq DEF Path
  <1>5. Path \in Paths /\ disk[Path] \in Files[Path]  BY <1>4 DEF SecretPaths, TypeOK
  <1> QED  BY <1>4, <1>5, FilesKnown

-----------------------------------------------------------------------------
(* The inductive invariant. *)

(* Nothing is read of a repository before there is one. *)
Begun == stage \in {"load", "parse", "binary", "version"} => repo = 1 /\ file = 1

(* Fit is what LimitsFit says of the limits of a configuration. *)
Fit(l) ==
  /\ \A f \in SetFields : l[f] >= 1
  /\ l.command <= l.expensive
  /\ l.ttl > 0 <=> l.entries > 0

ConfigFits == config # None => 1 \in DOMAIN config.repositories /\ Fit(config.limits)

(* The observers know of every acceptable file that is in reach. *)
Observed ==
  /\ \A p \in Paths : Proven(disk[p]) => proven[p]
  /\ hand # None => (SecretAccepted(hand.file) => hand.proven)
  /\ stage = "read" => hand.proven
  /\ clean

(* The location has been read, and its backend allowed. *)
Located ==
  /\ (stage \in Reading /\ file > 1) \/ stage = "seal" => location \in SecretBodies
  /\ (stage \in Reading /\ file > 2) \/ stage = "seal" =>
       ClassifyBackend(location) \in SupportedBackends

WholeEntries ==
  {e \in Sealed : /\ e.backend = ClassifyBackend(e.location)
                  /\ e.backend = "s3" => HasStaticS3Credentials(e.env)
                  /\ ChildEnvAccepted(e.env)
                  /\ e.clean}

BootInv == /\ TypeOK /\ Begun /\ ConfigFits /\ Observed /\ Located
           /\ sealed \in Seq(WholeEntries)

LEMMA LowestArePositive == \A f \in SetFields : 
  Defaults[f] \in Int /\ Lowest[f] \in Int /\ Lowest[f] >= 1
  BY DEF SetFields, Defaults, Lowest

LEMMA NamedFields ==
  /\ {"command", "expensive"} \subseteq SetFields /\ SetFields \subseteq LimitFields
  /\ {"ttl", "entries"} \subseteq LimitFields /\ "ttl" \notin SetFields
  /\ "entries" \notin SetFields
  BY DEF SetFields, LimitFields

LEMMA DefaultsFit ==
  ASSUME NEW l \in [LimitFields -> Int], LimitsAccepted(WithDefaults(l))
  PROVE  WithDefaults(l) \in [LimitFields -> Int] /\ Fit(WithDefaults(l))
  <1>1. WithDefaults(l) \in [LimitFields -> Int]
    BY LowestArePositive DEF WithDefaults, DefaultCacheEntries
  <1>2. /\ WithDefaults(l).ttl = l.ttl
        /\ WithDefaults(l).entries = IF l.entries = 0 /\ l.ttl > 0 THEN 128 ELSE l.entries
    BY NamedFields DEF WithDefaults, DefaultCacheEntries
  <1> DEFINE w == WithDefaults(l)
  <1> HIDE DEF w
  <1>3. w \in [LimitFields -> Int] /\ LimitsAccepted(w)  BY <1>1 DEF w
  <1>4. \A f \in SetFields : w[f] >= 1
    <2> TAKE f \in SetFields
    <2>1. w[f] \in Lowest[f]..Highest[f]  BY <1>3, Zenon DEF LimitsAccepted
    <2>2. w[f] >= Lowest[f] /\ w[f] \in Int  BY <2>1, <1>3, NamedFields
    <2>3. Lowest[f] \in Int /\ Lowest[f] >= 1  BY LowestArePositive
    <2> QED  BY <2>1, <2>2, <2>3
  <1>5. w.command <= w.expensive
    <2>1. w.expensive >= w.command  BY <1>3, Zenon DEF LimitsAccepted
    <2>2. w.command \in Int /\ w.expensive \in Int  BY <1>3, NamedFields
    <2> QED  BY <2>1, <2>2
  <1>6. (w.ttl = 0 \/ w.ttl >= 1000) /\ (w.ttl = 0 => w.entries = 0) /\ w.entries >= 0
    <2>1. w.ttl = 0 \/ w.ttl \in LeastCacheTTL..MostCacheTTL  BY <1>3, Zenon DEF LimitsAccepted
    <2>2. w.ttl = 0 => w.entries = 0  BY <1>3, Zenon DEF LimitsAccepted
    <2>3. w.entries \in 0..MostCacheEntries  BY <1>3, Zenon DEF LimitsAccepted
    <2>4. w.ttl = 0 \/ w.ttl >= 1000
      <3>1. LeastCacheTTL \in Int /\ LeastCacheTTL >= 1000 /\ MostCacheTTL \in Int
        BY SMT DEF LeastCacheTTL, MostCacheTTL
      <3> QED  BY <2>1, <3>1, SMT
    <2>5. w.entries >= 0  BY <2>3
    <2> QED  BY <2>2, <2>4, <2>5
  <1>7. w.ttl = l.ttl /\ w.entries = IF l.entries = 0 /\ l.ttl > 0 THEN 128 ELSE l.entries
    BY <1>2 DEF w
  <1>8. w.ttl > 0 <=> w.entries > 0
    <2>1. l.ttl \in Int /\ l.entries \in Int  BY NamedFields
    <2> QED  BY <2>1, <1>6, <1>7
  <1>9. w \in [LimitFields -> Int] /\ Fit(w)  BY <1>3, <1>4, <1>5, <1>8, Zenon DEF Fit
  <1> QED  BY <1>9, Zenon DEF w

LEMMA InitInv == Init => BootInv
  <1> SUFFICES ASSUME Init PROVE BootInv  OBVIOUS
  <1>1. DOMAIN disk = Paths /\ \A p \in Paths : disk[p] \in Files[p]  BY DisksKnown DEF Init
  <1>2. proven \in [Paths -> BOOLEAN]
    BY DEF Init, Proven, SecretAccepted, SecretFiles
  <1>3. TypeOK  BY <1>1, <1>2, BoundOnChanges, EmptySeq DEF Init, TypeOK, Stages
  <1>4. sealed \in Seq(WholeEntries)  BY EmptySeq DEF Init
  <1> QED  BY <1>3, <1>4 DEF Init, BootInv, Begun, ConfigFits, Observed, Located, Reading

-----------------------------------------------------------------------------
(* Steps that leave the disk, the registry and the observers alone. *)

LEMMA FirstSecret ==
  ASSUME NEW c \in Configurations, NEW i \in DOMAIN c.repositories
  PROVE  1 \in DOMAIN SecretsOf(c.repositories[i])
  <1>1. c.repositories \in Seq(Repositories)  BY DEF Configurations
  <1>2. c.repositories[i] \in Repositories  BY <1>1, LenProperties, ElementOfSeq
  <1>3. /\ SecretsOf(c.repositories[i]) \in Seq(SecretPaths)
        /\ Len(SecretsOf(c.repositories[i])) \in Nat /\ Len(SecretsOf(c.repositories[i])) >= 2
    BY <1>2, SecretsAreSecret
  <1> QED  BY <1>3, LenProperties

LEMMA CheckConfigFileStep == ASSUME BootInv, CheckConfigFile PROVE BootInv'
  <1> USE DEF BootInv, CheckConfigFile, environment, reading, GoTo, Stop
  <1>1. stage' \in {"parse", "exited"} /\ exit' \in {None, 0, 1, 2, 3}  BY DEF TypeOK
  <1>2. TypeOK'  BY <1>1 DEF TypeOK, Stages
  <1>3. Begun' /\ ConfigFits' /\ Located' /\ (sealed \in Seq(WholeEntries))'
    BY <1>1 DEF Begun, ConfigFits, Located, Reading
  <1>4. Observed'  BY <1>1 DEF Observed
  <1> QED  BY <1>2, <1>3, <1>4

LEMMA ReadConfigStep == ASSUME BootInv, ReadConfig PROVE BootInv'
  <1> DEFINE f == disk[ConfigPath]
             accepted == f # None /\ f.kind \in {"regular", "symlink"} /\ ConfigAccepted(f.body)
  <1>1. /\ stage = "parse" /\ hand = None
        /\ UNCHANGED <<environment, problems, reading, sealed, contacted>>
    BY DEF BootInv, TypeOK, ReadConfig
  <1>2. CASE accepted
    <2>1. f \in ConfigFiles  BY <1>2, FilesKnown DEF BootInv, TypeOK
    <2>2. f.body \in Configurations  BY <2>1 DEF ConfigFiles
    <2>3. /\ config' = [f.body EXCEPT !.limits = WithDefaults(@)]
          /\ stage' = "binary" /\ exit' = exit
      BY <1>2 DEF ReadConfig, GoTo
    <2>4. LimitsAccepted(WithDefaults(f.body.limits)) /\ Len(f.body.repositories) \in 1..32
      BY <1>2 DEF ConfigAccepted
    <2>5. f.body.limits \in [LimitFields -> Int] /\ f.body.repositories \in Seq(Repositories)
      BY <2>2 DEF Configurations
    <2>6. /\ WithDefaults(f.body.limits) \in [LimitFields -> Int]
          /\ Fit(WithDefaults(f.body.limits))
      BY <2>4, <2>5, DefaultsFit
    <2>7. /\ config' \in Configurations /\ config'.limits = WithDefaults(f.body.limits)
          /\ config'.repositories = f.body.repositories
      BY <2>2, <2>3, <2>6 DEF Configurations
    <2>8. 1 \in DOMAIN config'.repositories  BY <2>4, <2>5, <2>7, LenProperties
    <2>9. TypeOK'
      BY <1>1, <2>3, <2>7, NoneIsNothing DEF BootInv, TypeOK, Stages, environment, reading
    <2>10. ConfigFits'  BY <2>6, <2>7, <2>8, Zenon DEF ConfigFits
    <2>11. Begun' /\ Observed' /\ Located' /\ (sealed \in Seq(WholeEntries))'
      BY <1>1, <2>3 DEF BootInv, Begun, Observed, Located, Reading, environment, reading
    <2> QED  BY <2>9, <2>10, <2>11 DEF BootInv
  <1>3. CASE ~accepted
    <2>1. config' = config /\ stage' = "exited" /\ exit' = 2  BY <1>3 DEF ReadConfig, Stop
    <2>2. TypeOK'  BY <1>1, <2>1 DEF BootInv, TypeOK, Stages, environment, reading
    <2>3. ConfigFits'  BY <2>1, Zenon DEF BootInv, ConfigFits
    <2>4. Begun' /\ Observed' /\ Located' /\ (sealed \in Seq(WholeEntries))'
      BY <1>1, <2>1 DEF BootInv, Begun, Observed, Located, Reading, environment, reading
    <2> QED  BY <2>2, <2>3, <2>4 DEF BootInv
  <1> QED  BY <1>2, <1>3

(* Looking for restic, and asking for its version. *)
LEMMA ProbeStep == ASSUME BootInv, FindBinary \/ ProbeVersion PROVE BootInv'
  <1>1. /\ stage \in {"binary", "version"} /\ stage' \in {"version", "lstat", "exited"}
        /\ exit' \in {exit, 2} /\ problems' \in {problems, problems \cup {"binary"},
                                                 problems \cup {"version"}}
        /\ UNCHANGED <<environment, config, reading, sealed, contacted>>
    BY DEF FindBinary, ProbeVersion, Trouble, GoTo, Stop
  <1>2. hand = None /\ config \in Configurations /\ config # None /\ repo = 1 /\ file = 1
    BY <1>1, NoneIsNothing DEF BootInv, TypeOK, Begun
  <1>3. repo \in DOMAIN config.repositories /\ file \in DOMAIN SecretsOf(config.repositories[repo])
    BY <1>2, FirstSecret DEF BootInv, ConfigFits
  <1>4. TypeOK'
    BY <1>1, <1>2, <1>3 DEF BootInv, TypeOK, Stages, environment, reading
  <1>5. ConfigFits'  BY <1>1, Zenon DEF BootInv, ConfigFits
  <1>6. Begun' /\ Observed' /\ Located' /\ (sealed \in Seq(WholeEntries))'
    BY <1>1, <1>2 DEF BootInv, Begun, Observed, Located, Reading, environment, reading
  <1> QED  BY <1>4, <1>5, <1>6 DEF BootInv

LEMMA CheckSecretPathStep == ASSUME BootInv, CheckSecretPath PROVE BootInv'
  <1>1. /\ stage = "lstat" /\ stage' \in {"open", "exited"} /\ exit' \in {exit, 2}
        /\ UNCHANGED <<environment, config, problems, reading, sealed, contacted>>
    BY DEF CheckSecretPath, GoTo, Stop
  <1>2. TypeOK'  BY <1>1 DEF BootInv, TypeOK, Stages, environment, reading
  <1>3. ConfigFits'  BY <1>1, Zenon DEF BootInv, ConfigFits
  <1>4. Begun' /\ Observed' /\ Located' /\ (sealed \in Seq(WholeEntries))'
    BY <1>1 DEF BootInv, Begun, Observed, Located, Reading, environment, reading
  <1> QED  BY <1>2, <1>3, <1>4 DEF BootInv

LEMMA OpenSecretStep == ASSUME BootInv, OpenSecret PROVE BootInv'
  <1>1. /\ stage = "open" /\ hand = None
        /\ UNCHANGED <<environment, config, problems, repo, file, location, extra, clean,
                       sealed, contacted>>
    BY DEF OpenSecret, BootInv, TypeOK
  <1>2. Path \in Paths /\ disk[Path] \in SecretFiles \cup {None}
    BY <1>1, PathIsSecret DEF BootInv, Reading, SecretPaths
  <1>3. ConfigFits'  BY <1>1, Zenon DEF BootInv, ConfigFits
  <1>4. CASE disk[Path] # None /\ disk[Path].kind # "symlink"
    <2>1. /\ hand' = [file |-> disk[Path], linked |-> TRUE, proven |-> proven[Path]]
          /\ stage' = "fstat" /\ exit' = exit
      BY <1>4 DEF OpenSecret, GoTo
    <2>2. hand' \in Handles  BY <1>2, <1>4, <2>1 DEF Handles, BootInv, TypeOK
    <2>3. hand' # None  BY <2>1, <2>2, NoneIsNothing
    <2>4. TypeOK'  BY <1>1, <2>1, <2>2, <2>3 DEF BootInv, TypeOK, Stages, environment
    <2>5. SecretAccepted(disk[Path]) => proven[Path]
      BY <1>2, <1>4 DEF BootInv, Observed, Proven
    <2>6. Observed'  BY <1>1, <2>1, <2>5 DEF BootInv, Observed, environment
    <2>7. Begun' /\ Located' /\ (sealed \in Seq(WholeEntries))'
      BY <1>1, <2>1 DEF BootInv, Begun, Located, Reading
    <2> QED  BY <1>3, <2>1, <2>4, <2>6, <2>7 DEF BootInv
  <1>5. CASE ~(disk[Path] # None /\ disk[Path].kind # "symlink")
    <2>1. hand' = hand /\ stage' = "exited" /\ exit' = 2  BY <1>5 DEF OpenSecret, Stop
    <2>2. TypeOK'  BY <1>1, <2>1 DEF BootInv, TypeOK, Stages, environment
    <2>3. Begun' /\ Observed' /\ Located' /\ (sealed \in Seq(WholeEntries))'
      BY <1>1, <2>1 DEF BootInv, Begun, Observed, Located, Reading, environment
    <2> QED  BY <1>3, <2>1, <2>2, <2>3 DEF BootInv
  <1> QED  BY <1>4, <1>5

LEMMA CheckOpenSecretStep == ASSUME BootInv, CheckOpenSecret PROVE BootInv'
  <1>1. /\ stage = "fstat" /\ hand # None /\ hand \in Handles
        /\ UNCHANGED <<environment, config, problems, repo, file, location, extra, clean,
                       sealed, contacted>>
    BY DEF CheckOpenSecret, BootInv, TypeOK
  <1>2. ConfigFits'  BY <1>1, Zenon DEF BootInv, ConfigFits
  <1>3. CASE SecretAccepted(hand.file)
    <2>1. hand' = hand /\ stage' = "read" /\ exit' = exit
      BY <1>3 DEF CheckOpenSecret, GoTo
    <2>2. hand.proven  BY <1>1, <1>3 DEF BootInv, Observed
    <2>3. TypeOK'  BY <1>1, <2>1 DEF BootInv, TypeOK, Stages, environment
    <2>4. Begun' /\ Observed' /\ Located' /\ (sealed \in Seq(WholeEntries))'
      BY <1>1, <2>1, <2>2 DEF BootInv, Begun, Observed, Located, Reading, environment
    <2> QED  BY <1>2, <2>3, <2>4 DEF BootInv
  <1>4. CASE ~SecretAccepted(hand.file)
    <2>1. hand' = None /\ stage' = "exited" /\ exit' = 2
      BY <1>4 DEF CheckOpenSecret, Stop
    <2>2. TypeOK'  BY <1>1, <2>1 DEF BootInv, TypeOK, Stages, environment
    <2>3. Begun' /\ Observed' /\ Located' /\ (sealed \in Seq(WholeEntries))'
      BY <1>1, <2>1 DEF BootInv, Begun, Observed, Located, Reading, environment
    <2> QED  BY <1>2, <2>2, <2>3 DEF BootInv
  <1> QED  BY <1>3, <1>4

LEMMA ReadSecretStep == ASSUME BootInv, ReadSecret PROVE BootInv'
  <1> DEFINE f == hand.file
             accepted == f.size <= MaxSecretBytes /\ TextAccepted(f.body)
  <1>1. /\ stage = "read" /\ hand # None /\ hand \in Handles /\ hand' = None
        /\ UNCHANGED <<environment, config, problems, repo, sealed, contacted>>
        /\ clean' = (clean /\ hand.proven)
    BY DEF ReadSecret, BootInv, TypeOK
  <1>2. clean'  BY <1>1 DEF BootInv, Observed
  <1>3. ConfigFits'  BY <1>1, Zenon DEF BootInv, ConfigFits
  <1>4. Observed'  BY <1>1, <1>2 DEF BootInv, Observed, ReadSecret, GoTo, Stop, environment
  <1>5. f.body \in SecretBodies  BY <1>1 DEF Handles, SecretFiles
  <1>6. CASE accepted
    <2>1. /\ location' = (IF file = 1 THEN f.body ELSE location)
          /\ extra' = (IF file > 2 THEN extra \o f.body.entries ELSE extra)
          /\ file' = file + 1 /\ exit' = exit
          /\ stage' = (IF file < Len(SecretsOf(Repository)) THEN "lstat" ELSE "seal")
          /\ TextAccepted(f.body)
      BY <1>6 DEF ReadSecret, GoTo
    <2>2. /\ config.repositories[repo] = Repository /\ repo \in DOMAIN config.repositories
          /\ Repository \in Repositories /\ config # None
      BY <1>1, RepositoryKnown DEF BootInv, TypeOK, Reading, Repository
    <2>3. /\ file \in 1..Len(SecretsOf(Repository))
          /\ SecretsOf(Repository) \in Seq(SecretPaths)
          /\ Len(SecretsOf(Repository)) \in Nat /\ Len(SecretsOf(Repository)) >= 2
      BY <1>1, <2>2, PathIsSecret, SecretsAreSecret DEF BootInv, Reading
    <2>4. DOMAIN SecretsOf(Repository) = 1..Len(SecretsOf(Repository))
      BY <2>3, LenProperties
    <2>5. extra' \in Seq(EnvEntries)
      BY <1>5, <2>1, ConcatProperties DEF BootInv, TypeOK, SecretBodies
    <2>6. location' \in SecretBodies
      BY <1>1, <1>5, <2>1, <2>3 DEF BootInv, Located, Reading
    <2>7. stage' = "lstat" => file' \in DOMAIN SecretsOf(config'.repositories[repo'])
      BY <1>1, <2>1, <2>2, <2>3, <2>4
    <2>8. TypeOK'
      BY <1>1, <1>2, <2>1, <2>2, <2>5, <2>6, <2>7 DEF BootInv, TypeOK, Stages, environment
    <2>9. file >= 2 => ClassifyBackend(location') \in SupportedBackends
      BY <1>1, <2>1, <2>3 DEF BootInv, Located, Reading, TextAccepted
    <2>10. Begun' /\ Located' /\ (sealed \in Seq(WholeEntries))'
      BY <1>1, <2>1, <2>3, <2>6, <2>9 DEF BootInv, Begun, Located, Reading
    <2> QED  BY <1>3, <1>4, <2>8, <2>10 DEF BootInv
  <1>7. CASE ~accepted
    <2>1. UNCHANGED <<location, extra, file>> /\ stage' = "exited" /\ exit' = 2
      BY <1>7 DEF ReadSecret, Stop
    <2>2. TypeOK'  BY <1>1, <1>2, <2>1 DEF BootInv, TypeOK, Stages, environment
    <2>3. Begun' /\ Located' /\ (sealed \in Seq(WholeEntries))'
      BY <1>1, <2>1 DEF BootInv, Begun, Located, Reading
    <2> QED  BY <1>3, <1>4, <2>2, <2>3 DEF BootInv
  <1> QED  BY <1>6, <1>7

LEMMA SealRepositoryStep == ASSUME BootInv, SealRepository PROVE BootInv'
  <1> DEFINE e == [backend |-> ClassifyBackend(location), location |-> location,
                   env |-> extra, clean |-> clean]
             accepted == /\ ClassifyBackend(location) = "s3" => HasStaticS3Credentials(extra)
                         /\ ChildEnvAccepted(extra)
  <1>1. /\ stage = "seal" /\ hand = None /\ config # None
        /\ file' = 1 /\ location' = None /\ extra' = <<>> /\ clean' = TRUE
        /\ UNCHANGED <<environment, config, problems, hand, contacted>>
    BY DEF SealRepository, SealFrom, BootInv, TypeOK
  <1>2. ConfigFits'  BY <1>1, Zenon DEF BootInv, ConfigFits
  <1>3. extra' \in Seq(EnvEntries)  BY <1>1, EmptySeq
  <1>4. CASE accepted
    <2>1. sealed' = Append(sealed, e) /\ repo' = repo + 1
          /\ IF repo < Len(config.repositories) THEN GoTo("lstat") ELSE Conclude
      BY <1>4 DEF SealRepository, SealFrom
    <2>2. /\ stage' \in {"lstat", "serving", "connect", "exited"}
          /\ stage' = "lstat" => repo < Len(config.repositories)
          /\ exit' \in {exit, 0, 2}
      BY <2>1 DEF Conclude, GoTo, Stop, BootInv, TypeOK, Modes
    <2>3. /\ e.backend \in SupportedBackends /\ e.location \in SecretBodies
          /\ e.env \in Seq(EnvEntries) /\ e.clean = TRUE
      BY <1>1 DEF BootInv, TypeOK, Located, Observed
    <2>4. e \in Sealed /\ e \in WholeEntries
      BY <1>4, <2>3 DEF Sealed, WholeEntries
    <2>5. sealed' \in Seq(Sealed) /\ sealed' \in Seq(WholeEntries)
      BY <2>1, <2>4, AppendProperties DEF BootInv, TypeOK
    <2>6. /\ config \in Configurations /\ config.repositories \in Seq(Repositories)
          /\ repo \in 1..Len(config.repositories)
      BY <1>1, RepositoryKnown DEF BootInv
    <2>7. stage' = "lstat" => repo' \in DOMAIN config.repositories
      BY <2>1, <2>2, <2>6, LenProperties
    <2>8. stage' = "lstat" => /\ repo' \in DOMAIN config'.repositories
                              /\ file' \in DOMAIN SecretsOf(config'.repositories[repo'])
      BY <1>1, <2>6, <2>7, FirstSecret
    <2>9. TypeOK'
      BY <1>1, <1>3, <2>2, <2>5, <2>8 DEF BootInv, TypeOK, Stages, environment
    <2>10. Begun' /\ Observed' /\ Located'
      BY <1>1, <2>2 DEF BootInv, Begun, Observed, Located, Reading, environment
    <2> QED  BY <1>2, <2>5, <2>9, <2>10 DEF BootInv
  <1>5. CASE ~accepted
    <2>1. UNCHANGED <<sealed, repo>> /\ stage' = "exited" /\ exit' = 2
      BY <1>5 DEF SealRepository, SealFrom, Stop
    <2>2. TypeOK'  BY <1>1, <1>3, <2>1 DEF BootInv, TypeOK, Stages, environment
    <2>3. Begun' /\ Observed' /\ Located' /\ (sealed \in Seq(WholeEntries))'
      BY <1>1, <2>1 DEF BootInv, Begun, Observed, Located, Reading, environment
    <2> QED  BY <1>2, <2>2, <2>3 DEF BootInv
  <1> QED  BY <1>4, <1>5

(* What follows New: the repositories answer, or the server ends. *)
LEMMA AfterwardsStep ==
  ASSUME BootInv, (\E answers \in BOOLEAN : Contact(answers)) \/ \E code \in {0, 1} : ServerEnds(code)
  PROVE  BootInv'
  <1>1. /\ stage \in {"connect", "serving"} /\ stage' \in {"connect", "exited"}
        /\ exit' \in {exit, 0, 1, 2, 3}
        /\ UNCHANGED <<environment, config, problems, reading, sealed>>
    BY DEF Contact, ServerEnds, GoTo, Stop
  <1>2. contacted' \in Seq(BOOLEAN)
    <2>1. CASE \E answers \in BOOLEAN : Contact(answers)
      BY <2>1, AppendProperties DEF Contact, BootInv, TypeOK
    <2>2. CASE \E code \in {0, 1} : ServerEnds(code)
      BY <2>2 DEF ServerEnds, BootInv, TypeOK
    <2> QED  BY <2>1, <2>2
  <1>3. TypeOK'  BY <1>1, <1>2 DEF BootInv, TypeOK, Stages, environment, reading
  <1>4. ConfigFits'  BY <1>1, Zenon DEF BootInv, ConfigFits
  <1>5. Begun' /\ Observed' /\ Located' /\ (sealed \in Seq(WholeEntries))'
    BY <1>1 DEF BootInv, Begun, Observed, Located, Reading, environment, reading
  <1> QED  BY <1>3, <1>4, <1>5 DEF BootInv

-----------------------------------------------------------------------------
(* The operator, and the theorems. *)

(* A change that keeps the record of what was proven. *)
LEMMA ChangesStep ==
  ASSUME BootInv, NEW p \in Paths, NEW f \in Files[p], Changes(p, f),
         proven' \in [Paths -> BOOLEAN],
         \A q \in Paths : q # p => proven'[q] = proven[q],
         Proven(f) => proven'[p],
         hand' \in {hand} \cup Handles, hand' # None <=> hand # None,
         hand' # None => (SecretAccepted(hand'.file) => hand'.proven),
         stage = "read" => hand'.proven
  PROVE  BootInv'
  <1>1. /\ disk' = [disk EXCEPT ![p] = f] /\ changes' = changes + 1 /\ changes < MaxChanges
        /\ UNCHANGED <<mode, restic, stage, config, problems, repo, file, location, extra, clean,
                       sealed, contacted, exit>>
    BY DEF Changes
  <1>2. DOMAIN disk' = Paths /\ \A q \in Paths : disk'[q] \in Files[q]
    BY <1>1 DEF BootInv, TypeOK
  <1>3. changes' \in 0..MaxChanges  BY <1>1, BoundOnChanges DEF BootInv, TypeOK
  <1>4. TypeOK'  BY <1>1, <1>2, <1>3 DEF BootInv, TypeOK
  <1>5. ConfigFits'  BY <1>1, Zenon DEF BootInv, ConfigFits
  <1>6. \A q \in Paths : Proven(disk'[q]) => proven'[q]
    <2> TAKE q \in Paths
    <2>1. CASE q = p  BY <1>1, <2>1 DEF BootInv, TypeOK
    <2>2. CASE q # p  BY <1>1, <2>2 DEF BootInv, TypeOK, Observed
    <2> QED  BY <2>1, <2>2
  <1>7. Begun' /\ Observed' /\ Located' /\ (sealed \in Seq(WholeEntries))'
    BY <1>1, <1>6 DEF BootInv, Begun, Observed, Located, Reading
  <1> QED  BY <1>4, <1>5, <1>7 DEF BootInv

LEMMA InHandKnown ==
  ASSUME BootInv, NEW p \in Paths, hand # None, InHand(p)
  PROVE  /\ hand \in Handles /\ p \in SecretPaths /\ Files[p] \subseteq SecretFiles \cup {None}
         /\ SecretAccepted(hand.file) => hand.proven
         /\ stage = "read" => hand.proven
  <1>1. stage \in Reading  BY DEF BootInv, TypeOK, Reading
  <1>2. p \in SecretPaths  BY <1>1, PathIsSecret DEF BootInv, InHand
  <1> QED  BY <1>2, FilesKnown DEF BootInv, TypeOK, Observed

LEMMA ReplaceStep ==
  ASSUME BootInv, NEW p \in Paths, NEW f \in Files[p], Replace(p, f)
  PROVE  BootInv'
  <1>1. /\ Changes(p, f) /\ proven' = [proven EXCEPT ![p] = Proven(f)]
        /\ hand' = (IF InHand(p) THEN [hand EXCEPT !.linked = FALSE] ELSE hand)
    BY DEF Replace
  <1>2. /\ proven' \in [Paths -> BOOLEAN] /\ \A q \in Paths : q # p => proven'[q] = proven[q]
        /\ Proven(f) => proven'[p]
    BY <1>1 DEF BootInv, TypeOK, Proven, SecretAccepted
  <1>3. /\ hand' \in {hand} \cup Handles /\ (hand' # None <=> hand # None)
        /\ hand' # None => (SecretAccepted(hand'.file) => hand'.proven)
        /\ stage = "read" => hand'.proven
    <2>1. CASE InHand(p)
      <3>1. hand # None  BY <2>1 DEF InHand
      <3>2. /\ hand \in Handles /\ (SecretAccepted(hand.file) => hand.proven)
            /\ stage = "read" => hand.proven
        BY <2>1, <3>1, InHandKnown
      <3>3. hand' = [hand EXCEPT !.linked = FALSE]  BY <1>1, <2>1
      <3>4. /\ hand' \in Handles /\ hand'.file = hand.file /\ hand'.proven = hand.proven
        BY <3>2, <3>3 DEF Handles
      <3> QED  BY <3>1, <3>2, <3>4, NoneIsNothing
    <2>2. CASE ~InHand(p)  BY <1>1, <2>2 DEF BootInv, Observed
    <2> QED  BY <2>1, <2>2
  <1> QED  BY <1>1, <1>2, <1>3, ChangesStep

LEMMA EditStep ==
  ASSUME BootInv, NEW p \in Paths, NEW f \in Files[p], Edit(p, f)
  PROVE  BootInv'
  <1>1. /\ Changes(p, f) /\ f # None /\ proven' = [proven EXCEPT ![p] = @ \/ Proven(f)]
        /\ hand' = (IF InHand(p) /\ hand.linked
                    THEN [file |-> f, linked |-> TRUE, proven |-> hand.proven \/ Proven(f)]
                    ELSE hand)
    BY DEF Edit
  <1>2. /\ proven' \in [Paths -> BOOLEAN] /\ \A q \in Paths : q # p => proven'[q] = proven[q]
        /\ Proven(f) => proven'[p]
    BY <1>1 DEF BootInv, TypeOK, Proven, SecretAccepted
  <1>3. /\ hand' \in {hand} \cup Handles /\ (hand' # None <=> hand # None)
        /\ hand' # None => (SecretAccepted(hand'.file) => hand'.proven)
        /\ stage = "read" => hand'.proven
    <2>1. CASE InHand(p) /\ hand.linked
      <3>1. hand # None  BY <2>1 DEF InHand
      <3>2. hand \in Handles /\ f \in SecretFiles /\ (stage = "read" => hand.proven)
        BY <1>1, <2>1, <3>1, InHandKnown
      <3>3. /\ hand' = [file |-> f, linked |-> TRUE, proven |-> hand.proven \/ Proven(f)]
            /\ hand.proven \in BOOLEAN /\ Proven(f) \in BOOLEAN
        BY <1>1, <2>1, <3>2 DEF Handles, Proven, SecretAccepted
      <3>4. hand' \in Handles  BY <3>2, <3>3 DEF Handles
      <3>5. hand'.file = f /\ hand'.proven = (hand.proven \/ Proven(f))  BY <3>3
      <3>6. SecretAccepted(f) => Proven(f)  BY <1>1, Zenon DEF Proven
      <3>7. SecretAccepted(hand'.file) => hand'.proven  BY <3>5, <3>6, Zenon
      <3> QED  BY <3>1, <3>2, <3>3, <3>4, <3>7, NoneIsNothing
    <2>2. CASE ~(InHand(p) /\ hand.linked)  BY <1>1, <2>2 DEF BootInv, Observed
    <2> QED  BY <2>1, <2>2
  <1> QED  BY <1>1, <1>2, <1>3, ChangesStep

LEMMA Preserved == BootInv /\ [Next]_vars => BootInv'
  <1> SUFFICES ASSUME BootInv, [Next]_vars PROVE BootInv'  OBVIOUS
  <1>1. CASE Start
    BY <1>1, CheckConfigFileStep, ReadConfigStep, ProbeStep DEF Start
  <1>2. CASE Register
    BY <1>2, CheckSecretPathStep, OpenSecretStep, CheckOpenSecretStep, ReadSecretStep,
       SealRepositoryStep DEF Register
  <1>3. CASE \E answers \in BOOLEAN : Contact(answers)  BY <1>3, AfterwardsStep
  <1>4. CASE \E code \in {0, 1} : ServerEnds(code)  BY <1>4, AfterwardsStep
  <1>5. CASE \E p \in Paths : \E f \in Files[p] : Replace(p, f) \/ Edit(p, f)
    BY <1>5, ReplaceStep, EditStep
  <1>6. CASE UNCHANGED vars
    <2>1. ConfigFits'  BY <1>6, Zenon DEF vars, BootInv, ConfigFits
    <2>2. TypeOK' /\ Begun' /\ Observed' /\ Located' /\ (sealed \in Seq(WholeEntries))'
      BY <1>6 DEF vars, environment, reading, BootInv, TypeOK, Begun, Observed, Located
    <2> QED  BY <2>1, <2>2 DEF BootInv
  <1> QED  BY <1>1, <1>2, <1>3, <1>4, <1>5, <1>6 DEF Next

LEMMA Inductive == Spec => []BootInv
  BY InitInv, Preserved, PTL DEF Spec

\* The variables of the boot have their types: the program never looks at a
\* secret file, nor seals a repository, that the configuration does not have.
THEOREM Typing == Spec => []TypeOK
  <1>1. BootInv => TypeOK  BY DEF BootInv
  <1> QED  BY <1>1, Inductive, PTL

\* For every set of files and every change made to them while New runs, the
\* entries it seals are of one piece (New, BuildChildEnv).
THEOREM SealedWhole == Spec => []SealedInOnePiece
  <1>1. BootInv => SealedInOnePiece
    <2> SUFFICES ASSUME BootInv, NEW i \in DOMAIN sealed
                 PROVE  LET e == sealed[i] IN
                        /\ e.backend \in SupportedBackends /\ e.backend = ClassifyBackend(e.location)
                        /\ e.backend = "s3" => HasStaticS3Credentials(e.env)
                        /\ \A m, n \in DOMAIN e.env : e.env[m].key = e.env[n].key => m = n
      BY DEF SealedInOnePiece
    <2>1. sealed[i] \in WholeEntries  BY LenProperties, ElementOfSeq DEF BootInv
    <2> QED  BY <2>1 DEF WholeEntries, Sealed, ChildEnvAccepted
  <1> QED  BY <1>1, Inductive, PTL

\* Whatever is put at a path between two looks of OpenSecretFile at it, the bytes
\* that are sealed came from a file that was acceptable while at its path.
THEOREM SealedProven == Spec => []SealedFromProvenFiles
  <1>1. BootInv => SealedFromProvenFiles
    <2> SUFFICES ASSUME BootInv, NEW i \in DOMAIN sealed PROVE sealed[i].clean
      BY DEF SealedFromProvenFiles
    <2>1. sealed[i] \in WholeEntries  BY LenProperties, ElementOfSeq DEF BootInv
    <2> QED  BY <2>1 DEF WholeEntries
  <1> QED  BY <1>1, Inductive, PTL

\* For every value of every limit, what applyLimitDefaults and validateLimits let
\* through is fit for the slots, the pages, the runner and the cache.
THEOREM LimitsFitting == Spec => []LimitsFit
  <1>1. BootInv => LimitsFit  BY Zenon DEF BootInv, ConfigFits, Fit, LimitsFit
  <1> QED  BY <1>1, Inductive, PTL
-----------------------------------------------------------------------------
(* The verdict, as long as nobody disturbs the files.  First what is true of *)
(* any disk d: of one file, of the entries of the first m credential files   *)
(* of a repository, and of a sequence x that holds them, each once.          *)

FileGood(d, p) == d[p] # None /\ SecretAccepted(d[p])

EntriesIn(d, r, n) == {<<n, i>> : i \in DOMAIN d[r.env[n]].body.entries}
EntriesUpTo(d, r, m) == UNION {EntriesIn(d, r, n) : n \in 1..m}
EntryOn(d, r, e) == d[r.env[e[1]]].body.entries[e[2]]

Gathered(d, r, m, x) ==
  \E place \in Bijection(1..Len(x), EntriesUpTo(d, r, m)) :
    \A k \in 1..Len(x) : x[k] = EntryOn(d, r, place[k])

(* RepositoryIsGood, of any disk. *)
RepositoryGood(d, r) ==
  LET entries == EntriesUpTo(d, r, Len(r.env)) IN
  /\ FileGood(d, r.location) /\ FileGood(d, r.password)
  /\ \A n \in DOMAIN r.env : FileGood(d, r.env[n])
  /\ ClassifyBackend(d[r.location].body) \in SupportedBackends
  /\ ClassifyBackend(d[r.location].body) = "s3" =>
       \E a, b \in entries :
         /\ EntryOn(d, r, a).key = "AWS_ACCESS_KEY_ID" /\ EntryOn(d, r, a).value # ""
         /\ EntryOn(d, r, b).key = "AWS_SECRET_ACCESS_KEY" /\ EntryOn(d, r, b).value # ""
  /\ \A e \in entries : EntryAccepted(EntryOn(d, r, e))
  /\ Cardinality({EntryOn(d, r, e).key : e \in entries}) = Cardinality(entries)

(* Of the secret files of a repository, location and password come first. *)
LEMMA SecretsInOrder ==
  ASSUME NEW r \in Repositories
  PROVE  /\ Len(r.env) \in Nat /\ DOMAIN r.env = 1..Len(r.env)
         /\ Len(SecretsOf(r)) = 2 + Len(r.env) /\ DOMAIN SecretsOf(r) = 1..(2 + Len(r.env))
         /\ SecretsOf(r)[1] = r.location /\ SecretsOf(r)[2] = r.password
         /\ \A n \in 1..Len(r.env) : SecretsOf(r)[n + 2] = r.env[n]
  <1>1. /\ <<r.location, r.password>> \in Seq(SecretPaths)
        /\ Len(<<r.location, r.password>>) = 2
        /\ <<r.location, r.password>>[1] = r.location /\ <<r.location, r.password>>[2] = r.password
    BY DEF Repositories
  <1>2. r.env \in Seq(SecretPaths) /\ Len(r.env) \in Nat /\ DOMAIN r.env = 1..Len(r.env)
    BY LenProperties DEF Repositories
  <1>3. SecretsOf(r) \in Seq(SecretPaths)  BY SecretsAreSecret
  <1>4. /\ Len(SecretsOf(r)) = 2 + Len(r.env)
        /\ \A k \in 1..(2 + Len(r.env)) :
             SecretsOf(r)[k] = IF k <= 2 THEN <<r.location, r.password>>[k] ELSE r.env[k - 2]
    BY <1>1, <1>2, ConcatProperties DEF SecretsOf
  <1>5. DOMAIN SecretsOf(r) = 1..(2 + Len(r.env))  BY <1>3, <1>4, LenProperties
  <1>6. SecretsOf(r)[1] = r.location /\ SecretsOf(r)[2] = r.password  BY <1>1, <1>2, <1>4
  <1>7. ASSUME NEW n \in 1..Len(r.env) PROVE SecretsOf(r)[n + 2] = r.env[n]
    <2>1. n + 2 \in 1..(2 + Len(r.env)) /\ ~(n + 2 <= 2) /\ (n + 2) - 2 = n  BY <1>2
    <2> QED  BY <1>4, <2>1
  <1> QED  BY <1>2, <1>4, <1>5, <1>6, <1>7

LEMMA Classified ==
  ASSUME NEW b \in SecretBodies
  PROVE  /\ ClassifyBackend(b) \in SupportedBackends
              <=> b.scheme \in {"s3", "b2", "rest"} \/ (b.scheme = "" /\ b.absolute)
         /\ ClassifyBackend(b) = "s3" <=> b.scheme = "s3"
         /\ b.scheme = "blank" => ClassifyBackend(b) \notin SupportedBackends
  <1>1. b.scheme \in STRING /\ b.absolute \in BOOLEAN  BY DEF SecretBodies
  <1>2. ClassifyBackend(b) =
          IF b.scheme \in {"sftp", "rclone", "s3", "b2", "rest"} THEN b.scheme
          ELSE IF b.scheme = "" /\ b.absolute THEN "local" ELSE "other"
    BY <1>1 DEF ClassifyBackend
  <1> QED  BY <1>1, <1>2 DEF SupportedBackends

LEMMA NoEntries ==
  ASSUME NEW d, NEW r, NEW m \in Int, m <= 0
  PROVE  Gathered(d, r, m, <<>>)
  <1>1. EntriesUpTo(d, r, m) = {}
    <2>1. 1..m = {}  OBVIOUS
    <2> QED  BY <2>1 DEF EntriesUpTo
  <1>2. 1..Len(<<>>) = {}  BY EmptySeq
  <1>3. [k \in {} |-> k] \in Bijection({}, {})  BY Fun_IsBij
  <1> QED  BY <1>1, <1>2, <1>3 DEF Gathered

(* The positions of two sequences, one behind the other. *)
LEMMA JoinedIndex ==
  ASSUME NEW m \in Nat, NEW l \in Nat
  PROVE  /\ \A k \in 1..m : k \in 1..(m + l) /\ k <= m
         /\ \A k \in 1..(m + l) : IF k <= m THEN k \in 1..m ELSE k - m \in 1..l
         /\ \A i \in 1..l : /\ m + i \in 1..(m + l) /\ ~(m + i <= m)
                            /\ (m + i) - m = i
  OBVIOUS

(* Appending what the next file holds. *)
LEMMA GatherNext ==
  ASSUME NEW d, NEW r \in Repositories, NEW n \in 1..Len(r.env),
         NEW x \in Seq(EnvEntries), NEW y \in Seq(EnvEntries),
         y = d[r.env[n]].body.entries, Gathered(d, r, n - 1, x)
  PROVE  Gathered(d, r, n, x \o y)
  <1> DEFINE old == EntriesUpTo(d, r, n - 1)
             all == EntriesUpTo(d, r, n)
             add == {<<n, i>> : i \in 1..Len(y)}
  <1>1. n \in Nat \ {0} /\ Len(x) \in Nat /\ Len(y) \in Nat /\ DOMAIN y = 1..Len(y)
    BY LenProperties DEF Repositories
  <1>2. PICK place \in Bijection(1..Len(x), old) : \A k \in 1..Len(x) : x[k] = EntryOn(d, r, place[k])
    BY DEF Gathered
  <1>3. /\ place \in [1..Len(x) -> old]
        /\ \A a, b \in 1..Len(x) : place[a] = place[b] => a = b
        /\ \A e \in old : \E k \in 1..Len(x) : place[k] = e
    BY <1>2, Fun_BijectionProperties
  <1>4. all = old \cup add
    <2>1. 1..n = (1..(n - 1)) \cup {n}  BY <1>1
    <2>2. add = EntriesIn(d, r, n)  BY <1>1 DEF EntriesIn
    <2> QED  BY <2>1, <2>2 DEF EntriesUpTo
  <1>5. \A e \in old : e[1] < n
    <2> TAKE e \in old
    <2>1. PICK l \in 1..(n - 1) : e \in EntriesIn(d, r, l)  BY DEF EntriesUpTo
    <2>2. e[1] = l  BY <2>1 DEF EntriesIn
    <2> QED  BY <1>1, <2>1, <2>2
  <1> DEFINE q == [k \in 1..Len(x \o y) |-> IF k <= Len(x) THEN place[k] ELSE <<n, k - Len(x)>>]
  <1>6. /\ x \o y \in Seq(EnvEntries) /\ Len(x \o y) = Len(x) + Len(y)
        /\ \A k \in 1..(Len(x) + Len(y)) :
             (x \o y)[k] = IF k <= Len(x) THEN x[k] ELSE y[k - Len(x)]
    BY ConcatProperties
  <1> HIDE DEF old, all, add
  <1>7. \A k \in 1..Len(x \o y) :
           IF k <= Len(x) THEN k \in 1..Len(x) /\ q[k] = place[k] /\ q[k] \in old
           ELSE k - Len(x) \in 1..Len(y) /\ q[k] = <<n, k - Len(x)>> /\ q[k] \in add
    <2> TAKE k \in 1..Len(x \o y)
    <2>1. k \in 1..(Len(x) + Len(y))  BY <1>6
    <2>2. CASE k <= Len(x)
      <3>1. k \in 1..Len(x)  BY <1>1, <2>1, <2>2, JoinedIndex
      <3>2. q[k] = place[k]  BY <2>2
      <3> QED  BY <1>3, <2>2, <3>1, <3>2
    <2>3. CASE ~(k <= Len(x))
      <3>1. k - Len(x) \in 1..Len(y)  BY <1>1, <2>1, <2>3, JoinedIndex
      <3>2. q[k] = <<n, k - Len(x)>>  BY <2>3
      <3> QED  BY <2>3, <3>1, <3>2, Zenon DEF add
    <2> QED  BY <2>2, <2>3
  <1> HIDE DEF q
  <1>8. q \in [1..Len(x \o y) -> all]
    <2>1. \A k \in 1..Len(x \o y) : q[k] \in all  BY <1>4, <1>7
    <2> QED  BY <2>1 DEF q
  <1>9. \A a, b \in 1..Len(x \o y) : q[a] = q[b] => a = b
    <2> SUFFICES ASSUME NEW a \in 1..Len(x \o y), NEW b \in 1..Len(x \o y), q[a] = q[b]
                 PROVE  a = b
      OBVIOUS
    <2>1. CASE a <= Len(x) /\ b <= Len(x)  BY <1>3, <1>7, <2>1
    <2>2. CASE ~(a <= Len(x)) /\ ~(b <= Len(x))
      <3>1. q[a][2] = a - Len(x) /\ q[b][2] = b - Len(x)  BY <1>7, <2>2
      <3> QED  BY <1>1, <1>6, <3>1
    <2>3. CASE a <= Len(x) /\ ~(b <= Len(x))
      <3>1. q[a][1] < n /\ q[b][1] = n  BY <1>5, <1>7, <2>3
      <3> QED  BY <1>1, <3>1
    <2>4. CASE ~(a <= Len(x)) /\ b <= Len(x)
      <3>1. q[b][1] < n /\ q[a][1] = n  BY <1>5, <1>7, <2>4
      <3> QED  BY <1>1, <3>1
    <2> QED  BY <2>1, <2>2, <2>3, <2>4
  <1>10. \A e \in all : \E k \in 1..Len(x \o y) : q[k] = e
    <2> TAKE e \in all
    <2>1. CASE e \in old
      <3>1. PICK k \in 1..Len(x) : place[k] = e  BY <1>3, <2>1
      <3>2. k \in 1..Len(x \o y) /\ k <= Len(x)
        <4>1. k \in 1..(Len(x) + Len(y)) /\ k <= Len(x)  BY <1>1, JoinedIndex
        <4> QED  BY <1>6, <4>1
      <3> QED  BY <1>7, <3>1, <3>2
    <2>2. CASE e \in add
      <3>1. PICK i \in 1..Len(y) : e = <<n, i>>  BY <2>2 DEF add
      <3>2. /\ Len(x) + i \in 1..Len(x \o y) /\ ~(Len(x) + i <= Len(x))
            /\ (Len(x) + i) - Len(x) = i
        BY <1>1, <1>6, JoinedIndex
      <3>3. q[Len(x) + i] = e  BY <1>7, <3>1, <3>2
      <3> QED  BY <3>2, <3>3
    <2> QED  BY <1>4, <2>1, <2>2
  <1>11. q \in Bijection(1..Len(x \o y), all)  BY <1>8, <1>9, <1>10, Fun_IsBij
  <1>12. \A k \in 1..Len(x \o y) : (x \o y)[k] = EntryOn(d, r, q[k])
    <2> TAKE k \in 1..Len(x \o y)
    <2>1. CASE k <= Len(x)  BY <1>2, <1>6, <1>7, <2>1
    <2>2. CASE ~(k <= Len(x))
      <3>1. q[k] = <<n, k - Len(x)>> /\ (x \o y)[k] = y[k - Len(x)]  BY <1>6, <1>7, <2>2
      <3>2. q[k][1] = n /\ q[k][2] = k - Len(x)  BY <3>1
      <3>3. EntryOn(d, r, q[k]) = d[r.env[n]].body.entries[k - Len(x)]
        BY <3>2, Zenon DEF EntryOn
      <3> QED  BY <3>1, <3>3
    <2> QED  BY <2>1, <2>2
  <1> QED  BY <1>11, <1>12, Zenon DEF Gathered, all

(* The disk as it is. *)
LEMMA GoodMeans ==
  ASSUME TypeOK, NEW r \in Repositories
  PROVE  RepositoryIsGood(r) <=> RepositoryGood(disk, r)
  <1>1. Entries(r) = EntriesUpTo(disk, r, Len(r.env))
    <2>1. DOMAIN r.env = 1..Len(r.env)  BY LenProperties DEF Repositories
    <2> QED  BY <2>1, Zenon DEF Entries, EntriesUpTo, EntriesIn
  <1>2. \A e : EntryAt(r, e) = EntryOn(disk, r, e)  BY Zenon DEF EntryAt, EntryOn
  <1>3. \A p : SecretIsGood(p) <=> FileGood(disk, p)  BY Zenon DEF SecretIsGood, FileGood
  <1> DEFINE at == disk[r.location].body
  <1>4. FileGood(disk, r.location) => at \in SecretBodies
    <2>1. r.location \in SecretPaths /\ r.location \in Paths  BY DEF Repositories, SecretPaths
    <2>2. disk[r.location] \in SecretFiles \cup {None}  BY <2>1, FilesKnown DEF TypeOK
    <2> QED  BY <2>2 DEF FileGood, SecretFiles
  <1> HIDE DEF at
  <1>5. FileGood(disk, r.location) =>
          /\ ClassifyBackend(at) \in SupportedBackends
               <=> at.scheme \in {"s3", "b2", "rest"} \/ (at.scheme = "" /\ at.absolute)
          /\ ClassifyBackend(at) = "s3" <=> at.scheme = "s3"
    BY <1>4, Classified, Zenon
  <1> DEFINE entries == EntriesUpTo(disk, r, Len(r.env))
             rest == /\ \A e \in entries : EntryAccepted(EntryOn(disk, r, e))
                     /\ Cardinality({EntryOn(disk, r, e).key : e \in entries}) = Cardinality(entries)
             files == /\ FileGood(disk, r.location) /\ FileGood(disk, r.password)
                      /\ \A n \in DOMAIN r.env : FileGood(disk, r.env[n])
             keys == \E a, b \in entries :
                       /\ EntryOn(disk, r, a).key = "AWS_ACCESS_KEY_ID" /\ EntryOn(disk, r, a).value # ""
                       /\ EntryOn(disk, r, b).key = "AWS_SECRET_ACCESS_KEY" /\ EntryOn(disk, r, b).value # ""
  <1>6. RepositoryGood(disk, r) <=>
          files /\ ClassifyBackend(at) \in SupportedBackends
                /\ (ClassifyBackend(at) = "s3" => keys) /\ rest
    BY Zenon DEF RepositoryGood, at
  <1>7. RepositoryIsGood(r) <=>
          files /\ (at.scheme \in {"s3", "b2", "rest"} \/ (at.scheme = "" /\ at.absolute))
                /\ (at.scheme = "s3" => keys) /\ rest
    <2>1. {EntryAt(r, e).key : e \in Entries(r)} = {EntryOn(disk, r, e).key : e \in entries}
      BY <1>1 DEF EntryAt, EntryOn
    <2>2. rest <=> /\ \A e \in Entries(r) : EntryAccepted(EntryAt(r, e))
                   /\ Cardinality({EntryAt(r, e).key : e \in Entries(r)}) = Cardinality(Entries(r))
      BY <1>1, <1>2, <2>1, Zenon
    <2>3. keys <=> \E a, b \in Entries(r) :
                     /\ EntryAt(r, a).key = "AWS_ACCESS_KEY_ID" /\ EntryAt(r, a).value # ""
                     /\ EntryAt(r, b).key = "AWS_SECRET_ACCESS_KEY" /\ EntryAt(r, b).value # ""
      <3>1. \A e : /\ EntryAt(r, e).key = EntryOn(disk, r, e).key
                   /\ EntryAt(r, e).value = EntryOn(disk, r, e).value
                   /\ e \in Entries(r) <=> e \in entries
        BY <1>1, <1>2, Zenon
      <3> DEFINE id(e) == EntryAt(r, e).key = "AWS_ACCESS_KEY_ID" /\ EntryAt(r, e).value # ""
                 secret(e) == /\ EntryAt(r, e).key = "AWS_SECRET_ACCESS_KEY"
                              /\ EntryAt(r, e).value # ""
      <3>2. \A e : id(e) <=> /\ EntryOn(disk, r, e).key = "AWS_ACCESS_KEY_ID"
                             /\ EntryOn(disk, r, e).value # ""
        BY <3>1, Zenon
      <3>3. \A e : secret(e) <=> /\ EntryOn(disk, r, e).key = "AWS_SECRET_ACCESS_KEY"
                                 /\ EntryOn(disk, r, e).value # ""
        BY <3>1, Zenon
      <3>4. (\E a, b \in Entries(r) : id(a) /\ secret(b)) <=>
              \E a, b \in Entries(r) :
                /\ EntryAt(r, a).key = "AWS_ACCESS_KEY_ID" /\ EntryAt(r, a).value # ""
                /\ EntryAt(r, b).key = "AWS_SECRET_ACCESS_KEY" /\ EntryAt(r, b).value # ""
        BY Zenon
      <3> HIDE DEF id, secret
      <3>5. keys <=> \E a, b \in entries : id(a) /\ secret(b)  BY <3>2, <3>3, Zenon
      <3> HIDE DEF entries
      <3>6. entries = Entries(r)  BY <3>1, Zenon
      <3> QED  BY <3>4, <3>5, <3>6, Zenon
    <2>4. files <=> /\ SecretIsGood(r.location) /\ SecretIsGood(r.password)
                    /\ \A n \in DOMAIN r.env : SecretIsGood(r.env[n])
      BY <1>3, Zenon
    <2> HIDE DEF files, keys, rest
    <2> QED  BY <2>2, <2>3, <2>4, Zenon DEF RepositoryIsGood, at
  <1>8. files => FileGood(disk, r.location)  OBVIOUS
  <1> HIDE DEF files, keys, rest
  <1> QED  BY <1>5, <1>6, <1>7, <1>8, Zenon

(* What SealRepository decides from the gathered entries is what is true of the disk. *)
LEMMA SealDecides ==
  ASSUME NEW d, NEW r \in Repositories, NEW x \in Seq(EnvEntries),
         Gathered(d, r, Len(r.env), x),
         \A i \in DOMAIN SecretsOf(r) : FileGood(d, SecretsOf(r)[i]),
         ClassifyBackend(d[r.location].body) \in SupportedBackends
  PROVE  RepositoryGood(d, r) <=>
           /\ ClassifyBackend(d[r.location].body) = "s3" => HasStaticS3Credentials(x)
           /\ ChildEnvAccepted(x)
  <1> DEFINE entries == EntriesUpTo(d, r, Len(r.env))
             KeyOf(e) == EntryOn(d, r, e).key
             keys == {KeyOf(e) : e \in entries}
             key == [e \in entries |-> KeyOf(e)]
  <1>1. /\ Len(x) \in Nat /\ DOMAIN x = 1..Len(x)
        /\ Len(r.env) \in Nat /\ DOMAIN r.env = 1..Len(r.env)
    BY LenProperties DEF Repositories
  <1>2. PICK place \in Bijection(1..Len(x), entries) :
          \A k \in 1..Len(x) : x[k] = EntryOn(d, r, place[k])
    BY DEF Gathered
  <1>3. /\ place \in [1..Len(x) -> entries]
        /\ \A a, b \in 1..Len(x) : place[a] = place[b] => a = b
        /\ \A e \in entries : \E k \in 1..Len(x) : place[k] = e
    BY <1>2, Fun_BijectionProperties
  <1>4. FileGood(d, r.location) /\ FileGood(d, r.password)
        /\ \A n \in DOMAIN r.env : FileGood(d, r.env[n])
    <2>2. /\ DOMAIN SecretsOf(r) = 1..(2 + Len(r.env))
          /\ SecretsOf(r)[1] = r.location /\ SecretsOf(r)[2] = r.password
          /\ \A n \in 1..Len(r.env) : SecretsOf(r)[n + 2] = r.env[n]
      BY SecretsInOrder
    <2>3. 1 \in DOMAIN SecretsOf(r) /\ 2 \in DOMAIN SecretsOf(r)
          /\ \A n \in 1..Len(r.env) : n + 2 \in DOMAIN SecretsOf(r)
      BY <1>1, <2>2
    <2> QED  BY <1>1, <2>2, <2>3
  <1> HIDE DEF entries
  <1>5. IsFiniteSet(entries)
    <2>1. IsFiniteSet(1..Len(x))  BY <1>1, FS_Interval
    <2>2. ExistsBijection(1..Len(x), entries)  BY <1>2, Fun_ExistsBij
    <2> QED  BY <2>1, <2>2, FS_Bijection
  <1>6. key \in Surjection(entries, keys)
    <2>1. key \in [entries -> keys]  OBVIOUS
    <2>2. \A t \in keys : \E e \in entries : key[e] = t
      <3> TAKE t \in keys
      <3>1. PICK e \in entries : t = KeyOf(e)  BY Zenon
      <3>2. key[e] = KeyOf(e)  BY Zenon
      <3> QED  BY <3>1, <3>2, Zenon
    <2> HIDE DEF key, keys
    <2> QED  BY <2>1, <2>2, Fun_IsSurj
  <1>7. Cardinality(keys) = Cardinality(entries) <=> key \in Injection(entries, keys)
    BY <1>5, <1>6, FS_Surjection
  <1>8. key \in Injection(entries, keys) <=> \A a, b \in entries : KeyOf(a) = KeyOf(b) => a = b
    <2>1. key \in [entries -> keys] /\ \A e \in entries : key[e] = KeyOf(e)  OBVIOUS
    <2> HIDE DEF key, keys, KeyOf
    <2>2. ASSUME key \in Injection(entries, keys)
          PROVE  \A a, b \in entries : key[a] = key[b] => a = b
      BY <2>2, Fun_InjectionProperties
    <2>3. ASSUME \A a, b \in entries : key[a] = key[b] => a = b
          PROVE  key \in Injection(entries, keys)
      BY <2>1, <2>3, Fun_IsInj
    <2> QED  BY <2>1, <2>2, <2>3
  <1>9. (\A a, b \in entries : KeyOf(a) = KeyOf(b) => a = b)
          <=> \A i, j \in DOMAIN x : i # j => x[i].key # x[j].key
    <2>1. ASSUME \A a, b \in entries : KeyOf(a) = KeyOf(b) => a = b,
                 NEW i \in 1..Len(x), NEW j \in 1..Len(x), i # j
          PROVE  x[i].key # x[j].key
      BY <1>2, <1>3, <2>1
    <2>2. ASSUME \A i, j \in 1..Len(x) : i # j => x[i].key # x[j].key,
                 NEW a \in entries, NEW b \in entries, KeyOf(a) = KeyOf(b)
          PROVE  a = b
      <3>1. PICK i \in 1..Len(x) : place[i] = a  BY <1>3
      <3>2. PICK j \in 1..Len(x) : place[j] = b  BY <1>3
      <3>3. x[i].key = KeyOf(a) /\ x[j].key = KeyOf(b)  BY <1>2, <3>1, <3>2
      <3> QED  BY <2>2, <3>1, <3>2, <3>3
    <2> QED  BY <1>1, <2>1, <2>2
  <1>10. (\A e \in entries : EntryAccepted(EntryOn(d, r, e)))
           <=> \A i \in DOMAIN x : EntryAccepted(x[i])
    BY <1>1, <1>2, <1>3
  <1>11. ChildEnvAccepted(x) <=>
           /\ \A e \in entries : EntryAccepted(EntryOn(d, r, e))
           /\ Cardinality({EntryOn(d, r, e).key : e \in entries}) = Cardinality(entries)
    BY <1>7, <1>8, <1>9, <1>10, Zenon DEF ChildEnvAccepted
  <1> DEFINE Has(name) == \E e \in entries : EntryOn(d, r, e).key = name /\ EntryOn(d, r, e).value # ""
  <1>12. HasStaticS3Credentials(x) <=> Has("AWS_ACCESS_KEY_ID") /\ Has("AWS_SECRET_ACCESS_KEY")
    <2>1. \A name : Has(name) <=> \E i \in DOMAIN x : x[i].key = name /\ x[i].value # ""
      <3> TAKE name
      <3>1. ASSUME NEW e \in entries,
                   EntryOn(d, r, e).key = name, EntryOn(d, r, e).value # ""
            PROVE  \E i \in DOMAIN x : x[i].key = name /\ x[i].value # ""
        <4>1. PICK i \in 1..Len(x) : place[i] = e  BY <1>3, Zenon
        <4>2. i \in DOMAIN x /\ x[i] = EntryOn(d, r, e)  BY <1>1, <1>2, <4>1, Zenon
        <4> QED  BY <3>1, <4>2, Zenon
      <3>2. ASSUME NEW i \in DOMAIN x, x[i].key = name, x[i].value # ""
            PROVE  Has(name)
        <4>1. place[i] \in entries /\ x[i] = EntryOn(d, r, place[i])  BY <1>1, <1>2, <1>3
        <4> QED  BY <3>2, <4>1, Zenon
      <3> QED  BY <3>1, <3>2, Zenon
    <2> HIDE DEF Has
    <2> QED  BY <2>1, Zenon DEF HasStaticS3Credentials
  <1>13. Has("AWS_ACCESS_KEY_ID") /\ Has("AWS_SECRET_ACCESS_KEY") <=>
           \E a, b \in entries :
             /\ EntryOn(d, r, a).key = "AWS_ACCESS_KEY_ID" /\ EntryOn(d, r, a).value # ""
             /\ EntryOn(d, r, b).key = "AWS_SECRET_ACCESS_KEY" /\ EntryOn(d, r, b).value # ""
    BY Zenon
  <1> DEFINE accepted == /\ \A e \in entries : EntryAccepted(EntryOn(d, r, e))
                         /\ Cardinality({EntryOn(d, r, e).key : e \in entries})
                              = Cardinality(entries)
             both == \E a, b \in entries :
                       /\ EntryOn(d, r, a).key = "AWS_ACCESS_KEY_ID" /\ EntryOn(d, r, a).value # ""
                       /\ EntryOn(d, r, b).key = "AWS_SECRET_ACCESS_KEY" /\ EntryOn(d, r, b).value # ""
  <1>14. RepositoryGood(d, r) <=>
           (ClassifyBackend(d[r.location].body) = "s3" => both) /\ accepted
    BY <1>4, Zenon DEF RepositoryGood, entries
  <1>15. (both <=> HasStaticS3Credentials(x)) /\ (accepted <=> ChildEnvAccepted(x))
    BY <1>11, <1>12, <1>13, Zenon
  <1> HIDE DEF both, accepted
  <1> QED  BY <1>14, <1>15, Zenon

(* Of the secret files of r the first n have been read: they were good, and    *)
(* location and entries are those they hold.                                   *)
FilesRead(d, r, n, loc, x) ==
  /\ \A i \in 1..n : FileGood(d, SecretsOf(r)[i])
  /\ n > 0 => loc = d[r.location].body
  /\ Gathered(d, r, n - 2, x)

LEMMA OneMoreFile ==
  ASSUME NEW d, NEW r \in Repositories, NEW n \in 1..Len(SecretsOf(r)), NEW loc,
         NEW x \in Seq(EnvEntries), FilesRead(d, r, n - 1, loc, x),
         FileGood(d, SecretsOf(r)[n]), NEW b \in SecretBodies, b = d[SecretsOf(r)[n]].body
  PROVE  FilesRead(d, r, n, IF n = 1 THEN b ELSE loc, IF n > 2 THEN x \o b.entries ELSE x)
  <1>1. Len(SecretsOf(r)) = 2 + Len(r.env) /\ Len(r.env) \in Nat /\ n \in Nat \ {0}
    BY SecretsInOrder
  <1>2. \A i \in 1..n : FileGood(d, SecretsOf(r)[i])
    <2>1. 1..n = (1..(n - 1)) \cup {n}  BY <1>1
    <2> QED  BY <2>1, Zenon DEF FilesRead
  <1>3. (IF n = 1 THEN b ELSE loc) = d[r.location].body
    <2>1. CASE n = 1  BY <2>1, SecretsInOrder
    <2>2. CASE n # 1
      <3>1. n - 1 > 0  BY <1>1, <2>2
      <3> QED  BY <2>2, <3>1 DEF FilesRead
    <2> QED  BY <2>1, <2>2
  <1>4. Gathered(d, r, n - 2, IF n > 2 THEN x \o b.entries ELSE x)
    <2>1. CASE n > 2
      <3>1. /\ n - 2 \in 1..Len(r.env) /\ (n - 1) - 2 = (n - 2) - 1 /\ (n - 2) + 2 = n
        BY <1>1, <2>1
      <3>2. SecretsOf(r)[n] = r.env[n - 2]  BY <3>1, SecretsInOrder
      <3>3. b.entries \in Seq(EnvEntries) /\ b.entries = d[r.env[n - 2]].body.entries
        BY <3>2 DEF SecretBodies
      <3>4. Gathered(d, r, (n - 2) - 1, x)  BY <3>1 DEF FilesRead
      <3>5. Gathered(d, r, n - 2, x \o b.entries)
        <4> DEFINE k == n - 2
        <4>1. k \in 1..Len(r.env) /\ b.entries = d[r.env[k]].body.entries /\ Gathered(d, r, k - 1, x)
          BY <3>1, <3>3, <3>4
        <4> HIDE DEF k
        <4>2. Gathered(d, r, k, x \o b.entries)  BY <3>3, <4>1, GatherNext
        <4> QED  BY <4>2 DEF k
      <3> QED  BY <2>1, <3>5
    <2>2. CASE ~(n > 2)
      <3>1. PICK place \in Bijection(1..Len(x), EntriesUpTo(d, r, (n - 1) - 2)) : TRUE
        BY DEF FilesRead, Gathered
      <3>2. EntriesUpTo(d, r, (n - 1) - 2) = {} /\ EntriesUpTo(d, r, n - 2) = {}
        <4>1. 1..((n - 1) - 2) = {} /\ 1..(n - 2) = {}  BY <1>1, <2>2
        <4> QED  BY <4>1 DEF EntriesUpTo
      <3>3. Gathered(d, r, n - 2, x)  BY <3>2 DEF FilesRead, Gathered
      <3> QED  BY <2>2, <3>3
    <2> QED  BY <2>1, <2>2
  <1> QED  BY <1>1, <1>2, <1>3, <1>4 DEF FilesRead

(* What is wrong with one file is wrong with its repository. *)
LEMMA FileSpoils ==
  ASSUME NEW d, NEW r \in Repositories, RepositoryGood(d, r)
  PROVE  \A i \in DOMAIN SecretsOf(r) :
           /\ FileGood(d, SecretsOf(r)[i])
           /\ i > 2 => EnvFileAccepted(d[SecretsOf(r)[i]].body)
  <1> TAKE i \in DOMAIN SecretsOf(r)
  <1>1. i \in 1..(2 + Len(r.env)) /\ Len(r.env) \in Nat /\ DOMAIN r.env = 1..Len(r.env)
    BY SecretsInOrder
  <1>2. FileGood(d, r.location) /\ FileGood(d, r.password)
        /\ \A n \in DOMAIN r.env : FileGood(d, r.env[n])
    BY Zenon DEF RepositoryGood
  <1>3. CASE i <= 2  BY <1>1, <1>2, <1>3, SecretsInOrder
  <1>4. CASE i > 2
    <2> DEFINE n == i - 2
    <2>1. n \in 1..Len(r.env) /\ n + 2 = i  BY <1>1, <1>4
    <2>2. SecretsOf(r)[i] = r.env[n]  BY <2>1, SecretsInOrder
    <2> HIDE DEF n
    <2>3. ASSUME NEW k \in DOMAIN d[r.env[n]].body.entries
          PROVE  d[r.env[n]].body.entries[k].key \in AllowedEnvKeys
      <3>1. <<n, k>> \in EntriesUpTo(d, r, Len(r.env))  BY <2>1 DEF EntriesUpTo, EntriesIn
      <3>2. EntryOn(d, r, <<n, k>>) = d[r.env[n]].body.entries[k]  BY DEF EntryOn
      <3>3. EntryAccepted(EntryOn(d, r, <<n, k>>))  BY <3>1, Zenon DEF RepositoryGood
      <3>4. EntryOn(d, r, <<n, k>>).key \in AllowedEnvKeys  BY <3>3, Zenon DEF EntryAccepted
      <3> QED  BY <3>2, <3>4
    <2>4. EnvFileAccepted(d[r.env[n]].body)  BY <2>3, Zenon DEF EnvFileAccepted
    <2> QED  BY <1>1, <1>2, <2>1, <2>2, <2>4
  <1> QED  BY <1>1, <1>3, <1>4

-----------------------------------------------------------------------------
(* What holds at each stage while no file has been changed. *)

Early == {"load", "parse", "binary", "version"}
Underway == Reading \cup {"seal", "connect", "serving"}

FileAsExpected(f) == f # None /\ f.kind = "regular" /\ f.size <= MaxConfigBytes

(* The configuration is the one in the file. *)
ConfigFaithful ==
  /\ stage = "parse" => FileAsExpected(disk[ConfigPath])
  /\ config # None =>
       /\ FileAsExpected(disk[ConfigPath]) /\ ConfigAccepted(disk[ConfigPath].body)
       /\ config.repositories = disk[ConfigPath].body.repositories

(* There is a problem on record exactly if restic is not as it must be. *)
ProblemsTrue ==
  /\ stage \in Early => problems = {}
  /\ stage \in Underway => /\ problems = {} <=> restic = "supported"
                           /\ mode = "serve" => restic = "supported"

(* The repositories before this one, and only they, are sealed, and are good. *)
SealedSoFar ==
  /\ stage \in Early \cup Reading \cup {"seal"} => Len(sealed) = repo - 1 /\ contacted = <<>>
  /\ stage \in {"connect", "serving"} => Len(sealed) = Len(config.repositories)
  /\ stage = "connect" => Len(contacted) < Len(sealed) /\ mode = "diagnose"
  /\ stage = "serving" => mode = "serve"
  /\ stage \in Underway =>
       \A i \in 1..Len(sealed) : RepositoryGood(disk, config.repositories[i])

(* The files before this one, and only they, are read; a file that has been *)
(* looked at is good, and the one in hand is the one at its path.           *)
FilesTrue ==
  /\ stage \in Early => extra = <<>>
  /\ stage \in Reading \cup {"seal"} => FilesRead(disk, Repository, file - 1, location, extra)
  /\ stage \in {"open", "fstat", "read"} => FileGood(disk, Path)
  /\ stage \in {"fstat", "read"} => hand.file = disk[Path]
  /\ stage = "seal" => file = Len(SecretsOf(Repository)) + 1

Faithful == ConfigFaithful /\ ProblemsTrue /\ SealedSoFar /\ FilesTrue

Undisturbed == changes = 0 => Faithful

LEMMA StagesApart ==
  /\ Early \cap Underway = {} /\ "exited" \notin Early \cup Underway
  /\ "seal" \notin Reading /\ "connect" \notin Reading /\ "serving" \notin Reading
  /\ Reading \subseteq Underway /\ {"seal", "connect", "serving"} \subseteq Underway
  /\ Reading \cap Early = {}
  BY DEF Early, Underway, Reading

(* Healthy is what it was if disk and restic are what they were. *)
LEMMA HealthyKept ==
  ASSUME disk' = disk, restic' = restic
  PROVE  Healthy' <=> Healthy
  <1>1. \A p : SecretIsGood(p)' <=> SecretIsGood(p)  BY Zenon DEF SecretIsGood
  <1>2. \A r : Entries(r)' = Entries(r)  BY DEF Entries
  <1>3. \A r, e : EntryAt(r, e)' = EntryAt(r, e)  BY DEF EntryAt
  <1>4. \A r : {EntryAt(r, e).key : e \in Entries(r)}' = {EntryAt(r, e).key : e \in Entries(r)}
    BY DEF Entries, EntryAt
  <1>5. \A r : RepositoryIsGood(r)' <=> RepositoryIsGood(r)
    <2> TAKE r
    <2> DEFINE files == /\ SecretIsGood(r.location) /\ SecretIsGood(r.password)
                        /\ \A n \in DOMAIN r.env : SecretIsGood(r.env[n])
               at == disk[r.location].body
               given == \E d, e \in Entries(r) :
                          /\ EntryAt(r, d).key = "AWS_ACCESS_KEY_ID" /\ EntryAt(r, d).value # ""
                          /\ EntryAt(r, e).key = "AWS_SECRET_ACCESS_KEY" /\ EntryAt(r, e).value # ""
               where == /\ at.scheme \in {"s3", "b2", "rest"} \/ (at.scheme = "" /\ at.absolute)
                        /\ at.scheme = "s3" => given
               what == /\ \A e \in Entries(r) : EntryAccepted(EntryAt(r, e))
                       /\ Cardinality({EntryAt(r, e).key : e \in Entries(r)}) = Cardinality(Entries(r))
    <2>1. (RepositoryIsGood(r) <=> files /\ where /\ what)
          /\ (RepositoryIsGood(r)' <=> files' /\ where' /\ what')
      BY Zenon DEF RepositoryIsGood
    <2>2. files' <=> files  BY <1>1, Zenon
    <2>3. given' <=> given  BY <1>2, <1>3, Zenon
    <2>4. at' = at  OBVIOUS
    <2>5. where' <=> where
      <3> HIDE DEF at, given
      <3> QED  BY <2>3, <2>4, Zenon
    <2>6. what' <=> what  BY <1>2, <1>3, <1>4, Zenon
    <2> HIDE DEF files, where, what
    <2> QED  BY <2>1, <2>2, <2>5, <2>6, Zenon
  <1> QED  BY <1>5, Zenon DEF Healthy

LEMMA ConfigHealthy ==
  ASSUME TypeOK, ConfigFaithful, config # None
  PROVE  Healthy <=> /\ restic = "supported"
                     /\ \A i \in DOMAIN config.repositories :
                          RepositoryGood(disk, config.repositories[i])
  <1>1. /\ FileAsExpected(disk[ConfigPath]) /\ ConfigAccepted(disk[ConfigPath].body)
        /\ config.repositories = disk[ConfigPath].body.repositories
    BY Zenon DEF ConfigFaithful
  <1>2. config.repositories \in Seq(Repositories)  BY DEF TypeOK, Configurations
  <1>3. \A i \in DOMAIN config.repositories :
          RepositoryIsGood(config.repositories[i]) <=> RepositoryGood(disk, config.repositories[i])
    <2> TAKE i \in DOMAIN config.repositories
    <2>1. config.repositories[i] \in Repositories  BY <1>2, LenProperties, ElementOfSeq
    <2> QED  BY <2>1, GoodMeans
  <1> QED  BY <1>1, <1>3, Zenon DEF Healthy, FileAsExpected

(* A refusal is right if something is wrong. *)
LEMMA Refused ==
  ASSUME disk' = disk, restic' = restic, mode' = mode, stage' = "exited", exit' = 2, ~Healthy
  PROVE  VerdictTrue'
  <1>1. ~Healthy'  BY HealthyKept
  <1> HIDE DEF Healthy
  <1>2. stage' # "serving"  BY Zenon
  <1> QED  BY <1>1, <1>2, Zenon DEF VerdictTrue

LEMMA NotOver ==
  ASSUME stage' \notin {"serving", "exited"}
  PROVE  VerdictTrue'
  BY Zenon DEF VerdictTrue

LEMMA Ended ==
  ASSUME Faithful, disk' = disk, config' = config, stage' = "exited"
  PROVE  Faithful'
  <1>1. ConfigFaithful'
    <2>1. stage' # "parse"  BY Zenon
    <2> QED  BY <2>1, Zenon DEF Faithful, ConfigFaithful
  <1>2. ProblemsTrue' /\ SealedSoFar' /\ FilesTrue'
    BY StagesApart DEF ProblemsTrue, SealedSoFar, FilesTrue
  <1> QED  BY <1>1, <1>2, Zenon DEF Faithful

(* A file found wanting is reason enough. *)
LEMMA OneIsBad ==
  ASSUME BootInv, ConfigFaithful, stage \in Reading \cup {"seal"}, ~RepositoryGood(disk, Repository)
  PROVE  ~Healthy
  <1>1. TypeOK  BY DEF BootInv
  <1>2. /\ config \in Configurations /\ repo \in DOMAIN config.repositories
    BY <1>1, RepositoryKnown, LenProperties DEF Configurations
  <1>3. config # None  BY <1>2, NoneIsNothing
  <1> QED  BY <1>1, <1>2, <1>3, ConfigHealthy, Zenon DEF Repository

(* A step at the disk as it was. *)
Told == Faithful' /\ VerdictTrue'

LEMMA CheckConfigFileTells == ASSUME BootInv, Faithful, CheckConfigFile PROVE Told
  <1>1. stage = "load" /\ disk' = disk /\ restic' = restic /\ mode' = mode /\ config' = config
        /\ UNCHANGED <<problems, reading, sealed, contacted>>
    BY DEF CheckConfigFile, environment
  <1>2. CASE FileAsExpected(disk[ConfigPath])
    <2>1. stage' = "parse"  BY <1>2 DEF FileAsExpected, CheckConfigFile, GoTo
    <2>2. ConfigFaithful'  BY <1>1, <1>2, Zenon DEF Faithful, ConfigFaithful
    <2>3. ProblemsTrue' /\ SealedSoFar' /\ FilesTrue'
      BY <1>1, <2>1 DEF Faithful, ProblemsTrue, SealedSoFar, FilesTrue, reading, Early, Underway, Reading
    <2> QED  BY <2>1, <2>2, <2>3, NotOver DEF Told, Faithful
  <1>3. CASE ~FileAsExpected(disk[ConfigPath])
    <2>1. stage' = "exited" /\ exit' = 2  BY <1>3 DEF FileAsExpected, CheckConfigFile, Stop
    <2>2. ~Healthy  BY <1>3, Zenon DEF Healthy, FileAsExpected
    <2> QED  BY <1>1, <2>1, <2>2, Ended, Refused DEF Told
  <1> QED  BY <1>2, <1>3

LEMMA ReadConfigTells == ASSUME BootInv, Faithful, ReadConfig PROVE Told
  <1> DEFINE f == disk[ConfigPath]
  <1>1. stage = "parse" /\ disk' = disk /\ restic' = restic /\ mode' = mode
        /\ UNCHANGED <<problems, reading, sealed, contacted>>
    BY DEF ReadConfig, environment
  <1>2. FileAsExpected(f) /\ f \in ConfigFiles
    BY <1>1, FilesKnown DEF Faithful, ConfigFaithful, FileAsExpected, BootInv, TypeOK
  <1>3. CASE ConfigAccepted(f.body)
    <2>1. config' = [f.body EXCEPT !.limits = WithDefaults(@)] /\ stage' = "binary"
      BY <1>2, <1>3 DEF FileAsExpected, ReadConfig, GoTo
    <2>2. config'.repositories = f.body.repositories
      BY <1>2, <2>1 DEF ConfigFiles, Configurations
    <2>3. ConfigFaithful'  BY <1>1, <1>2, <1>3, <2>1, <2>2, Zenon DEF ConfigFaithful
    <2>4. ProblemsTrue' /\ SealedSoFar' /\ FilesTrue'
      BY <1>1, <2>1 DEF Faithful, ProblemsTrue, SealedSoFar, FilesTrue, reading, Early, Underway, Reading
    <2> QED  BY <2>1, <2>3, <2>4, NotOver DEF Told, Faithful
  <1>4. CASE ~ConfigAccepted(f.body)
    <2>1. config' = config /\ stage' = "exited" /\ exit' = 2  BY <1>4 DEF ReadConfig, Stop
    <2>2. ~Healthy  BY <1>4, Zenon DEF Healthy
    <2> QED  BY <1>1, <2>1, <2>2, Ended, Refused DEF Told
  <1> QED  BY <1>3, <1>4

LEMMA ProbeTells == ASSUME BootInv, Faithful, FindBinary \/ ProbeVersion PROVE Told
  <1>1. stage \in {"binary", "version"} /\ disk' = disk /\ restic' = restic /\ mode' = mode
        /\ config' = config /\ UNCHANGED <<reading, sealed, contacted>>
    BY DEF FindBinary, ProbeVersion, environment
  <1>2. /\ config # None /\ TypeOK /\ repo = 1 /\ file = 1 /\ problems = {} /\ extra = <<>>
        /\ Len(sealed) = 0 /\ contacted = <<>>
    BY <1>1 DEF BootInv, TypeOK, Begun, Faithful, ProblemsTrue, SealedSoFar, FilesTrue, Early
  <1>3. ConfigFaithful'
    <2>1. stage' # "parse"  BY DEF FindBinary, ProbeVersion, Trouble, GoTo, Stop
    <2> QED  BY <1>1, <2>1, Zenon DEF Faithful, ConfigFaithful
  <1>4. CASE stage' = "version"
    <2>1. problems' = {}  BY <1>1, <1>2, <1>4 DEF FindBinary, ProbeVersion, Trouble, GoTo, Stop
    <2>2. ProblemsTrue' /\ SealedSoFar' /\ FilesTrue'
      BY <1>1, <1>2, <1>4, <2>1 DEF ProblemsTrue, SealedSoFar, FilesTrue, reading, Early, Underway, Reading
    <2> QED  BY <1>3, <1>4, <2>2, NotOver DEF Told, Faithful
  <1>5. CASE stage' = "lstat"
    <2>1. /\ problems' = {} <=> restic = "supported"
          /\ mode = "serve" => restic = "supported"
      BY <1>1, <1>2, <1>5 DEF FindBinary, ProbeVersion, Trouble, GoTo, Stop
    <2>2. FilesRead(disk, Repository', 0, location, <<>>)
      <3>1. Gathered(disk, Repository', 0 - 2, <<>>)  BY NoEntries
      <3> QED  BY <3>1 DEF FilesRead
    <2>3. FilesTrue'  BY <1>1, <1>2, <1>5, <2>2 DEF FilesTrue, reading, Early
    <2>4. ProblemsTrue' /\ SealedSoFar'
      BY <1>1, <1>2, <1>5, <2>1 DEF ProblemsTrue, SealedSoFar, reading, Early, Underway, Reading
    <2> QED  BY <1>3, <1>5, <2>3, <2>4, NotOver DEF Told, Faithful
  <1>6. CASE stage' = "exited"
    <2>1. exit' = 2 /\ restic # "supported"
      BY <1>6 DEF FindBinary, ProbeVersion, Trouble, GoTo, Stop
    <2>2. ~Healthy  BY <2>1, Zenon DEF Healthy
    <2> QED  BY <1>1, <1>6, <2>1, <2>2, Ended, Refused DEF Told
  <1>7. stage' \in {"version", "lstat", "exited"}
    BY DEF FindBinary, ProbeVersion, Trouble, GoTo, Stop
  <1> QED  BY <1>4, <1>5, <1>6, <1>7

(* One stage of reading follows another: nothing but the stage has changed, *)
(* and perhaps the file in hand.                                             *)
LEMMA NextLook ==
  ASSUME Faithful, stage \in Reading, stage' \in {"open", "fstat", "read"},
         disk' = disk, restic' = restic, mode' = mode, config' = config, problems' = problems,
         repo' = repo, file' = file, location' = location, extra' = extra,
         sealed' = sealed, contacted' = contacted,
         FileGood(disk, Path), stage' \in {"fstat", "read"} => hand'.file = disk[Path]
  PROVE  Told
  <1>1. Repository' = Repository /\ Path' = Path  BY DEF Repository, Path
  <1>2. ConfigFaithful'
    <2>1. stage' # "parse"  BY Zenon
    <2> QED  BY <2>1, Zenon DEF Faithful, ConfigFaithful
  <1>3. ProblemsTrue' /\ SealedSoFar'
    BY DEF Faithful, ProblemsTrue, SealedSoFar, Reading, Early, Underway
  <1>4. FilesTrue'
    <2>1. FilesRead(disk, Repository, file - 1, location, extra)  BY DEF Faithful, FilesTrue
    <2> QED  BY <1>1, <2>1 DEF FilesTrue, Early
  <1>5. VerdictTrue'  BY NotOver
  <1> QED  BY <1>2, <1>3, <1>4, <1>5 DEF Told, Faithful

LEMMA CheckSecretPathTells == ASSUME BootInv, Faithful, CheckSecretPath PROVE Told
  <1>1. /\ stage = "lstat" /\ disk' = disk /\ restic' = restic /\ mode' = mode
        /\ config' = config /\ problems' = problems /\ repo' = repo /\ file' = file
        /\ location' = location /\ extra' = extra /\ sealed' = sealed /\ contacted' = contacted
    BY DEF CheckSecretPath, environment, reading
  <1>2. stage \in Reading /\ TypeOK  BY <1>1 DEF Reading, BootInv
  <1>3. CASE FileGood(disk, Path)
    <2>1. stage' = "open"  BY <1>3 DEF FileGood, Proven, CheckSecretPath, GoTo
    <2> QED  BY <1>1, <1>2, <1>3, <2>1, NextLook
  <1>4. CASE ~FileGood(disk, Path)
    <2>1. stage' = "exited" /\ exit' = 2
      BY <1>4 DEF FileGood, Proven, CheckSecretPath, Stop
    <2>2. ~RepositoryGood(disk, Repository)
      <3>1. Repository \in Repositories /\ file \in 1..Len(SecretsOf(Repository))
        BY <1>2, RepositoryKnown, PathIsSecret
      <3>2. file \in DOMAIN SecretsOf(Repository)  BY <3>1, SecretsInOrder
      <3> QED  BY <1>4, <3>1, <3>2, FileSpoils DEF Path
    <2>3. ~Healthy  BY <1>2, <2>2, OneIsBad DEF Faithful
    <2> QED  BY <1>1, <2>1, <2>3, Ended, Refused DEF Told
  <1> QED  BY <1>3, <1>4

LEMMA OpenSecretTells == ASSUME BootInv, Faithful, OpenSecret PROVE Told
  <1>1. /\ stage = "open" /\ disk' = disk /\ restic' = restic /\ mode' = mode
        /\ config' = config /\ problems' = problems /\ repo' = repo /\ file' = file
        /\ location' = location /\ extra' = extra /\ sealed' = sealed /\ contacted' = contacted
    BY DEF OpenSecret, environment
  <1>2. FileGood(disk, Path)  BY <1>1 DEF Faithful, FilesTrue
  <1>3. disk[Path] # None /\ disk[Path].kind # "symlink"  BY <1>2 DEF FileGood, SecretAccepted
  <1>4. /\ hand' = [file |-> disk[Path], linked |-> TRUE, proven |-> proven[Path]]
        /\ stage' = "fstat"
    BY <1>3 DEF OpenSecret, GoTo
  <1>5. hand'.file = disk[Path] /\ stage \in Reading  BY <1>1, <1>4 DEF Reading
  <1> QED  BY <1>1, <1>2, <1>4, <1>5, NextLook

LEMMA CheckOpenSecretTells == ASSUME BootInv, Faithful, CheckOpenSecret PROVE Told
  <1>1. /\ stage = "fstat" /\ disk' = disk /\ restic' = restic /\ mode' = mode
        /\ config' = config /\ problems' = problems /\ repo' = repo /\ file' = file
        /\ location' = location /\ extra' = extra /\ sealed' = sealed /\ contacted' = contacted
    BY DEF CheckOpenSecret, environment
  <1>2. FileGood(disk, Path) /\ hand.file = disk[Path]  BY <1>1 DEF Faithful, FilesTrue
  <1>3. stage' = "read" /\ hand' = hand  BY <1>2 DEF FileGood, CheckOpenSecret, GoTo
  <1>4. stage \in Reading  BY <1>1 DEF Reading
  <1> QED  BY <1>1, <1>2, <1>3, <1>4, NextLook

LEMMA ReadSecretTells == ASSUME BootInv, Faithful, ReadSecret PROVE Told
  <1> DEFINE b == disk[Path].body
  <1>1. /\ stage = "read" /\ disk' = disk /\ restic' = restic /\ mode' = mode
        /\ config' = config /\ problems' = problems /\ repo' = repo
        /\ sealed' = sealed /\ contacted' = contacted
    BY DEF ReadSecret, environment
  <1>2. FileGood(disk, Path) /\ hand.file = disk[Path]  BY <1>1 DEF Faithful, FilesTrue
  <1>3. /\ stage \in Reading /\ TypeOK /\ Repository \in Repositories
        /\ file \in 1..Len(SecretsOf(Repository)) /\ file \in DOMAIN SecretsOf(Repository)
        /\ Path = SecretsOf(Repository)[file] /\ extra \in Seq(EnvEntries)
    <2>1. stage \in Reading /\ TypeOK  BY <1>1 DEF Reading, BootInv
    <2>2. Repository \in Repositories /\ file \in 1..Len(SecretsOf(Repository))
      BY <2>1, RepositoryKnown, PathIsSecret
    <2> QED  BY <2>1, <2>2, SecretsInOrder DEF Path, TypeOK
  <1>4. disk[Path].size <= MaxSecretBytes /\ b \in SecretBodies
    <2>1. disk[Path] \in SecretFiles  BY <1>2, <1>3, PathIsSecret DEF FileGood
    <2>2. disk[Path].size \in 1..MaxSecretBytes  BY <1>2 DEF FileGood, SecretAccepted
    <2>3. MaxSecretBytes \in Int  BY DEF MaxSecretBytes
    <2>4. disk[Path].size <= MaxSecretBytes  BY <2>2, <2>3
    <2>5. b \in SecretBodies  BY <2>1 DEF SecretFiles
    <2> QED  BY <2>4, <2>5
  <1>5. FilesRead(disk, Repository, file - 1, location, extra)
    BY <1>1 DEF Faithful, FilesTrue, Reading
  <1>6. Repository' = Repository  BY <1>1 DEF Repository
  <1>7. CASE TextAccepted(b)
    <2>1. /\ location' = (IF file = 1 THEN b ELSE location)
          /\ extra' = (IF file > 2 THEN extra \o b.entries ELSE extra)
          /\ file' = file + 1
          /\ stage' = (IF file < Len(SecretsOf(Repository)) THEN "lstat" ELSE "seal")
      BY <1>2, <1>4, <1>7 DEF ReadSecret, GoTo
    <2>2. FilesRead(disk, Repository, file, location', extra')
      BY <1>2, <1>3, <1>4, <1>5, <2>1, OneMoreFile
    <2>3. file' - 1 = file /\ (stage' = "seal" => file = Len(SecretsOf(Repository)))
      BY <1>3, <2>1, SecretsInOrder
    <2>4. FilesTrue'
      BY <1>1, <1>6, <2>1, <2>2, <2>3 DEF FilesTrue, Early
    <2>5. stage' # "parse"  BY <2>1
    <2>6. ConfigFaithful'  BY <1>1, <2>5, Zenon DEF Faithful, ConfigFaithful
    <2>7. ProblemsTrue' /\ SealedSoFar'
      BY <1>1, <2>1 DEF Faithful, ProblemsTrue, SealedSoFar, Reading, Early, Underway
    <2> QED  BY <2>1, <2>4, <2>6, <2>7, NotOver DEF Told, Faithful
  <1>8. CASE ~TextAccepted(b)
    <2>1. stage' = "exited" /\ exit' = 2  BY <1>2, <1>8 DEF ReadSecret, Stop
    <2>2. ~RepositoryGood(disk, Repository)
      <3> SUFFICES ASSUME RepositoryGood(disk, Repository) PROVE FALSE  OBVIOUS
      <3>1. CASE file = 1
        <4>1. Path = Repository.location /\ ~LocationAccepted(b)
          BY <1>3, <1>8, <3>1, SecretsInOrder DEF TextAccepted
        <4>2. ClassifyBackend(b) \notin SupportedBackends
          BY <1>4, <4>1, Classified DEF LocationAccepted
        <4> QED  BY <4>1, <4>2, Zenon DEF RepositoryGood
      <3>2. CASE file = 2
        <4>1. location = disk[Repository.location].body  BY <1>5, <3>2 DEF FilesRead
        <4>2. ClassifyBackend(location) \notin SupportedBackends
          BY <1>8, <3>2 DEF TextAccepted
        <4> QED  BY <4>1, <4>2, Zenon DEF RepositoryGood
      <3>3. CASE file > 2
        <4>1. ~EnvFileAccepted(b)  BY <1>8, <3>3 DEF TextAccepted
        <4>2. EnvFileAccepted(disk[SecretsOf(Repository)[file]].body)
          BY <1>3, <3>3, FileSpoils
        <4> QED  BY <1>3, <4>1, <4>2
      <3> QED  BY <1>3, <3>1, <3>2, <3>3, SecretsInOrder
    <2>3. ~Healthy  BY <1>3, <2>2, OneIsBad DEF Faithful
    <2> QED  BY <1>1, <2>1, <2>3, Ended, Refused DEF Told
  <1> QED  BY <1>7, <1>8

LEMMA SealRepositoryTells == ASSUME BootInv, Faithful, SealRepository PROVE Told
  <1> DEFINE accepted == /\ ClassifyBackend(location) = "s3" => HasStaticS3Credentials(extra)
                         /\ ChildEnvAccepted(extra)
  <1>1. /\ stage = "seal" /\ disk' = disk /\ restic' = restic /\ mode' = mode
        /\ config' = config /\ problems' = problems /\ contacted' = contacted
        /\ file' = 1 /\ extra' = <<>>
    BY DEF SealRepository, SealFrom, environment
  <1>2. /\ TypeOK /\ Repository \in Repositories /\ config # None /\ extra \in Seq(EnvEntries)
        /\ repo \in 1..Len(config.repositories)
        /\ config.repositories \in Seq(Repositories) /\ Len(config.repositories) \in Nat
        /\ DOMAIN config.repositories = 1..Len(config.repositories)
        /\ sealed \in Seq(Sealed) /\ Len(sealed) = repo - 1 /\ contacted = <<>>
    BY <1>1, RepositoryKnown, LenProperties DEF BootInv, TypeOK, Faithful, SealedSoFar
  <1>3. /\ location = disk[Repository.location].body
        /\ Gathered(disk, Repository, Len(Repository.env), extra)
        /\ \A i \in DOMAIN SecretsOf(Repository) : FileGood(disk, SecretsOf(Repository)[i])
    <2>1. /\ FilesRead(disk, Repository, file - 1, location, extra)
          /\ file - 1 = Len(SecretsOf(Repository))
      BY <1>1, <1>2, SecretsInOrder DEF Faithful, FilesTrue
    <2>2. FilesRead(disk, Repository, Len(SecretsOf(Repository)), location, extra)  BY <2>1
    <2>3. /\ Len(SecretsOf(Repository)) > 0
          /\ Len(SecretsOf(Repository)) - 2 = Len(Repository.env)
          /\ DOMAIN SecretsOf(Repository) = 1..Len(SecretsOf(Repository))
      BY <1>2, SecretsInOrder
    <2> QED  BY <2>2, <2>3 DEF FilesRead
  <1>4. RepositoryGood(disk, Repository) <=> accepted
    <2>1. ClassifyBackend(location) \in SupportedBackends  BY <1>1 DEF BootInv, Located
    <2> QED  BY <1>2, <1>3, <2>1, SealDecides
  <1>5. ConfigFaithful'
    <2>1. stage' # "parse"
      BY DEF SealRepository, SealFrom, Conclude, GoTo, Stop, BootInv, TypeOK, Modes
    <2> QED  BY <1>1, <2>1, Zenon DEF Faithful, ConfigFaithful
  <1>6. CASE accepted
    <2>1. /\ sealed' = Append(sealed, [backend |-> ClassifyBackend(location), location |-> location,
                                       env |-> extra, clean |-> clean])
          /\ repo' = repo + 1
          /\ IF repo < Len(config.repositories) THEN GoTo("lstat") ELSE Conclude
      BY <1>6 DEF SealRepository, SealFrom
    <2>2. Len(sealed') = repo
      <3>1. Len(sealed') = Len(sealed) + 1  BY <1>2, <2>1
      <3> QED  BY <1>2, <3>1
    <2>3. \A i \in 1..repo : RepositoryGood(disk, config.repositories[i])
      <3>1. \A i \in 1..(repo - 1) : RepositoryGood(disk, config.repositories[i])
        BY <1>1, <1>2 DEF Faithful, SealedSoFar, Underway
      <3>2. RepositoryGood(disk, config.repositories[repo])  BY <1>4, <1>6 DEF Repository
      <3>3. 1..repo = (1..(repo - 1)) \cup {repo}  BY <1>2
      <3> QED  BY <3>1, <3>2, <3>3, Zenon
    <2>4. ProblemsTrue'
      BY <1>1, <2>1 DEF Faithful, ProblemsTrue, Conclude, GoTo, Stop, BootInv, TypeOK, Modes,
         Early, Underway, Reading
    <2>5. CASE repo < Len(config.repositories)
      <3>1. stage' = "lstat"  BY <2>1, <2>5 DEF GoTo
      <3>2. SealedSoFar'
        BY <1>1, <1>2, <2>1, <2>2, <2>3, <3>1 DEF SealedSoFar, Early, Underway, Reading
      <3>3. FilesRead(disk, Repository', 0, location', <<>>)
        <4>1. Gathered(disk, Repository', 0 - 2, <<>>)  BY NoEntries
        <4> QED  BY <4>1 DEF FilesRead
      <3>4. FilesTrue'  BY <1>1, <3>1, <3>3 DEF FilesTrue, Early
      <3> QED  BY <1>5, <2>4, <3>1, <3>2, <3>4, NotOver DEF Told, Faithful
    <2>6. CASE ~(repo < Len(config.repositories))
      <3>1. repo = Len(config.repositories) /\ Conclude  BY <1>2, <2>1, <2>6
      <3>2. Healthy <=> restic = "supported"
        <4>1. ConfigFaithful  BY DEF Faithful
        <4>2. \A i \in DOMAIN config.repositories : RepositoryGood(disk, config.repositories[i])
          BY <1>2, <2>3, <3>1
        <4> QED  BY <1>2, <4>1, <4>2, ConfigHealthy, Zenon
      <3>3. /\ problems = {} <=> restic = "supported"
            /\ mode = "serve" => restic = "supported"
        BY <1>1 DEF Faithful, ProblemsTrue, Underway
      <3>4. mode \in Modes  BY <1>2 DEF TypeOK
      <3>5. CASE mode = "serve"
        <4>1. stage' = "serving"  BY <3>1, <3>5 DEF Conclude, GoTo
        <4>2. SealedSoFar'
          BY <1>1, <1>2, <2>2, <2>3, <3>1, <3>5, <4>1 DEF SealedSoFar, Early, Underway, Reading
        <4>3. FilesTrue'  BY <4>1 DEF FilesTrue, Early, Reading
        <4>4. Healthy'  BY <1>1, <3>2, <3>3, <3>5, HealthyKept
        <4>5. VerdictTrue'
          <5> HIDE DEF Healthy
          <5>1. stage' # "exited"  BY <4>1
          <5> QED  BY <4>1, <4>4, <5>1, Zenon DEF VerdictTrue
        <4> QED  BY <1>5, <2>4, <4>2, <4>3, <4>5 DEF Told, Faithful
      <3>6. CASE mode = "diagnose" /\ restic # "missing"
        <4>1. stage' = "connect"  BY <3>1, <3>6 DEF Conclude, GoTo
        <4>2. Len(contacted) = 0  BY <1>2
        <4>3. SealedSoFar'
          BY <1>1, <1>2, <2>2, <2>3, <3>1, <3>6, <4>1, <4>2 DEF SealedSoFar, Early, Underway, Reading
        <4>4. FilesTrue'  BY <4>1 DEF FilesTrue, Early, Reading
        <4> QED  BY <1>5, <2>4, <4>1, <4>3, <4>4, NotOver DEF Told, Faithful
      <3>7. CASE mode = "diagnose" /\ restic = "missing"
        <4>1. stage' = "exited" /\ exit' = 2  BY <3>1, <3>7 DEF Conclude, Stop
        <4>2. ~Healthy  BY <3>2, <3>7
        <4> QED  BY <1>1, <4>1, <4>2, Ended, Refused DEF Told
      <3>8. CASE mode = "validate"
        <4>1. stage' = "exited" /\ exit' = (IF problems = {} THEN 0 ELSE 2)
          BY <3>1, <3>8 DEF Conclude, Stop
        <4>2. exit' = IF Healthy' THEN 0 ELSE 2
          BY <1>1, <3>2, <3>3, <4>1, HealthyKept, Zenon
        <4>3. mode' = "validate"  BY <1>1, <3>8
        <4>4. VerdictTrue'
          <5>1. stage' # "serving" /\ mode' # "serve" /\ mode' # "diagnose"  BY <4>1, <4>3
          <5> QED  BY <4>2, <5>1, Zenon DEF VerdictTrue
        <4>5. Faithful'  BY <1>1, <4>1, Ended
        <4> QED  BY <4>4, <4>5 DEF Told
      <3> QED  BY <3>4, <3>5, <3>6, <3>7, <3>8 DEF Modes
    <2> QED  BY <2>5, <2>6
  <1>7. CASE ~accepted
    <2>1. stage' = "exited" /\ exit' = 2  BY <1>7 DEF SealRepository, SealFrom, Stop
    <2>2. ~Healthy  BY <1>1, <1>4, <1>7, OneIsBad DEF Faithful
    <2> QED  BY <1>1, <2>1, <2>2, Ended, Refused DEF Told
  <1> QED  BY <1>6, <1>7

LEMMA ContactTells ==
  ASSUME BootInv, Faithful, NEW answers \in BOOLEAN, Contact(answers)
  PROVE  Told
  <1>1. /\ stage = "connect" /\ disk' = disk /\ restic' = restic /\ mode' = mode
        /\ config' = config /\ problems' = problems /\ sealed' = sealed
        /\ contacted' = Append(contacted, answers)
        /\ IF Len(contacted') < Len(sealed) THEN GoTo("connect")
           ELSE Stop(IF problems # {} THEN 2 ELSE IF AllAnswered(contacted') THEN 0 ELSE 3)
    BY DEF Contact, environment
  <1>2. /\ TypeOK /\ config # None /\ contacted \in Seq(BOOLEAN)
        /\ sealed \in Seq(Sealed) /\ Len(sealed) \in Nat
        /\ config.repositories \in Seq(Repositories) /\ Len(config.repositories) \in Nat
        /\ DOMAIN config.repositories = 1..Len(config.repositories)
    BY <1>1, LenProperties, NoneIsNothing DEF BootInv, TypeOK, Configurations
  <1>3. /\ contacted' \in Seq(BOOLEAN) /\ Len(contacted') = Len(contacted) + 1
        /\ Len(contacted) \in Nat /\ DOMAIN contacted' = 1..Len(contacted')
    BY <1>1, <1>2, AppendProperties, LenProperties
  <1>4. /\ mode = "diagnose"
        /\ Len(contacted) < Len(sealed) /\ Len(sealed) = Len(config.repositories)
        /\ \A i \in 1..Len(sealed) : RepositoryGood(disk, config.repositories[i])
        /\ problems = {} <=> restic = "supported"
        /\ mode = "serve" => restic = "supported"
    BY <1>1 DEF Faithful, SealedSoFar, ProblemsTrue, Underway
  <1>5. CASE Len(contacted') < Len(sealed)
    <2>1. stage' = "connect"  BY <1>1, <1>5 DEF GoTo
    <2>2. ConfigFaithful'
      <3>1. stage' # "parse"  BY <2>1
      <3> QED  BY <1>1, <3>1, Zenon DEF Faithful, ConfigFaithful
    <2>3. ProblemsTrue' /\ SealedSoFar' /\ FilesTrue'
      BY <1>1, <1>4, <1>5, <2>1 DEF ProblemsTrue, SealedSoFar, FilesTrue, Early, Underway, Reading
    <2> QED  BY <2>1, <2>2, <2>3, NotOver DEF Told, Faithful
  <1>6. CASE ~(Len(contacted') < Len(sealed))
    <2>1. /\ stage' = "exited"
          /\ exit' = (IF problems # {} THEN 2 ELSE IF AllAnswered(contacted') THEN 0 ELSE 3)
      BY <1>1, <1>6 DEF Stop
    <2>2. Len(contacted') = Len(config.repositories)  BY <1>2, <1>3, <1>4, <1>6
    <2>3. AllAnswered(contacted') <=> \A i \in DOMAIN config.repositories : contacted'[i]
      BY <1>2, <1>3, <2>2 DEF AllAnswered
    <2>4. Healthy <=> problems = {}
      <3>1. ConfigFaithful  BY DEF Faithful
      <3>2. \A i \in DOMAIN config.repositories : RepositoryGood(disk, config.repositories[i])
        BY <1>2, <1>4
      <3> QED  BY <1>2, <1>4, <3>1, <3>2, ConfigHealthy, Zenon
    <2>5. exit' = IF ~Healthy' THEN 2
                  ELSE IF \A i \in DOMAIN config'.repositories : contacted'[i] THEN 0 ELSE 3
      <3> DEFINE all == \A i \in DOMAIN config'.repositories : contacted'[i]
      <3>1. Healthy' <=> problems = {}  BY <1>1, <2>4, HealthyKept
      <3>2. AllAnswered(contacted') <=> all  BY <1>1, <2>3, Zenon
      <3> HIDE DEF all
      <3>3. exit' = (IF problems # {} THEN 2 ELSE IF all THEN 0 ELSE 3)  BY <2>1, <3>2
      <3>4. exit' = IF ~Healthy' THEN 2 ELSE IF all THEN 0 ELSE 3  BY <3>1, <3>3
      <3> QED  BY <3>4 DEF all
    <2>7. VerdictTrue'
      <3>1. stage' # "serving" /\ mode' # "serve" /\ mode' # "validate"  BY <1>1, <1>4, <2>1
      <3> QED  BY <2>5, <3>1, Zenon DEF VerdictTrue
    <2>8. Faithful'  BY <1>1, <2>1, Ended
    <2> QED  BY <2>7, <2>8 DEF Told
  <1> QED  BY <1>5, <1>6

LEMMA ServerEndsTells ==
  ASSUME BootInv, Faithful, VerdictTrue, changes = 0, NEW code \in {0, 1}, ServerEnds(code)
  PROVE  Told
  <1>1. /\ stage = "serving" /\ stage' = "exited" /\ exit' = code
        /\ disk' = disk /\ restic' = restic /\ mode' = mode /\ config' = config
    BY DEF ServerEnds, Stop, environment
  <1>2. Healthy  BY <1>1, Zenon DEF VerdictTrue
  <1>3. Healthy'  BY <1>1, <1>2, HealthyKept
  <1>4. mode' = "serve" /\ exit' # 2
    <2>1. mode = "serve"  BY <1>1 DEF Faithful, SealedSoFar
    <2> QED  BY <1>1, <2>1
  <1>5. VerdictTrue'
    <2>1. stage' # "serving" /\ mode' # "validate" /\ mode' # "diagnose"  BY <1>1, <1>4
    <2> QED  BY <1>3, <1>4, <2>1, Zenon DEF VerdictTrue
  <1>6. Faithful'  BY <1>1, Ended
  <1> QED  BY <1>5, <1>6 DEF Told

(* Every step: the operator's spoil the hypothesis, the others keep the disk. *)
TruthInv == BootInv /\ Undisturbed /\ VerdictTrue

LEMMA InitTruth == Init => TruthInv
  <1> SUFFICES ASSUME Init PROVE TruthInv  OBVIOUS
  <1>1. BootInv  BY InitInv
  <1>2. Faithful
    BY EmptySeq DEF Init, Faithful, ConfigFaithful, ProblemsTrue, SealedSoFar, FilesTrue, Early,
       Underway, Reading
  <1>3. VerdictTrue
    <2>1. stage = "load"  BY DEF Init
    <2>2. stage # "serving" /\ stage # "exited"  BY <2>1
    <2> QED  BY <2>2, Zenon DEF VerdictTrue
  <1> QED  BY <1>1, <1>2, <1>3 DEF TruthInv, Undisturbed

LEMMA TruthPreserved == TruthInv /\ [Next]_vars => TruthInv'
  <1> SUFFICES ASSUME TruthInv, [Next]_vars PROVE TruthInv'  OBVIOUS
  <1>1. BootInv'  BY Preserved DEF TruthInv
  <1>2. changes \in Nat  BY BoundOnChanges DEF TruthInv, BootInv, TypeOK
  <1>3. ASSUME changes' = changes, changes = 0 => Told
        PROVE  Undisturbed' /\ VerdictTrue'
    <2>1. CASE changes = 0  BY <1>3, <2>1 DEF Told, Undisturbed
    <2>2. CASE changes # 0
      <3>1. changes' # 0  BY <1>3, <2>2
      <3> QED  BY <3>1, Zenon DEF Undisturbed, VerdictTrue
    <2> QED  BY <2>1, <2>2
  <1>4. changes = 0 => BootInv /\ Faithful /\ VerdictTrue  BY DEF TruthInv, Undisturbed
  <1>5. CASE Start
    <2>1. changes' = changes
      BY <1>5 DEF Start, CheckConfigFile, ReadConfig, FindBinary, ProbeVersion, environment
    <2>2. changes = 0 => Told
      BY <1>4, <1>5, CheckConfigFileTells, ReadConfigTells, ProbeTells DEF Start
    <2> QED  BY <1>1, <1>3, <2>1, <2>2 DEF TruthInv
  <1>6. CASE Register
    <2>1. changes' = changes
      BY <1>6 DEF Register, CheckSecretPath, OpenSecret, CheckOpenSecret, ReadSecret,
         SealRepository, SealFrom, environment
    <2>2. changes = 0 => Told
      BY <1>4, <1>6, CheckSecretPathTells, OpenSecretTells, CheckOpenSecretTells,
         ReadSecretTells, SealRepositoryTells DEF Register
    <2> QED  BY <1>1, <1>3, <2>1, <2>2 DEF TruthInv
  <1>7. CASE \E answers \in BOOLEAN : Contact(answers)
    <2>1. changes' = changes  BY <1>7 DEF Contact, environment
    <2>2. changes = 0 => Told  BY <1>4, <1>7, ContactTells
    <2> QED  BY <1>1, <1>3, <2>1, <2>2 DEF TruthInv
  <1>8. CASE \E code \in {0, 1} : ServerEnds(code)
    <2>1. changes' = changes  BY <1>8 DEF ServerEnds, environment
    <2>2. changes = 0 => Told  BY <1>4, <1>8, ServerEndsTells
    <2> QED  BY <1>1, <1>3, <2>1, <2>2 DEF TruthInv
  <1>9. CASE \E p \in Paths : \E f \in Files[p] : Replace(p, f) \/ Edit(p, f)
    <2>1. changes' = changes + 1  BY <1>9 DEF Replace, Edit, Changes
    <2>2. changes' # 0  BY <1>2, <2>1
    <2> QED  BY <1>1, <2>2, Zenon DEF TruthInv, Undisturbed, VerdictTrue
  <1>10. CASE UNCHANGED vars
    <2>1. changes' = changes  BY <1>10 DEF vars, environment
    <2>2. Faithful => Faithful'
      BY <1>10, Zenon DEF vars, environment, reading, Faithful, ConfigFaithful, ProblemsTrue,
         SealedSoFar, FilesTrue, Repository, Path
    <2>3. VerdictTrue => VerdictTrue'
      <3>1. Healthy' <=> Healthy  BY <1>10, HealthyKept DEF vars, environment
      <3> HIDE DEF Healthy
      <3> QED  BY <1>10, <3>1, Zenon DEF vars, environment, reading, VerdictTrue
    <2>4. changes = 0 => Told  BY <1>4, <2>2, <2>3 DEF Told
    <2> QED  BY <1>1, <1>3, <2>1, <2>4 DEF TruthInv
  <1> QED  BY <1>5, <1>6, <1>7, <1>8, <1>9, <1>10 DEF Next

\* For every disk that nobody changes meanwhile, however many repositories and
\* credential files there are: main serves only what is healthy, and the exit
\* codes of a server, of a validation and of a diagnosis are true of the disk.
THEOREM VerdictsTrue == Spec => []VerdictTrue
  <1>1. TruthInv => VerdictTrue  BY DEF TruthInv
  <1> QED  BY <1>1, InitTruth, TruthPreserved, PTL DEF Spec
=============================================================================
