------------------------------- MODULE Config -------------------------------
(***************************************************************************)
(* What the configuration and the files it names must be for the server to *)
(* start (internal/config/config.go, internal/restic/backend.go and the    *)
(* environment of a child in internal/restic/runner.go).                   *)
(*                                                                         *)
(* Durations are in milliseconds, sizes in bytes.  The checks of single    *)
(* strings (the pattern of an id, absolute paths, hosts, tags, labels, and *)
(* how many of them there are) are one field of a repository, `sound`; a   *)
(* configuration that YAML does not let through, or of another version,    *)
(* does not `decode`.                                                      *)
(***************************************************************************)
EXTENDS Integers, Sequences, FiniteSets

\* The fields that have a default; the two of the cache do not.
SetFields == {"command", "expensive", "snapshots", "nodes", "finds", "output", "scan", "decoded",
              "response", "perRepo", "global"}
LimitFields == SetFields \cup {"ttl", "entries"}

Defaults ==
  [command |-> 30000, expensive |-> 300000, snapshots |-> 100, nodes |-> 500, finds |-> 200,
   output |-> 8388608, scan |-> 16777216, decoded |-> 50000, response |-> 2097152,
   perRepo |-> 1, global |-> 4]

Lowest ==
  [command |-> 1000, expensive |-> 10000, snapshots |-> 1, nodes |-> 1, finds |-> 1,
   output |-> 65536, scan |-> 65536, decoded |-> 1, response |-> 16384,
   perRepo |-> 1, global |-> 1]

Highest ==
  [command |-> 120000, expensive |-> 900000, snapshots |-> 1000, nodes |-> 5000, finds |-> 2000,
   output |-> 33554432, scan |-> 67108864, decoded |-> 1000000, response |-> 16777216,
   perRepo |-> 4, global |-> 16]

DefaultCacheEntries == 128
MostCacheEntries == 1024
LeastCacheTTL == 1000
MostCacheTTL == 300000

\* Slip: the cache is switched on, and no default is given for its size.
WithDefaultsNoCache(l) ==
  [f \in LimitFields |-> IF l[f] = 0 /\ f \in SetFields THEN Defaults[f] ELSE l[f]]

\* applyLimitDefaults: zero stands for the default.
WithDefaults(l) ==
  [f \in LimitFields |->
     IF l[f] = 0 /\ f \in SetFields THEN Defaults[f]
     ELSE IF f = "entries" /\ l[f] = 0 /\ l.ttl > 0 THEN DefaultCacheEntries
     ELSE l[f]]

\* validateLimits
LimitsAccepted(l) ==
  /\ \A f \in SetFields : l[f] \in Lowest[f]..Highest[f]
  /\ l.expensive >= l.command
  /\ l.ttl = 0 \/ l.ttl \in LeastCacheTTL..MostCacheTTL
  /\ l.ttl = 0 => l.entries = 0
  /\ l.entries \in 0..MostCacheEntries

\* Validate, of a configuration [decodes, limits, repositories].
ConfigAccepted(c) ==
  LET n == Len(c.repositories) IN
  /\ c.decodes
  /\ LimitsAccepted(WithDefaults(c.limits))
  /\ n \in 1..32
  /\ \A i \in 1..n : c.repositories[i].sound
  /\ \A i, j \in 1..n : i # j => c.repositories[i].id # c.repositories[j].id

-----------------------------------------------------------------------------
(* The files named: a record [kind, size, private, body].  A secret file is  *)
(* private if only its owner may read it.                                    *)

MaxConfigBytes == 1048576
MaxSecretBytes == 4096

SecretAccepted(f) == f.kind = "regular" /\ f.size \in 1..MaxSecretBytes /\ f.private

\* The secret files of a repository, in the order New reads them.
SecretsOf(r) == <<r.location, r.password>> \o r.env

(* The body of a location file: the prefix that names a backend, in small    *)
(* letters, or "" for none, and whether it is an absolute path; "blank" is a *)
(* location ReadRepositoryLocation refuses.                                  *)
LocationAccepted(body) == body.scheme # "blank"

ClassifyBackend(body) ==
  CASE body.scheme \in {"sftp", "rclone", "s3", "b2", "rest"} -> body.scheme
    [] body.scheme = "" /\ body.absolute -> "local"
    [] OTHER -> "other"

SupportedBackends == {"local", "s3", "b2", "rest"}

(* The body of a credential file is its entries [key, value]; a line that is *)
(* not KEY=VALUE has a key that is not allowed, WithNul stands for the       *)
(* values in which there is a null byte.                                     *)
WithNul == "NUL"

AllowedEnvKeys ==
  {"AWS_ACCESS_KEY_ID", "AWS_SECRET_ACCESS_KEY", "AWS_SESSION_TOKEN", "AWS_DEFAULT_REGION",
   "AWS_REGION", "B2_ACCOUNT_ID", "B2_ACCOUNT_KEY", "RESTIC_REST_USERNAME",
   "RESTIC_REST_PASSWORD", "TMPDIR", "TMP", "TEMP"}

EnvFileAccepted(body) == \A i \in DOMAIN body.entries : body.entries[i].key \in AllowedEnvKeys

\* requireStaticS3Credentials
HasStaticS3Credentials(entries) ==
  \A key \in {"AWS_ACCESS_KEY_ID", "AWS_SECRET_ACCESS_KEY"} :
    \E i \in DOMAIN entries : entries[i].key = key /\ entries[i].value # ""

EntryAccepted(e) == e.key \in AllowedEnvKeys /\ e.value # WithNul

\* BuildChildEnv: no key may be given twice, in one file or in two.
ChildEnvAccepted(entries) ==
  /\ \A i, j \in DOMAIN entries : i # j => entries[i].key # entries[j].key
  /\ \A i \in DOMAIN entries : EntryAccepted(entries[i])
=============================================================================
