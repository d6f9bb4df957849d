------------------------------- MODULE MCBoot -------------------------------
(* A small instance of Boot for TLC: two repositories that share a password  *)
(* file; the first is on S3 and has its credentials in two files.            *)
EXTENDS Boot

CONSTANTS cfg, la, lb, pw, ea, eb

MCPaths == {cfg, la, lb, pw, ea, eb}

Body(scheme, absolute, entries) == [scheme |-> scheme, absolute |-> absolute, entries |-> entries]
Text(scheme) == Body(scheme, scheme = "", <<>>)
Lines(keys) == Body("blank", FALSE, [i \in DOMAIN keys |-> [key |-> keys[i], value |-> "v"]])

Secret(body) == [kind |-> "regular", size |-> 100, private |-> TRUE, body |-> body]

Access == "AWS_ACCESS_KEY_ID"
Key == "AWS_SECRET_ACCESS_KEY"

(* What can be the matter with any file. *)
Spoilt(f) == {None, [f EXCEPT !.kind = "symlink"], [f EXCEPT !.kind = "other"],
              [f EXCEPT !.size = MaxSecretBytes + 1], [f EXCEPT !.private = FALSE]}

Emptied(f) == [f EXCEPT !.size = 0, !.body = Lines(<<>>)]

Bare == [f \in LimitFields |-> 0]

RepositoryA == [id |-> "a", location |-> la, password |-> pw, env |-> <<ea, eb>>, sound |-> TRUE]
RepositoryB == [id |-> "b", location |-> lb, password |-> pw, env |-> <<>>, sound |-> TRUE]

Configuration(limits, repositories) ==
  [decodes |-> TRUE, limits |-> limits, repositories |-> repositories]

Usual == Configuration(Bare, <<RepositoryA, RepositoryB>>)

ConfigFile(body) == [kind |-> "regular", size |-> 5000, private |-> FALSE, body |-> body]

(* What the file may say: limits at their bounds and beyond, a cache without *)
(* entries, entries without a cache, and what else Validate refuses.         *)
Written ==
  {Configuration(l, <<RepositoryA, RepositoryB>>) :
     l \in {Bare,
            [Bare EXCEPT !.ttl = 1000],
            [Bare EXCEPT !.ttl = 300000, !.entries = 1024],
            [Bare EXCEPT !.ttl = 1000, !.entries = 1025],
            [Bare EXCEPT !.ttl = 1000, !.entries = -1],
            [Bare EXCEPT !.entries = 1],
            [Bare EXCEPT !.command = 120000, !.expensive = 119999],
            [Bare EXCEPT !.perRepo = 5],
            [Bare EXCEPT !.global = -1]}}
  \cup {Configuration(Bare, <<>>),
        Configuration(Bare, <<RepositoryB>>),
        Configuration(Bare, <<RepositoryA, [RepositoryB EXCEPT !.id = "a"]>>),
        Configuration(Bare, <<[RepositoryA EXCEPT !.sound = FALSE]>>),
        [Usual EXCEPT !.decodes = FALSE]}

Base == [p \in MCPaths |->
           IF p = cfg THEN ConfigFile(Usual)
           ELSE IF p = la THEN Secret(Text("s3"))
           ELSE IF p = ea THEN Secret(Lines(<<Access>>))
           ELSE IF p = eb THEN Secret(Lines(<<Key>>))
           ELSE Secret(Text(""))]

OtherBodies(p) ==
  IF p \in {la, lb} THEN {Text("s3"), Text(""), Text("rest"), Text("sftp"), Text("blank"),
                          Body("", FALSE, <<>>)}
  ELSE IF p \in {ea, eb} THEN {Lines(<<Access>>), Lines(<<Key, Access>>), Lines(<<"AWS_PROFILE">>),
                               Body("blank", FALSE, <<[key |-> Key, value |-> ""]>>),
                               Body("blank", FALSE, <<[key |-> Key, value |-> WithNul]>>)}
  ELSE {Text("")}

MCFiles ==
  [p \in MCPaths |->
     {Base[p]} \cup
     IF p = cfg
     THEN {ConfigFile(b) : b \in Written}
          \cup {None, [Base[p] EXCEPT !.kind = "symlink"], [Base[p] EXCEPT !.kind = "other"],
                [Base[p] EXCEPT !.size = MaxConfigBytes + 1]}
     ELSE {Secret(b) : b \in OtherBodies(p)} \cup Spoilt(Base[p]) \cup {Emptied(Base[p])}]

(* At most one file is not as it should be when the program starts. *)
MCBootDisks == {[Base EXCEPT ![e[1]] = e[2]] : e \in UNION {{p} \X MCFiles[p] : p \in MCPaths}}
=============================================================================
