-------------------------------- MODULE Argv --------------------------------
(***************************************************************************)
(* The command lines given to restic (internal/restic/commands.go), how    *)
(* restic reads them, and the key under which those of `snapshots` are     *)
(* coalesced and cached (internal/repositories/metadata.go).               *)
(*                                                                         *)
(* A word is what a client or a configuration may give: of each only what  *)
(* the code tests is known, and where a NUL is in it.                      *)
(***************************************************************************)
EXTENDS Integers, Sequences, FiniteSets
Ext == INSTANCE SequencesExt

CONSTANTS
  Invalid,        \* words that are empty or have a control character
  Dashed,         \* words that begin with "-"
  Denied,         \* words that are a denied option, alone or with "=" and a value
  SnapshotIds,    \* words of 8 to 64 hexadecimal digits
  Globs,          \* words that are not too long and have no character of a regular expression
  Clean,          \* of each word that policy.CleanPath accepts, the cleaned path
  Pieces,         \* of each word with a NUL, what is before, between and after its NULs
  Modes,          \* allowlisted modes of `restic stats`
  Repositories,   \* configured repositories
  Questions       \* what handlers may want of restic

\* The options that production sets, with and without a value.
Valued == {"--host", "--tag", "--path", "--snapshot", "--mode"}
Switches == {"--json", "--recursive", "--ignore-case"}

ASSUME WordsApart ==
  /\ Valued \cup Switches \cup {"--"} \subseteq Dashed
  /\ DOMAIN Pieces \subseteq Invalid
  /\ (SnapshotIds \cup Modes \cup {Clean[w] : w \in DOMAIN Clean}) \cap (Dashed \cup Invalid) = {}

ASSUME QuestionsKnown ==
  /\ \A w \in DOMAIN Clean : Clean[w] \in STRING
  /\ Questions \subseteq
       [command : {"snapshots"}, hosts : Seq(STRING), tags : Seq(STRING), paths : Seq(STRING),
        ids : Seq(STRING)]
       \cup [command : {"ls"}, id : STRING, dir : STRING, recursive : BOOLEAN]
       \cup [command : {"find"}, pattern : STRING, ids : Seq(STRING), ignoreCase : BOOLEAN]
       \cup [command : {"stats"}, mode : STRING, ids : Seq(STRING)]

(* The questions that can be put with these names, other words and lists. *)
QuestionsWith(names, words, tagLists, idLists) ==
  LET optional(S) == {<<>>} \cup {<<w>> : w \in S}
  IN [command : {"snapshots"}, hosts : optional(names), tags : tagLists, paths : optional(words),
      ids : idLists]
     \cup [command : {"ls"}, id : words, dir : words \cup names, recursive : BOOLEAN]
     \cup [command : {"find"}, pattern : words \cup names, ids : idLists, ignoreCase : BOOLEAN]
     \cup [command : {"stats"}, mode : words, ids : idLists]

-----------------------------------------------------------------------------
RangeIn(list, S) == \A i \in DOMAIN list : list[i] \in S

Flagged(option, list) == Ext!FlattenSeq([i \in DOMAIN list |-> <<option, list[i]>>])

If(condition, word) == IF condition THEN <<word>> ELSE <<>>

CleanAll(list) == [i \in DOMAIN list |-> Clean[list[i]]]

\* No mode is restore-size.
ModeOf(q) == IF q.mode = "" THEN "restore-size" ELSE q.mode

(* What the builders accept. *)
Buildable(q) ==
  CASE q.command = "snapshots" ->
         /\ \A i \in DOMAIN q.hosts : q.hosts[i] \notin Invalid
         /\ \A i \in DOMAIN q.tags : q.tags[i] \notin Invalid
         /\ RangeIn(q.paths, DOMAIN Clean) /\ RangeIn(q.ids, SnapshotIds)
    [] q.command = "ls" -> q.id \in SnapshotIds /\ q.dir \in DOMAIN Clean
    [] q.command = "find" -> /\ q.pattern \in Globs /\ q.pattern \notin Invalid \cup Dashed
                             /\ RangeIn(q.ids, SnapshotIds)
    [] q.command = "stats" -> ModeOf(q) \in Modes /\ RangeIn(q.ids, SnapshotIds)

SnapshotsArgv(q) ==
  <<"snapshots", "--json">> \o Flagged("--host", q.hosts) \o Flagged("--tag", q.tags)
    \o Flagged("--path", CleanAll(q.paths)) \o q.ids

LSArgv(q) == <<"ls", "--json", q.id>> \o If(q.recursive, "--recursive") \o <<Clean[q.dir]>>

FindArgv(q) ==
  <<"find", "--json">> \o If(q.ignoreCase, "--ignore-case") \o Flagged("--snapshot", q.ids)
    \o <<"--", q.pattern>>

StatsArgv(q) == <<"stats", "--json", "--mode", ModeOf(q)>> \o q.ids

Argv(q) ==
  CASE q.command = "snapshots" -> SnapshotsArgv(q)
    [] q.command = "ls" -> LSArgv(q)
    [] q.command = "find" -> FindArgv(q)
    [] q.command = "stats" -> StatsArgv(q)

(* AssertArgvAllowed: no denied option before the first "--", no dash after it. *)
AssertArgvAllowed(argv) ==
  /\ argv # <<>> /\ argv[1] \in {"version", "snapshots", "ls", "find", "stats"}
  /\ \A i \in DOMAIN argv :
       /\ argv[i] \notin Invalid
       /\ IF \E j \in 1..(i - 1) : argv[j] = "--" THEN argv[i] \notin Dashed
          ELSE argv[i] \notin Denied

Accepted(q) == Buildable(q) /\ AssertArgvAllowed(Argv(q))

(* Slip: the words are put in order, so that like questions share a key. *)
MetadataKeySorted(repository, argv) ==
  <<repository, {argv[i] : i \in DOMAIN argv}>>

(* metadataKey joins the words with NUL. *)
MetadataKey(repository, argv) ==
  <<repository>> \o Ext!FlattenSeq([i \in DOMAIN argv |->
                      IF argv[i] \in DOMAIN Pieces THEN Pieces[argv[i]] ELSE <<argv[i]>>])

-----------------------------------------------------------------------------
(* How restic reads a command line: an option that takes a value takes the    *)
(* next word whatever it is, and "--" ends the options.                       *)
RoleOf(argv, role, i) ==
  CASE i = 1 -> "command"
    [] i > 1 /\ role[i - 1] = "option" -> "value"
    [] i > 1 /\ role[i - 1] # "option" ->
         IF \E j \in 2..(i - 1) : role[j] = "end" THEN "positional"
         ELSE IF argv[i] = "--" THEN "end"
         ELSE IF argv[i] \in Valued THEN "option"
         ELSE IF argv[i] \in Dashed THEN "switch"
         ELSE "positional"

Roles(argv) == LET role[i \in 1..Len(argv)] == RoleOf(argv, role, i) IN role

Reading(argv) ==
  LET role == Roles(argv)
      at(r) == {i \in DOMAIN argv : role[i] = r}
      rank(i) == Cardinality({j \in at("positional") : j <= i})
  IN [command |-> argv[1],
      options |-> {<<argv[i], argv[i + 1]>> : i \in at("option")},
      switches |-> {argv[i] : i \in at("switch")},
      positional |-> [k \in 1..Cardinality(at("positional")) |->
                        argv[CHOOSE i \in at("positional") : rank(i) = k]]]

(* What is meant by a question. *)
Given(option, list) == {<<option, list[i]>> : i \in DOMAIN list}

Meaning(q) ==
  CASE q.command = "snapshots" ->
         [command |-> "snapshots", switches |-> {"--json"}, positional |-> q.ids,
          options |-> Given("--host", q.hosts) \cup Given("--tag", q.tags)
                        \cup Given("--path", CleanAll(q.paths))]
    [] q.command = "ls" ->
         [command |-> "ls", options |-> {}, positional |-> <<q.id, Clean[q.dir]>>,
          switches |-> {"--json"} \cup (IF q.recursive THEN {"--recursive"} ELSE {})]
    [] q.command = "find" ->
         [command |-> "find", options |-> Given("--snapshot", q.ids), positional |-> <<q.pattern>>,
          switches |-> {"--json"} \cup (IF q.ignoreCase THEN {"--ignore-case"} ELSE {})]
    [] q.command = "stats" ->
         [command |-> "stats", options |-> {<<"--mode", ModeOf(q)>>}, positional |-> q.ids,
          switches |-> {"--json"}]

Asked == {q \in Questions : Accepted(q)}

Keys == [c \in {q \in Asked : q.command = "snapshots"} \X Repositories |->
           MetadataKey(c[2], Argv(c[1]))]

(* The questions that are answered as something else: restic reads their       *)
(* command lines so, or a result shared under their key, by coalescing or from *)
(* the cache, is for another repository or meaning.                            *)
Misunderstood ==
  {q \in Asked : Reading(Argv(q)) # Meaning(q)}
     \cup {c[1] : c \in {c \in DOMAIN Keys :
                          \E d \in DOMAIN Keys : /\ Keys[c] = Keys[d]
                                                 /\ c[2] # d[2] \/ Meaning(c[1]) # Meaning(d[1])}}
=============================================================================
