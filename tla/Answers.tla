------------------------------ MODULE Answers ------------------------------
(***************************************************************************)
(* Selection beside the command lines that its requests lead to: what the  *)
(* policy lets a client ask, and what restic is asked then.                *)
(***************************************************************************)
EXTENDS Selection, Argv

(* The questions that the policy lets a client put (host and tag filters of  *)
(* the handlers, before they run restic).                                    *)
Permitted(q) ==
  q.command = "snapshots" =>
    /\ \A i \in DOMAIN q.hosts : HostGranted(policy, q.hosts[i])
    /\ TagsGranted(policy, {q.tags[i] : i \in DOMAIN q.tags})

\* Whatever a client is going to ask, its answer is of what it asked: names,
\* tags and paths that look like options are taken for values, and no result
\* of another question or repository is shared with it (commands.go, metadataKey).
\* Only the policy matters to that, so one content of the repository will do.
AnswersFitQuestions ==
  request = None /\ repo = {} => \A q \in Misunderstood : ~Permitted(q)
=============================================================================
