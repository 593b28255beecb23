---------------------------- MODULE MCIssueIntake ----------------------------
(***************************************************************************)
(* A session looks for work in six small repositories: a tree of roadmaps  *)
(* with a circle in it, issues that wait for others, issues that need an   *)
(* approval, issues that a triage rejects, a duplicate that is closed, and *)
(* issues outside every roadmap.                                           *)
(***************************************************************************)
EXTENDS IssueIntake

MCNumbers == 1..6
MCIssues == 1..5
MCLegacyRoots == {6}
MCPolicy == [skip |-> FALSE, actors |-> "owners-and-maintainers-only", freshness |-> "event-freshness"]
MCPermissions == [owner |-> "admin", writer |-> "write", outsider |-> "read", nobody |-> "unknown"]
MCTrusted == {"me", "owner"}

FitSignals == {"checklist", "verification channel", "objective verification"}
Says(keyword, refs) == [keyword |-> keyword, refs |-> refs, more |-> <<>>, place |-> "line", aside |-> FALSE]

Plain(n) ==
  [access |-> "ok", isPullRequest |-> FALSE, open |-> TRUE, labels |-> {}, body |-> <<>>,
   subIssues |-> <<>>, title |-> <<ToString(n), "as filed">>, number |-> n, version |-> 0, created |-> 0,
   author |-> "owner", association |-> "none", files |-> {}, signals |-> FitSignals,
   score |-> 0, effort |-> 1]

Roadmap(n, body) == [Plain(n) EXCEPT !.labels = {"roadmap"}, !.body = body]
Gone(n) == [Plain(n) EXCEPT !.access = "missing"]
Done(n) == [Plain(n) EXCEPT !.open = FALSE]

\* A move at the time of the last one; or then or a second later.
AtOnce(move) == [after |-> {0}] @@ move
Soon(move) == [after |-> {0, 1}] @@ move
Later(move) == [after |-> {1}] @@ move

NoHistory == [n \in MCIssues |-> [renamed |-> {}, ready |-> <<>>, edited |-> {}, editors |-> {}]]

Scene(all, may, failures) ==
  /\ issues = [n \in MCIssues |-> IF n \in DOMAIN all THEN all[n] ELSE Gone(n)]
  /\ comments = [n \in MCIssues |-> <<>>]
  /\ history = NoHistory
  /\ prs = {}
  /\ clock = 1
  /\ moves = may
  /\ failing = failures

\* Two roadmaps, one below the other and referring back to it.
TreeRoot == <<Says("task", <<2>>), Says("task", <<4>>)>>

Tree ==
  Scene((1 :> Roadmap(1, TreeRoot)) @@
        (2 :> [Plain(2) EXCEPT !.body = <<Says("Refs", <<1>>)>>]) @@
        (3 :> [Plain(3) EXCEPT !.body = <<Says("Refs", <<1>>), Says("Blocked by", <<2>>)>>, !.score = 4]) @@
        (4 :> [Roadmap(4, <<Says("Depends on", <<1>>)>>) EXCEPT !.subIssues = <<3, 2, 5>>]) @@
        (5 :> Plain(5)),
        {AtOnce([do |-> "close", n |-> 2]), AtOnce([do |-> "close", n |-> 4]),
         AtOnce([do |-> "edit", n |-> 1, who |-> "owner", text |-> [body |-> <<Says("task", <<2>>)>>]])},
        0)

\* Issue 2 depends on a roadmap and on an issue, 3 is deferred from 4, 5 waits for a roadmap.
Waiting ==
  Scene((1 :> [Roadmap(1, <<Says("task", <<2>>), Says("task", <<3>>)>>) EXCEPT
                 !.body = Append(@, Says("roadmap-id", <<"alpha">>))]) @@
        (2 :> [Plain(2) EXCEPT !.body = <<Says("Depends on", <<1, 4>>)>>]) @@
        (3 :> [Plain(3) EXCEPT !.body = <<Says("defer-source", <<0>>), Says("Refs", <<4>>)>>]) @@
        (4 :> Plain(4)) @@
        (5 :> Plain(5)),
        {AtOnce([do |-> "close", n |-> 4]), AtOnce([do |-> "reopen", n |-> 4]),
         AtOnce([do |-> "edit", n |-> 2, who |-> "owner",
                 text |-> [body |-> <<Says("Blocked by", <<5>>), Says("Depends on", <<1>>)>>]]),
         AtOnce([do |-> "edit", n |-> 3, who |-> "owner", text |-> [body |-> <<Says("blocked-by", <<"alpha">>)>>]]),
         AtOnce([do |-> "close", n |-> 5])},
        0)

\* A stranger's issue.
Approval ==
  Scene((1 :> Roadmap(1, <<Says("task", <<2>>)>>)) @@
        (2 :> [Plain(2) EXCEPT !.author = "outsider"]),
        {Soon([do |-> "ready", n |-> 2, who |-> "owner"]),
         AtOnce([do |-> "ready", n |-> 2, who |-> "writer"]),
         Later([do |-> "label", n |-> 2, label |-> ReadyLabel]),
         Soon([do |-> "edit", n |-> 2, who |-> "outsider", text |-> [effort |-> 2]]),
         AtOnce([do |-> "plan", n |-> 2, who |-> "outsider"])},
        1)

\* Issues that the triage rejects until their text is better.
Triaged ==
  Scene((1 :> Roadmap(1, <<Says("task", <<2>>), Says("task", <<3>>)>>)) @@
        (2 :> [Plain(2) EXCEPT !.signals = @ \ {"checklist"}, !.score = 5]) @@
        (3 :> [Plain(3) EXCEPT !.signals = @ \union {"too short"}]),
        {Later([do |-> "edit", n |-> 2, who |-> "owner", text |-> [signals |-> FitSignals]]),
         Later([do |-> "edit", n |-> 3, who |-> "owner", text |-> [title |-> <<"3", "better">>]]),
         Soon([do |-> "reject", n |-> 2, outcome |-> NeedsDecision]),
         Later([do |-> "reject", n |-> 3, outcome |-> "unclear"])},
        1)

\* Work that was done already, perhaps while the session looks.
Duplicate ==
  Scene((1 :> Roadmap(1, <<Says("task", <<2>>), Says("task", <<3>>)>>)) @@
        (2 :> [Plain(2) EXCEPT !.files = {"a", "b"}, !.score = 5]) @@
        (3 :> [Plain(3) EXCEPT !.title = <<"2", "nearly">>]),
        {AtOnce([do |-> "merge", pr |-> [merged |-> TRUE, at |-> 0, branch |-> <<9, <<"9", "">>>>, fork |-> FALSE,
                                         closes |-> {}, mentions |-> {2}, files |-> {"a"}]]),
         AtOnce([do |-> "claim", n |-> 2]), [do |-> "wait", after |-> {StaleAge}],
         AtOnce([do |-> "close", n |-> 3])},
        1)

\* No roadmap at all.
Orphans ==
  Scene((2 :> [Plain(2) EXCEPT !.body = <<Says("Blocked by", <<4>>)>>]) @@
        (3 :> [Plain(3) EXCEPT !.signals = @ \union {"runtime observation", "verification command",
                                                     "candidate files exist"}]) @@
        (4 :> Done(4)),
        {AtOnce([do |-> "reopen", n |-> 4]),
         Later([do |-> "edit", n |-> 3, who |-> "outsider", text |-> [effort |-> 3]]),
         AtOnce([do |-> "claim", n |-> 2]),
         AtOnce([do |-> "label", n |-> 3, label |-> Authoring])},
        1)

MCInit ==
  /\ Tree \/ Waiting \/ Approval \/ Triaged \/ Duplicate \/ Orphans
  /\ Init

MCSpec == MCInit /\ [][Next]_vars /\ Fairness
=============================================================================
