-------------------------------- MODULE Plans --------------------------------
(***************************************************************************)
(* The plans of gcli's subcommands: the requests, look-ups and questions   *)
(* each of them consists of, forge by forge, in the order of the code.     *)
(* Requests.tla says what the steps mean.  A command is a record of the    *)
(* forge, the operation, the option -y and two numbers: `add' counts what  *)
(* is given to the operation (labels to add, assets, ...), `del' the labels*)
(* to remove.                                                              *)
(***************************************************************************)
EXTENDS Integers, Sequences
LOCAL INSTANCE SequencesExt

CONSTANT MaxAssets    \* GCLI_RELEASE_MAX_ASSETS, scaled down

Forges == {"github", "gitlab", "gitea", "bugzilla"}

\* The steps; their last part is what the code does when they fail.
Take(kind, what, else) == [do |-> kind, what |-> what, else |-> else]
Reads == Take("read", <<>>, {"stop"})
Needs == Take("need", <<>>, {"stop"})
Refuses(how) == Take("refuse", <<>>, {how})
Parses(else) == Take("parse", <<>>, else)
Writes(what) == Take("write", what, {"stop"})
Changes(what, else) == Take("local", <<what>>, else)

AskYes == Take("ask", <<>>, {"exit"})
AskUnlessYes(c) == IF c.yes THEN <<>> ELSE <<AskYes>>

\* The one change of an operation that makes one has the operation's name.
Change(c) == <<<<c.op, 0>>>>
Once(c) == <<Writes(Change(c))>>

Numbered(name, n) == [i \in 1..n |-> <<name, i>>]
Labels(c) == Numbered("label", c.add)
Unlabels(c) == Numbered("unlabel", c.del)

\* A forge that has no function for an operation refuses it.
Dispatch(c, github, gitlab, gitea) ==
  CASE c.forge = "github" -> github
    [] c.forge = "gitlab" -> gitlab
    [] c.forge = "gitea" -> gitea
    [] OTHER -> <<Refuses("stop")>>

\* Memory is freed that must not be: what happens is up to the allocator.
Undefined == {"crash", "ignore"}

\* Options and words that have to make sense; a repository that is named or
\* found; who does not find it says so and ends gcli.
Demands == Take("need", <<>>, {"exit"})

\* What is fetched goes to the terminal: all of it, or gcli ends before.
Shown(i) == <<"shown", i>>
Shows == Changes(Shown(0), {"exit"})

-----------------------------------------------------------------------------
\* Issues.

GithubSubmitIssue(c) == Once(c)

GitlabSubmitIssue(c) == Once(c)

\* Bugzilla takes the token in the request.
BugzillaSubmitBug(c) == <<Needs>> \o Once(c)

SubmitIssue(c) ==
  IF c.forge = "bugzilla"
  THEN BugzillaSubmitBug(c)
  ELSE Dispatch(c, GithubSubmitIssue(c), GitlabSubmitIssue(c),
                GithubSubmitIssue(c))

\* The message may be left empty; it is freed twice in the end.
EditAndSubmitIssue(c, ask) ==
  <<Take("edit", <<>>, {"ignore"})>> \o ask \o SubmitIssue(c)
    \o <<Take("free", <<>>, Undefined)>>

CreateIssue(c) == <<Demands>> \o EditAndSubmitIssue(c, AskUnlessYes(c))

\* Without a title on the command line gcli prompts for what is missing, and
\* always asks.
CreateIssueInteractively(c) ==
  <<Take("prompt", <<>>, {})>> \o EditAndSubmitIssue(c, <<AskYes>>)

\* State, title, milestone: one request each.
GithubPatchIssue(c) == Once(c)
GitlabPatchIssue(c) == Once(c)
GiteaPatchIssue(c) == Once(c)

PatchIssue(c) ==
  Dispatch(c, GithubPatchIssue(c), GitlabPatchIssue(c), GiteaPatchIssue(c))

\* GitLab wants the id of the user.
GitlabAssign(c) == <<Reads, Needs>> \o Once(c)

AssignIssue(c) == Dispatch(c, Once(c), GitlabAssign(c), Once(c))

GithubAddLabels(c) == <<Writes(Labels(c))>>

GithubRemoveLabels(c) ==
  IF c.del = 1 THEN <<Writes(Unlabels(c))>> ELSE <<Refuses("stop")>>

GitlabUpdateLabels(what) == <<Writes(what)>>

\* Gitea wants the ids of labels: a failed listing is a listing without them.
LabelIds(n) == <<Take("read", <<>>, {"ignore"})>> \o [i \in 1..n |-> Needs]

GiteaAddLabels(c) == LabelIds(c.add) \o <<Writes(Labels(c))>>

GiteaRemoveLabels(c) ==
  LabelIds(c.del) \o [i \in 1..c.del |-> Writes(<<<<"unlabel", i>>>>)]

AddLabels(c) ==
  Dispatch(c, GithubAddLabels(c), GitlabUpdateLabels(Labels(c)),
           GiteaAddLabels(c))

RemoveLabels(c) ==
  Dispatch(c, GithubRemoveLabels(c), GitlabUpdateLabels(Unlabels(c)),
           GiteaRemoveLabels(c))

\* The labels action of issues and pull requests.
LabelsAction(c) ==
  (IF c.add > 0 THEN AddLabels(c) ELSE <<>>)
    \o (IF c.del > 0 THEN RemoveLabels(c) ELSE <<>>)

-----------------------------------------------------------------------------
\* Titles, milestones and the way to a new pull request; what becomes of one
\* is in PullRequests.tla.  `add' counts its reviewers.

Pull == <<"pull", 0>>
Reviewers(c) == Numbered("reviewer", c.add)

\* All reviewers are one more request, to the number the answer should have.
GithubSubmitPull(c) ==
  <<Writes(<<Pull>>)>>
    \o (IF c.add = 0 THEN <<>>
        ELSE <<Parses({"stop"}), Writes(Reviewers(c))>>)

\* The ids of the project and of every reviewer are looked up first.
GitlabSubmitPull(c) ==
  <<Needs, Reads>> \o FlattenSeq([i \in 1..c.add |-> <<Reads, Needs>>])
    \o <<Writes(<<Pull>> \o Reviewers(c))>>

SubmitPull(c) ==
  Dispatch(c, GithubSubmitPull(c), GitlabSubmitPull(c), GithubSubmitPull(c))

EditAndSubmitPull(c, place, ask) ==
  <<Take("edit", <<>>, {"ignore"})>> \o place \o ask \o SubmitPull(c)

\* Head, base, repository and title.  On Bugzilla the repository has become a
\* product, and what prints the place of the pull request asserts that it has
\* not.
CreatePull(c) ==
  <<Demands>>
    \o EditAndSubmitPull(c,
         IF c.forge = "bugzilla" THEN <<Take("refuse", <<>>, Undefined)>>
         ELSE <<>>,
         AskUnlessYes(c))

CreatePullInteractively(c) ==
  <<Take("prompt", <<>>, {})>> \o EditAndSubmitPull(c, <<>>, <<AskYes>>)

GithubPatchPull(c) == Once(c)
GitlabPatchPull(c) == Once(c)
GiteaPatchPull(c) == Once(c)

PatchPull(c) ==
  Dispatch(c, GithubPatchPull(c), GitlabPatchPull(c), GiteaPatchPull(c))

-----------------------------------------------------------------------------
\* Comments.  `add' = 1 is a reply, which quotes the other comment.

GithubSubmitComment(c) == Once(c)
GitlabSubmitComment(c) == Once(c)

CommentSubmit(c) ==
  <<Take("edit", <<>>, {"exit"})>> \o AskUnlessYes(c)
    \o Dispatch(c, GithubSubmitComment(c), GitlabSubmitComment(c),
                GithubSubmitComment(c))

Comment(c) ==
  (IF c.add = 1 THEN <<Take("read", <<>>, {"exit"})>> ELSE <<>>)
    \o CommentSubmit(c)

-----------------------------------------------------------------------------
\* Labels, milestones and due dates of a repository.

\* The answer is not needed, but gcli frees the label it should have filled
\* in: when it was cut short these are still the words of the command line.
GithubCreateLabel(c) == Once(c) \o <<Parses(Undefined)>>
GitlabCreateLabel(c) == Once(c) \o <<Parses(Undefined)>>

CreateLabel(c) ==
  Dispatch(c, GithubCreateLabel(c), GitlabCreateLabel(c),
           GithubCreateLabel(c))

\* The address ends in /lables/, which GitHub does not have.
GithubDeleteLabel == <<Refuses("stop")>>
GitlabDeleteLabel(c) == Once(c)
GiteaDeleteLabel(c) == <<Reads, Needs>> \o Once(c)

DeleteLabel(c) ==
  Dispatch(c, GithubDeleteLabel, GitlabDeleteLabel(c), GiteaDeleteLabel(c))

GithubMilestone(c) == Once(c)
GitlabMilestone(c) == Once(c)

\* Creating and deleting, neither of which asks.
Milestone(c) ==
  Dispatch(c, GithubMilestone(c), GitlabMilestone(c), GithubMilestone(c))

\* The date has to be one.
GithubSetDuedate(c) == <<Needs>> \o Once(c)
GitlabSetDuedate(c) == <<Needs>> \o Once(c)

SetDuedate(c) ==
  Dispatch(c, GithubSetDuedate(c), GitlabSetDuedate(c), GithubSetDuedate(c))

-----------------------------------------------------------------------------
\* Releases.  `add' counts the assets.

Release == <<"release", 0>>

\* An empty file is no asset.  Whoever cannot read the answer of the first
\* request has no address to upload to: a missing one is dereferenced.
GithubUpload(i) == <<Needs, Writes(<<<<"asset", i>>>>)>>

GithubCreateRelease(c) ==
  <<Writes(<<Release>>), Parses(Undefined), Needs>>
    \o FlattenSeq([i \in 1..c.add |-> GithubUpload(i)])

\* Assets are ignored with a warning.
GitlabCreateRelease(c) == <<Writes(<<Release>>)>>

GiteaCreateRelease(c) ==
  <<Writes(<<Release>>), Parses({"ignore"})>>
    \o [i \in 1..c.add |-> Writes(<<<<"asset", i>>>>)]

PushAssets(c) == IF c.add > MaxAssets THEN <<Refuses("exit")>> ELSE <<>>

CreateRelease(c) ==
  PushAssets(c) \o <<Take("edit", <<>>, {"exit"})>> \o AskUnlessYes(c)
    \o Dispatch(c, GithubCreateRelease(c), GitlabCreateRelease(c),
                GiteaCreateRelease(c))

GithubDeleteRelease(c) == Once(c)
GitlabDeleteRelease(c) == Once(c)

DeleteRelease(c) ==
  AskUnlessYes(c)
    \o Dispatch(c, GithubDeleteRelease(c), GitlabDeleteRelease(c),
                GithubDeleteRelease(c))

-----------------------------------------------------------------------------
\* Repositories and forks.

\* The answer is printed, however much of it there is.
GithubCreateRepo(c) == Once(c) \o <<Parses({"ignore"})>>
GitlabCreateRepo(c) == Once(c) \o <<Parses({"ignore"})>>

CreateRepo(c) ==
  Dispatch(c, GithubCreateRepo(c), GitlabCreateRepo(c), GithubCreateRepo(c))

GithubDeleteRepo(c) == Once(c)
GitlabDeleteRepo(c) == Once(c)

\* Of a repository or, with the forks subcommand, of a fork.
DeleteRepo(c) ==
  AskUnlessYes(c)
    \o Dispatch(c, GithubDeleteRepo(c), GitlabDeleteRepo(c),
                GithubDeleteRepo(c))

\* `add' = 0 is a word that is no level: the 1 it is parsed to is "private".
ParseVisibility(c) == IF c.add = 0 THEN <<"private", 0>> ELSE <<c.op, 0>>

SetVisibility(c) ==
  LET request == <<Writes(<<ParseVisibility(c)>>)>>
  IN  Dispatch(c, request, request, request)

\* `add' = 1 names an organisation.  A look-up that fails says it is one.
GithubForkCreate(c) ==
  (IF c.add = 1 THEN <<Take("read", <<>>, {"ignore"})>> ELSE <<>>)
    \o <<Writes(<<<<"fork", 0>>>>)>>

GitlabForkCreate == <<Writes(<<<<"fork", 0>>>>)>>

\* `del' = 1: there is a remote origin, which becomes upstream.  Without git
\* the child that should become it returns as if it had been.
AddForkRemote(c) ==
  (IF c.del = 1
   THEN <<Changes(<<"origin renamed", 0>>, {"exit"})>> ELSE <<>>)
    \o <<Changes(<<"origin added", 0>>, {"exit", "ignore"})>>

\* The fork is made without asking; a no leaves the remotes as they are.
CreateFork(c) ==
  Dispatch(c, GithubForkCreate(c), GitlabForkCreate, GithubForkCreate(c))
    \o (IF c.yes THEN <<>> ELSE <<Take("ask", <<>>, {"leave"})>>)
    \o (IF c.add = 1 THEN <<>> ELSE <<Take("need", <<>>, {"exit"})>>)
    \o AddForkRemote(c)

-----------------------------------------------------------------------------
\* Gists, snippets, keys, notifications, jobs.

OnlyOn(c, forge, plan) ==
  IF c.forge = forge THEN plan ELSE <<Refuses("exit")>>

\* The file, or standard input, has to be readable.
CreateGist(c) == <<Needs>> \o Once(c)

\* The result of the request is not looked at.
DeleteGist(c) ==
  AskUnlessYes(c) \o <<Take("write", Change(c), {"ignore"})>>

DeleteSnippet(c) == Once(c)

AddKey(c) == <<Needs>> \o Dispatch(c, Once(c), Once(c), Once(c))
DeleteKey(c) == Dispatch(c, Once(c), Once(c), Once(c))

MarkAsRead(c) == Dispatch(c, Once(c), Once(c), Once(c))

CancelJob(c) == Once(c)
RetryJob(c) == Once(c)

\* The file is opened for writing before the download.
DownloadArtifacts ==
  <<Changes(<<"emptied", 0>>, {"stop"}), Reads,
    Changes(<<"artifacts", 0>>, {"ignore"})>>

-----------------------------------------------------------------------------
\* What is only shown.  The pages of a listing are those of FetchList.tla.

ListOf(get) == <<Demands>> \o get \o <<Shows>>

ListIssues == ListOf(<<Reads>>)
ListPulls(c) == ListOf(Dispatch(c, <<Reads>>, <<Reads>>, <<Reads>>))
ListLabels(c) == ListOf(Dispatch(c, <<Reads>>, <<Reads>>, <<Reads>>))
ListMilestones(c) == ListOf(Dispatch(c, <<Reads>>, <<Reads>>, <<Reads>>))
ListReleases(c) == ListOf(Dispatch(c, <<Reads>>, <<Reads>>, <<Reads>>))
ListForks(c) == ListOf(Dispatch(c, <<Reads>>, <<Reads>>, <<Reads>>))
ListRepos(c) == ListOf(Dispatch(c, <<Reads>>, <<Reads>>, <<Reads>>))
ListKeys(c) == Dispatch(c, <<Reads>>, <<Reads>>, <<Reads>>) \o <<Shows>>

\* The forge is looked at before the options.
ListGists(c) == OnlyOn(c, "github", ListOf(<<Reads>>))
ListSnippets == ListOf(<<Reads>>)

\* Nobody looks at what the listing returned.
ListNotifications(c) ==
  <<Demands, Take(IF c.forge = "bugzilla" THEN "refuse" ELSE "read", <<>>,
                  {"leave"}), Changes(Shown(0), {})>>

\* One more loop over pages; `add' = 1 is a second one.  Its address is freed
\* behind it, and used once more if it failed or had no Link header.
FetchChecks(c) ==
  LET freed == {"crash", "stop"}
  IN  <<Reads>>
        \o (IF c.add = 0 THEN <<>>
            ELSE <<Take("read", <<>>, freed), Take("parse", <<>>, freed)>>)

ListChecks(c) ==
  <<Demands>> \o OnlyOn(c, "github", FetchChecks(c) \o <<Shows>>)

\* A gist of which not all was understood may lack the file, and a file may be
\* too big for the terminal.
GetGist(c) ==
  OnlyOn(c, "github", <<Demands, Reads, Demands, Demands, Reads, Shows>>)

GetSnippet == ListOf(<<Reads>>)

\* The text is decoded after all of it has arrived.  `add' = 1 names a file,
\* which is opened for writing first.
GetAttachment(c) ==
  <<Demands>>
    \o (IF c.add = 1 THEN <<Changes(<<"emptied", 0>>, {"exit"})>> ELSE <<>>)
    \o (IF c.forge = "bugzilla" THEN <<Reads, Needs>> ELSE <<Refuses("stop")>>)
    \o <<Shows>>

\* `add' counts the pages behind the first.  Behind the last of them, without
\* a Link header, a freed address is fetched once more.
FetchAll(c) ==
  FlattenSeq([i \in 1..c.add + 1 |-> <<Reads, Changes(Shown(i - 1), {})>>])
    \o (IF c.add = 0 THEN <<>>
        ELSE <<Take("parse", <<>>, {"crash", "exit"})>>)

Api(c) == <<Demands>> \o FetchAll(c)

-----------------------------------------------------------------------------
\* The command lines.

Command(ops, forges, adds, dels, yes) ==
  [op : ops, forge : forges, add : adds, del : dels, yes : yes]

Labelling == {"label issue", "label pull"}
CreatesPull == {"create pull", "create pull interactively"}

CommandLines ==
  Command({"create issue"}, Forges, {0}, {0}, BOOLEAN)
  \cup Command({"create issue interactively"}, Forges, {0}, {0}, {FALSE})
  \cup Command({"create pull"}, Forges, 0..2, {0}, BOOLEAN)
  \cup Command({"create pull interactively"}, Forges, 0..2, {0}, {FALSE})
  \cup Command({"list issues", "list pulls", "list labels",
                "list milestones", "list releases", "list forks",
                "list repositories", "list keys", "list gists",
                "list notifications", "get gist"}, Forges, {0}, {0}, {TRUE})
  \cup Command({"list checks"}, Forges, 0..1, {0}, {TRUE})
  \cup Command({"list snippets", "get snippet"}, {"gitlab"}, {0}, {0}, {TRUE})
  \cup Command({"get attachment"}, Forges, 0..1, {0}, {TRUE})
  \cup Command({"api"}, Forges, 0..2, {0}, {TRUE})
  \cup Command({"close issue", "reopen issue", "title issue",
                "milestone issue", "assign issue", "title pull",
                "milestone pull", "create label", "delete label",
                "create milestone", "delete milestone", "set duedate",
                "create repository", "add key", "delete key",
                "mark as read"}, Forges, {0}, {0}, {TRUE})
  \cup {c \in Command(Labelling, Forges, 0..2, 0..2, {TRUE}) :
          c.add + c.del > 0}
  \cup Command({"comment"}, Forges, 0..1, {0}, BOOLEAN)
  \cup Command({"create release"}, Forges, 0..MaxAssets + 1, {0}, BOOLEAN)
  \cup Command({"delete release", "delete repository", "delete fork"},
               Forges, {0}, {0}, BOOLEAN)
  \cup Command({"set visibility"}, Forges, 0..1, {0}, {TRUE})
  \cup Command({"create fork"}, Forges, 0..1, 0..1, BOOLEAN)
  \cup Command({"create gist"}, Forges, {0}, {0}, {TRUE})
  \cup Command({"delete gist"}, Forges, {0}, {0}, BOOLEAN)
  \cup Command({"delete snippet", "cancel job", "retry job",
                "download artifacts"}, {"gitlab"}, {0}, {0}, {TRUE})

PlanOf(c) ==
  CASE c.op = "create issue" -> CreateIssue(c)
    [] c.op = "create pull" -> CreatePull(c)
    [] c.op = "create pull interactively" -> CreatePullInteractively(c)
    [] c.op = "list issues" -> ListIssues
    [] c.op = "list pulls" -> ListPulls(c)
    [] c.op = "list labels" -> ListLabels(c)
    [] c.op = "list milestones" -> ListMilestones(c)
    [] c.op = "list releases" -> ListReleases(c)
    [] c.op = "list forks" -> ListForks(c)
    [] c.op = "list repositories" -> ListRepos(c)
    [] c.op = "list keys" -> ListKeys(c)
    [] c.op = "list gists" -> ListGists(c)
    [] c.op = "list snippets" -> ListSnippets
    [] c.op = "list notifications" -> ListNotifications(c)
    [] c.op = "list checks" -> ListChecks(c)
    [] c.op = "get gist" -> GetGist(c)
    [] c.op = "get snippet" -> GetSnippet
    [] c.op = "get attachment" -> GetAttachment(c)
    [] c.op = "api" -> Api(c)
    [] c.op = "create issue interactively" -> CreateIssueInteractively(c)
    [] c.op \in {"close issue", "reopen issue", "title issue",
                 "milestone issue"} -> PatchIssue(c)
    [] c.op = "assign issue" -> AssignIssue(c)
    [] c.op \in Labelling -> LabelsAction(c)
    [] c.op \in {"title pull", "milestone pull"} -> PatchPull(c)
    [] c.op = "comment" -> Comment(c)
    [] c.op = "create label" -> CreateLabel(c)
    [] c.op = "delete label" -> DeleteLabel(c)
    [] c.op \in {"create milestone", "delete milestone"} -> Milestone(c)
    [] c.op = "set duedate" -> SetDuedate(c)
    [] c.op = "create release" -> CreateRelease(c)
    [] c.op = "delete release" -> DeleteRelease(c)
    [] c.op = "create repository" -> CreateRepo(c)
    [] c.op \in {"delete repository", "delete fork"} -> DeleteRepo(c)
    [] c.op = "set visibility" -> SetVisibility(c)
    [] c.op = "create fork" -> CreateFork(c)
    [] c.op = "create gist" -> OnlyOn(c, "github", CreateGist(c))
    [] c.op = "delete gist" -> OnlyOn(c, "github", DeleteGist(c))
    [] c.op = "delete snippet" -> DeleteSnippet(c)
    [] c.op = "add key" -> AddKey(c)
    [] c.op = "delete key" -> DeleteKey(c)
    [] c.op = "mark as read" -> MarkAsRead(c)
    [] c.op = "cancel job" -> CancelJob(c)
    [] c.op = "retry job" -> RetryJob(c)
    [] c.op = "download artifacts" -> DownloadArtifacts

\* The commands that change nothing on the forge.
Showing ==
  {"list issues", "list pulls", "list labels", "list milestones",
   "list releases", "list forks", "list repositories", "list keys",
   "list gists", "list snippets", "list notifications", "list checks",
   "get gist", "get snippet", "get attachment", "api"}

-----------------------------------------------------------------------------
\* What the manual pages promise of a command, the same on every forge: the
\* level is "private" or "public", and there is no other.

IsMisread(c) == c.op = "set visibility" /\ c.add = 0

PromiseOf(c) ==
  CASE c.op \in Labelling -> Labels(c) \o Unlabels(c)
    [] IsMisread(c) -> <<>>
    [] c.op = "create release" ->
         <<Release>> \o Numbered("asset", c.add)
    [] c.op = "create fork" ->
         <<<<"fork", 0>>>>
           \o (IF c.del = 1 THEN <<<<"origin renamed", 0>>>> ELSE <<>>)
           \o <<<<"origin added", 0>>>>
    [] c.op = "download artifacts" ->
         <<<<"emptied", 0>>, <<"artifacts", 0>>>>
    [] c.op \in CreatesPull -> <<Pull>> \o Reviewers(c)
    [] c.op = "get attachment" /\ c.add = 1 ->
         <<<<"emptied", 0>>, Shown(0)>>
    [] c.op = "api" -> [i \in 1..c.add + 1 |-> Shown(i - 1)]
    [] c.op \in Showing -> <<Shown(0)>>
    [] OTHER -> Change(c)

\* All of it, except for the remotes of a fork, which the user may decline,
\* and for assets on GitLab, of which gcli warns.
RequiredOf(c) ==
  IF c.op = "create fork" \/ (c.op = "create release" /\ c.forge = "gitlab")
  THEN 1 ELSE Len(PromiseOf(c))

\* The commands whose manual pages have the option -y, when it is not given.
IsAsking(c) ==
  /\ ~c.yes
  /\ c.op \in {"create issue", "create issue interactively", "comment",
               "create pull", "create pull interactively",
               "create release", "delete release", "delete repository",
               "delete fork", "delete gist"}

\* The commands that report success whatever the forge answers, or however
\* much of the file could be written.
IsCareless(c) ==
  c.op \in {"delete gist", "download artifacts", "list notifications"}

\* The commands made of several changes, which nothing takes back.
IsCompound(c) ==
  \/ c.op \in Labelling \cup {"create release", "create fork",
                              "download artifacts"}
  \/ c.op \in CreatesPull /\ c.add > 0 /\ c.forge # "gitlab"
  \/ c.op \in {"api", "get attachment"} /\ c.add > 0

=============================================================================
