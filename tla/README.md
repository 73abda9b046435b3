# A TLA+ model of gcli

gcli is a command line client for GitHub, GitLab, Gitea and Bugzilla. This
directory holds TLA+ modules of the parts of it whose correctness depends on
the order of several steps, the configurations that check them with TLC, and
proofs for TLAPS. Paths are those of the repository (`src/curl.c`); in
`PROJECT.json`, which maps every definition to the lines it models, they have
the prefix `src/`.

gcli is a single-threaded program that runs one command and ends. What makes
it hard to test is not inside one process: a command is made of several
requests to a forge, each of which may be refused, or be carried out with its
answer lost; the forge, the author of a pull request and other runs of gcli
change the same objects in between; a review outlives the process in a file;
and buffers, ownership of strings, flags of hand-written scanners and the
argument vector are passed from hand to hand.

## The parts of gcli

| part | code | state it keeps | operations | what is hard |
|---|---|---|---|---|
| HTTP | `src/curl.c` | the curl handle, a response buffer, the address of the next page | fetch, fetch with method, fetch a list page by page, upload | who frees which address; errors on later pages; answers without a Link header |
| JSON generator | `src/json_gen.c` | scope stack, two flags, growing buffer | one function per token | commas over all depths, full stack, buffer boundary |
| JSON parsers | `src/pgen`, `templates`, `src/json_util.c` | the list parsed so far | one parser per object | half-parsed answers whose error is ignored |
| pull requests | `src/pulls.c`, `src/github/pulls.c`, `src/gitlab/merge_requests.c`, `src/gitea/pulls.c` | none; the forge has it | create, merge, close, reopen, request review, titles, labels, milestones | several requests per operation, read-modify-write, polling |
| review tool | `src/cmd/pull_reviews.c`, `src/cmd/editor.c` | the review file in `~/.cache` | start, resume, start over, postpone, submit | file survives the process; new versions are pushed; partial submission |
| patches | `src/diffutil.c` | cursor in the text, the patches, diffs and hunks so far | parse a patch or a series, line by line | headers it does not know; where a hunk, a diff or a patch ends |
| notes in diffs | `src/diffutil.c` | cursor, rows, range start, three flags | read comments | flags that outlive a line, a note or a hunk |
| action lines | `src/cmd/actions.c`, handlers in `src/cmd/pulls.c`, `issues.c`, `milestones.c`, `pipelines.c` | argument vector, options, fetched item, exit status | one handler per action | handlers consume the line themselves |
| configuration | `src/cmd/cmdconfig.c`, `src/cmd/gitconfig.c` | options, sections, `.gcli`, remotes | find account, forge, repository | precedence; reading twice; answers that are kept |
| subcommands | `src/cmd/gcli.c` | the table of subcommands | look-up by prefix, aliases | sortedness while aliases are added |
| prompts and pager | `src/cmd/interactive.c` | pipe ends in three processes | prompt, page | end of file, an open pipe end, two readers of one terminal |
| notifications | `src/cmd/status*.c`, `src/status.c` | the list on the screen | list, act, mark as read | items that change meanwhile |
| issues, comments, labels, milestones, releases, gists, pipelines, repositories, forks, keys, Bugzilla | `src/*.c`, `src/github`, `src/gitlab`, `src/gitea`, `src/bugzilla` | none | listings, downloads and requests | partial failure of the many that need several requests |
| output, colours, tables, dates, base64 | `src/cmd/table.c`, ... | none | pure functions | encodings |

Everything calls `gcli_fetch_list` or `gcli_fetch_with_method`; request bodies
come from the JSON generator; the pulls subcommand runs action lines, whose
handlers call the pull request operations; the action `review` runs the review
tool, which uses the diff parser, the scanner and one operation of the forge.
Every subcommand asks the configuration for the forge, the account and the
repository before it does any of this.

## Modules

| module | models | checked by |
|---|---|---|
| `PagedListing` | what a caller of `gcli_fetch_list` is promised (abstract) | implemented by `FetchList` |
| `FetchList` | `gcli_fetch_list`, `gcli_fetch_with_method`, `parse_link_header`, the generated array parsers, with the heap cells of the addresses | `fetch_list`, `fetch_list_null` |
| `ReviewSessionProofs`, `PullRequestsProofs`, `RequestsProofs`, `ActionsProofs` | proofs about the module of that name | tlapm |
| `WireProofs` | proofs about `FetchList` and `JsonGen`: what goes to the forge and what comes back | tlapm |
| `DiffCommentsProofs` | proofs about `PatchParser` and `DiffComments` | tlapm |
| `CommandProofs` | proofs about `Startup` and `Interactive` | tlapm |
| `Induction` | lemmas those proofs share: induction and recursion on natural numbers, flattening | tlapm |
| `ReviewSession` | the review tool, the review files, GitLab's and GitHub's submission of a review | `review_session` |
| `Actions` | options, action loop and actions of pulls, issues, milestones, pipelines and jobs, `parse_labels_options` | `actions`, `actions_keep_branch` |
| `PatchParser` | `gcli_parse_patch`, `gcli_parse_patch_series` | with `DiffComments` |
| `DiffComments` | the scanner for notes, on what `PatchParser` made of the text | `diff_comments` |
| `JsonGen` | the JSON generator | `json_gen` |
| `PullRequests` | creating, merging, closing, reopening a pull request and requesting a review, by several runs of gcli | `pull_requests`, `pull_requests_fork` |
| `Requests` | one run of a subcommand: a plan of steps against a user and a forge | `requests` |
| `Plans` | the plans: which steps each subcommand takes on each forge, and what the code does when one fails | with `Requests` |
| `Settings` | reading the config file, `.gcli` and the git remotes, as operators | with `Startup` |
| `Startup` | `main()` up to the subcommand, its look-up, and the questions a subcommand asks of the configuration | `startup` |
| `Interactive` | `gcli status`: prompts, the notification list, the printer and the pager | `interactive` |

`MC*.tla` give the constants their values. Definitions called `Mut...` are
deliberate mistakes, one for every property: each stands before the definition
it would replace, and the property must fail with it. They are not used by any
specification.

### FetchList

Page i of a listing has its address in heap cell i; `url` and `next_url` are
the C variables. One action each for a request that fails, one answered
without and one with a Link header, the three ways a body can be parsed (an
array, `null`, broken off), the release of buffer and address, the loop test
and the final `free`. `KeepNext` is the heart of it: `*pagination_next` is
written only if a Link header came with a successful answer, so that from the
second page on `next_url` may still hold the page's own address. Using a freed
cell is undefined in C; the model stops at "crashed". The generated parsers
append a zeroed item before they parse it: a page that breaks off leaves up to
one item more than it has (`ParseBroken`), and a filter that meets that item
may read a text it does not have, such as the author of a pull request
(`FilterBroken`, which ends the run with "segfault"). The history variables
`stale`, `taken` and `dropped` are read by properties only.

`OvershootsByLessThanAPage` gives a failed listing that one item more.
`MemorySafe` says that this dangling pointer is the only way to a double free,
a use after free or a leak; that it is one is the finding of `fetch_list_null`.
`ImplementsListing` is the refinement of `PagedListing` with the status
computed from the program counter and the return code.

### ReviewSession

A session is a program counter with the `details` record of the code; review
files are a function from file names, so that pull requests with the same name
share one. Any number of sessions follow each other. The author pushes at any
moment. The user writes notes and a body in the editor, removes the `GCLI:`
lines, or leaves a file the parser rejects. A request is answered, refused, or
carried out with its answer lost; gcli may be killed at any step. GitLab gets a
request per note, then the body, then the verdict; GitHub gets one request.
`posts` is what the forge has received from the current session.

An empty prelude is read past its end by `process_series_prelude`, which is
undefined: in the model the body may or may not hold text then, and a crash is
a `Kill`. `UnsetReturnCode` is the indeterminate `rc` of
`gitlab_mr_create_review`.

### Actions

The state is the C state of a subcommand and of `gcli_cmd_actions_handle`: the
argument vector, what the options set, the fetched item, the return code.
`OptionsOf` and `Table` hold the option strings and action tables of five
subcommands (`pipelines -j` works on a job). Each handler takes its own words
(`Take`), the loop takes one more (`Shift`). `Reading` is the reference: the
line as the manual pages explain it, with the options first. It is written by
positions, with two recursive functions: `IsOption` says which words are
options, `ReadFrom` which actions are read from a word on. `FollowsTheLine`
compares what was run with it, and the object it was run on with the options,
on all lines but those on which code and manual differ (`Exceptions`): lines
with `checkout`, which swallows a word, with two options after `merge`, and
`artifacts -o` without a file name. A list of milestones ignores words behind
its options (`IgnoresWords`).

A handler's words are those it uses; the one that `checkout` takes beyond its
own is gone from the line without being anybody's. `ZeroMeansAllRead` is
therefore false of `checkout close`, whose `close` is never run although the
exit status is 0: gcli-pulls(1) gives `checkout` no word. The property names
that (`SkipsWord`) and `IgnoresWords` as its exceptions. `LinesAssumption` says
of the lines only that they belong to one of the subcommands and that no word
is the value that stands for NULL.

### PatchParser and DiffComments

The text of an annotated file is printed from a source: patches with a prelude,
files with a head and hunks, and a trailer; `SourcesAssumption` says which
lines these are made of. A line is known by what its first characters tell the
code. `PatchParser` has an action for each prelude, header line, hunk and
trailer, and one for each way to give up; `DiffComments` then reads the hunks
of all files and patches into one list, one diff line, one brace or one whole
note per step. Ways to break off are states of their own: a parse error, a
failed assertion, a null pointer, a negative length.

`Meant` is the reference for texts that keep to gcli-pulls-review(1): the
comment of each note with its rows in the old and the new file and the lines it
refers to, written from the source and without the state of parser and scanner.
`WellFormed` says which texts those are, and thereby what is excepted: files
that are deleted, renamed, binary, or have a space in their name, for whose
heads the parser has no case; a diff without a hunk, which fails an assertion;
a hunk without a line, which git does not write;
and a removed line that reads `--` in the last hunk of a patch, which is taken
for the start of the trailer. (Git's own trailer, `-- ` with a space, is not
taken for one.)

### JsonGen

One action per function, including the refused and the aborting calls; the
buffer is a size, a capacity and the kinds of tokens written. A token has a
length and, if `vsnprintf` writes it, a NUL behind it; `Fit` doubles the
capacity until there is room, `Write` does what `fit` and `append_str` or
`append_strf` do together. `Json` is the reference: the token sequence of the
text the calls stand for. The code has 32
scopes and a first buffer of 32 characters; both are constants, because the code
treats every number alike.

### PullRequests

`Clients` are runs of gcli, each with one operation; `pc` says at which request
it is. The forge's side is the state of the pull request, its labels and
reviewers, the branches of that name in the target repository and in a fork,
and GitLab's background merge check, which finds that the merge request can be
merged or that there is a conflict, and is made again after a push to either
branch (`Push`). On GitLab labels and reviewers travel with
the creation and automerge waits for the merge check; on GitHub each is a
request of its own. GitLab's request for review reads the list of reviewers,
looks up the user and writes the whole list. `stale` notes that an out-of-date
list was written.

`did` has what the forge has confirmed, and the confirmation of automerge may
be worth nothing: GitLab is sent a PUT without a body
(`src/gitlab/merge_requests.c:450`), which asks for nothing, and GitHub's
GraphQL interface reports an error, as for a node_id that was never parsed, in
an answer of status 200 (`src/github/pulls.c:437`). `AutomergeIgnored` is such
an answer. gcli-pulls(1) promises automerge without restriction;
`SubmitIsComplete` holds with this as its exception (`Ignored`), which on
GitLab is every submission with automerge. `DeleteHeadBranchCrashes` is the
search for the branch's name in a head that the second answer did not have.

### Requests and Plans

Most subcommands are short programs of one shape: read a message, ask, look
something up, send a request, parse the answer, show it, return. What
differs is the order of these steps and what is done when one fails, and that
is where they go wrong. `Plans` writes each of them down, per forge, as a
sequence of such steps; `PlanOf` is the plan of a command line. `Requests` runs
one plan: an action per kind of step, in which the user may leave no message or
say no, a look-up may fail, a request may be refused or be carried out with its
answer lost. A step's policy (`else`) says what the code does then: return the
error to the subcommand (`Return`), end the program with either exit status,
go on, or run into undefined behaviour, of which the outcome is a choice
between a crash and going on. What a listing or a download is for, the text on
the terminal or the file, is one of the changes (`Shown`).

`PromiseOf` is the list of changes a command stands for, the same on all
forges. `done`, what was really changed, must be a prefix of it at any time
(`InOrder`), all of it after exit status 0 (`SuccessIsComplete`), and nothing
after a failure (`FailureChangesNothing`), unless the answer of the forge was
lost. Nothing is done before a yes where the manual has the option `-y`
(`AsksFirst`). Three lists name the exceptions the code makes:

- careless: deleting a gist and listing notifications, whose results are not
  looked at (`src/cmd/gists.c:338`, `src/cmd/status.c:145`), and downloading
  artifacts, where writes to the file are unchecked (`src/curl.c:279`), report
  success in any case;
- compound: labels, releases with assets, pull requests with reviewers on
  GitHub and Gitea, forks with their remotes, artifacts, all pages of a raw
  request and attachments to a file consist of several changes, and what was
  done before a failure stays;
- the remotes of a fork may be declined, and GitLab's releases take no assets,
  of which gcli warns; a success requires the rest only.

A visibility level that is misspelt is taken for "private", with a message but
exit status 0 (`src/cmd/repos.c:238`). gcli-repos(1) and the usage text allow
"private" and "public" only, so that the promise of such a command is nothing
at all (`IsMisread`). Both `InOrder` and `SuccessIsComplete` are false of it
and name it as an exception (`Misread`).

That the three properties of `done` hold is a matter of how the plans are
written. `OrderAssumption`, `SuccessAssumption` and `FailureAssumption` say
how: the changes of a plan are those of its promise, in order, and nothing
follows one that may be left out; until all required changes are made no step
ends the program with success or goes on without its own; and behind the change
of a simple command no step fails it. A step behind a refusal that always ends
the plan (`Reached`) need not keep to them. TLC evaluates them on each plan.

### Settings and Startup

An input is all that gcli is started with: environment, global options, the
word for the subcommand, the config file, the `.gcli` and `.git/config` files
of the directories above, and the owner, repository and id the subcommand got.
The steps are those of `main()`: the aliases are installed and looked up, the
table is sorted, options and environment are read, the subcommand is looked up,
the config file is read a second time and the subcommand called. Then it asks
questions of the configuration, any of them in any order; what an answer makes
the code keep (the forge, `.gcli`, the remotes, the terminal) is state that the
next answer reads.

The loops of the code - lines of a file, options, aliases - are recursive
functions of the number of lines, options or aliases done, and so is the
sorting of the table: an insertion, which keeps entries of one name in order.
qsort need not; but of entries of one name none is ever found, since each has
the other as a neighbour. `None` is NULL, and different from every value
(`NoneAssumption`). What an input is otherwise, `InputsAssumption` says: files,
options and directories are sequences, options that need an argument have one
(getopt), and so have the entries of a file (the parser).

`Meant` is the reference: the first place of gcli(1) and gcli(5) that has a
value, computed from the input alone. `AnswersFollowPrecedence` compares every
answer with it, but for the cases in which code and manual differ, each of which
has a name (`DiffersFromManual`):

- `MistakenFor`: "y" is a yes for NO_COLOR and GCLI_NOSPINNER in gcli(1), and
  none for `string_means_true`, which takes "true" instead;
- `KeepsSpinnerOff`: in gcli(5) GCLI_NOSPINNER overrides `disable-spinner`; a
  value that means no does not bring the spinner back;
- `ColoursOnTerminalOnly`: in gcli(1) `-c` and `--colours` are one option; the
  latter only undoes NO_COLOR and gives no colours without a terminal.

`RunsTheCommandMeant` compares the subcommand with the one name the word
abbreviates among all names, although the code compares with a neighbour in a
sorted table, and an alias with what its target names in full or else
abbreviates. Here the code goes wrong: the targets of aliases are looked up
before the table is sorted, and with `i=ci` and `zz=i` the first entry that `i`
abbreviates is `issues`, so that `zz` runs issues although the Changelog lets
aliases refer to aliases. `Misled` says which aliases this befalls: those whose
target is a name in full but not the first that the word fits, those whose
target abbreviates several, and aliases of such aliases. Where the manual is
silent, `Meant` follows the code: a `.gcli` in the root directory counts only
for a gcli started there; a remote of the name that is asked for may be
missing, and the forge is that of the first one. A URL that begins with
`ssh://` and has no `:` behind the host is left out of the inputs: the length
of the owner wraps around (`src/cmd/gitconfig.c:332`).

### Interactive

`gcli status` opens one notification after the other and reads its discussion
in a pager. gcli forks the printer and waits for it; the printer makes the
pipe, forks the pager, writes and waits. Each of the latter two has the set of
pipe ends it holds open, by descriptor; a write needs room and a reader, the
end of the text needs that no writer is left. Meanwhile notifications come and
go, and the input of the terminal may end.

`ShowsTheThread` relates the pager's text to the table the user chose from.
`OneReader` has an exception that the code makes: a printer that ends by
`err()` leaves the pager behind, and gcli prompts beside it. At the end of the
input a prompt asks again for ever (`AskAgain`).

## Runs

| run | instance | shows |
|---|---|---|
| `fetch_list` | up to 4 pages, up to 2 matching items per page, max in {-1, 1, 2, 3, 5} | memory safety up to the stale pointer, completeness, overshoot below one page and an item more on failure, termination, refinement |
| `fetch_list_null` | the same | violation: without a Link header the pointer is not set to NULL |
| `review_session` | 3 pull requests (two share a file), 3 forges, 2 notes, one push | order, completeness and anchoring of submissions, notes survive |
| `actions` | pulls: all lines of up to 3 of 12 words, longer ones of 7 and 4 words; issues, milestones, pipelines, jobs: up to 3 words (jobs 4); up to 3 of 13 options before up to 2 words | manual and code agree, status 0 only for a whole line (named exceptions), termination |
| `actions_keep_branch` | the same | violation: `merge -s -D` deletes the branch |
| `diff_comments` | hunks of up to 3 lines of all kinds, up to 4 of most and 5 of five kinds, pairs of hunks, all heads git writes and some it does not, preludes, trailers, two files, series of two patches, with and without a final newline | texts that keep to the manual are accepted and read as it says |
| `json_gen` | 3 scopes, 4 characters, lengths 1 and 3, up to 8 calls | well-formed output, no overrun |
| `pull_requests` | 3 runs of gcli, 2 users, both forges, source branch in fork or target, merge conflicts, pushes | completeness of a submission, ignored automerge excepted, branches, reviewers, termination without conflicts |
| `pull_requests_fork` | the same | violation: the wrong branch is deleted for a fork |
| `requests` | about 400 command lines of some 50 operations on 4 forges, up to 2 labels each way, 2 reviewers, 3 pages, 3 assets where 2 are allowed | order and completeness of changes (careless and misread commands excepted), nothing changed by a failure, confirmation first |
| `startup` | 23 words against 11 alias files; accounts, types, remotes, `.gcli` files and working copies in all combinations that contradict each other; display settings; two questions each | the subcommand meant unless its alias was misled, the documented precedence with four named exceptions, the repository on its forge |
| `interactive` | an issue, a pull request and a commit, two notifications at a time, discussions of 3, 1 and 0 lines, a pipe that holds 2 | the right discussion, one reader, back to the prompt |

Bounds. Four pages give a first, a middle, a page before the last and a last
one; max lies below, on and above the page boundaries. Two notes are enough
for an order and for a failure between them; three pull requests for a shared
and an own file; one push for a version that is newer than the file's (the code
compares versions nowhere, so more of them add nothing). Three words after an
action exceed every fixed number of arguments; the longer lines are for labels
and merge options, which repeat. A stack of three scopes and eight calls reach
a full stack inside another scope and come back. Three runs of gcli are one
that creates the pull request and two that interfere. Two labels are enough for
one to be changed and the next refused, two assets likewise; the limit of a
release (`GCLI_RELEASE_MAX_ASSETS`) is 2 in the model, that of remotes
(`MAX_REMOTES`) 3. Two questions to the configuration are enough for an answer
that was kept to meet another question (`MaxAsked`). A hunk of three lines has
room for a note, its brace and a line, five for two ranges in a row; the parser
keeps nothing across files but the list of diffs, so that two show what one
leaves to the next. A discussion of three lines fills a pipe of two.

`CHECK_DEADLOCK FALSE` stands where the program ends: a call returns, a line or
a diff is read to its end, every run of gcli is done, a generator has had its
last call, a plan has come to its end, a subcommand has returned, `gcli status`
was left. Review sessions go on for ever, and deadlock is checked there.

Fairness. `FetchList` and `Actions` have weak fairness of the whole next-state
relation: a sequential program goes on until it returns. gcli sets no timeout
for a transfer (`src/curl.c` has no CURLOPT_TIMEOUT), so that every request
ends is what is assumed of the network and the forge. In `PullRequests` every
client's own steps are weakly fair, as is GitLab's merge check; nothing makes a
poll fail, so `SubmitEnds` holds only because the check is made, and it
promises nothing for a pull request without commits, with a conflict, with
pushes that never stop, or for one that is closed, where the code polls for
ever (its FIXME says so for the first). In `Interactive` gcli, printer and
pager are each weakly fair, because the kernel runs every process, and a user
who has read to the end leaves the pager; nobody has to answer a prompt, and
nobody has to leave a pager early.

## What is proved

Eight modules hold proofs: seven about components, each theorem from the
assumptions on the constants of its component alone, and `Induction`. In all of
the former the shape is the same: an inductive invariant, a step per action
with one below it per conjunct the action can disturb, and the theorems from
the invariant.

`WireProofs` on `FetchList`, from `FetchAssumption` (at least one page, natural
page size, positive max or -1), for every number of pages:

- `TypeCorrect`: the type invariant;
- `MemorySafety`: no double free, use after free or leak unless `stale`;
- `Overshoot`: fewer than max plus a page of items, one more if the listing
  fails;
- `Completeness`: a listing that succeeds holds every item of its pages and
  stopped for a reason (`CompleteOrEnough`);
- `Refinement`: `FetchList` implements `PagedListing`.

That `free(url)` in the loop is right depends on which cells are live at each
program point. The invariant `IInv` has a conjunct per program point that says
so: during a request only the page's own cell is live, between request and
release also the next page's, between pages only the latter. `WantedInv` adds
that a later page is only requested while items are missing, which the
refinement needs to allow the step and `Overshoot` for its bound. `Refinement`
maps every action to a step of `PagedListing` or to a stutter under `IInv`.
`Completeness` needs `ItemsInv`: what was collected is the sum of the sizes of
the pages parsed so far, a recursive function of their number.

`ReviewSessionProofs`, from `ReviewAssumption` (some pull request, natural
bounds), for any pull requests, pushes, notes and sessions:

- `TypeCorrect`: the type invariant;
- `PickedUp`, `Anchored`, `NotesReach`: what becomes of the notes
  (`PickUpAgain`, `AnchoredAsWritten`, `NotesReachTheirPull`);
- `VerdictLast`, `WholeReview`: the order and the completeness of a submission
  (`VerdictAfterTheNotes`, `SuccessIsComplete`).

The invariant comes in three layers. `TypeInv` says how many requests have been
answered at each place of a submission. `NotesInv` says whose the notes are in
each review file, in a session and among the items sent: that a note carries
its own diff from the file to the forge is why a resumed review stays where it
was written. `OrderInv` says how long the received part is at each place and
that it agrees with the intended review item by item; a lost answer or a kill
leaves the places but not the agreement. The lemmas `IntendedShape` and
`GitHubShape` reduce the two concatenations to their elements.

`PullRequestsProofs`, from `WorkAssumption`, for any number of runs of gcli,
users and commits:

- `TypeCorrect`: the type invariant;
- `SubmissionComplete`: success means every part was confirmed, or automerge
  ignored;
- `ReviewersKept`: reviewers are lost through a stale list only;
- `OnlyMergedDeleted`: an action property; no step deletes the branch of a pull
  request that is not merged.

Its invariant says for every client what has been confirmed at its place
(`Confirms`), which places its operation can be at (`Shape`), that one that has
come to the branch has merged (`Merged`), and that nothing is confirmed before
the pull request is there (`Unborn`). `Merged` holds between the steps of one
client because no other can take a merge back.

`RequestsProofs`, from `CommandsAssumption` and `PlansAssumption` (a step that
frees the message stands behind all others; a confirmed command asks before
every change, and a no ends it), for any commands and plans of that shape:

- `TypeCorrect`: the type invariant, which says where an error leads;
- `AskedFirst`: an action property; nothing is submitted or deleted before the
  user has agreed;
- `DoneInOrder`, `ZeroIsComplete`: from `OrderAssumption` and
  `SuccessAssumption`, `InOrder` and `SuccessIsComplete`;
- `FailureIsClean`: from `FailureAssumption`, `FailureChangesNothing`.

`AskedIsAgreed` says that a run that is behind a question has had a yes.
`OnCourse` says that what was done has the length of the changes that the plan
makes before the next step (`Before`), or that one was left out which was not
required and none is to come: with `InOrder` it is inductive, and at the end of
a plan it is completeness. `NothingChanged` says that a simple command that has
changed something is behind its change, where nothing fails any more. TLC
evaluates all assumptions on every plan of `Plans`, so the theorems hold of
each subcommand, and of one that is added as long as its plan has the shape.
The assumptions are about single plans, without a run: the theorems are what
relates them to every order of answers, losses and refusals.

`CommandProofs` on `Interactive`, from `ThreadsAssumption` and
`BoundsAssumption`, for any threads, discussions, numbers of rows and a pipe of
any size:

- `TypeCorrect`: the type invariant;
- `OneReaderAtATime`: gcli and the pager do not share the terminal;
- `ShowsThread`: the right discussion, from its first line, all of it at the
  end.

`Menu` says which row of which table is open where gcli is. `Processes` says
which ends of the pipe are held: a pager at work holds the one for reading, so
that the printer is killed by SIGPIPE only when the pager is gone, and a
printer that may still write holds the one for writing, so that the pager sees
the end of its input only when everything was written. `Transfer` says that
what was shown and what is in the pipe are together what was written.

`CommandProofs` on `Startup`, from `NoneAssumption`, `MaxRemotesAssumption`,
`CommandsAssumption` and `InputsAssumption`, for files, environments, working
copies and command lines of any size, and any number of questions:

- `StartupTypes`: the type invariant;
- `FollowPrecedence`: every answer is the one meant, but for the cases named
  above (`AnswersFollowPrecedence`);
- `OnItsForge`: no repository is used on another forge than that of the remote
  that was named (`RepositoryOnItsForge`).

The program keeps what it has read; the reference looks only at the input.
`StartupInv` relates them, stage by stage. `SectionsInv` says that the sections
are those of one reading of the config file before the look-up, and that while
the subcommand runs, which has read the file a second time into the same list,
every setting is still the reference's (`SettingsRead`). This is the heart of
the proof. `Agrees` says after each line what the sections, the entries of one
and whether it is still open have to do with the lines read so far; `KeepsOld`
says that a second reading leaves the sections there were and only adds some
with titles that were there before, so that the first section of each title,
and its first entry of each key, stay what they were. `ConfigInv` says that the
switches are as the environment and the options, from left to right, have left
them, until colours or markdown are asked for, which keep something of their
own. `DotgcliKept` and `RemotesKept` say that what is remembered of `.gcli` and
the remotes is what would be found again. With these there is one lemma for
each question (`ForgeAnswer`, `RepoAnswer` and so on), and `AnswersInv` is kept
by `Ask` because no question changes what an earlier answer was made of.

`WireProofs` on `JsonGen`, from `JsonGenAssumption` (a natural number of
scopes, a positive first capacity, natural lengths), for any number of calls:

- `BufferIsLargeEnough`: no write goes past the buffer or the stack of scopes;
- `WritesTheJsonText`: a correct use writes the JSON text of its calls.

For the first, doubling a positive capacity often enough gives room for any
token (`Doubling` grows at least as fast as the exponent), so that the least
such number, which `Fit` takes, exists; every write that follows has room, its
NUL included. For the second, `JsonInv` says that as long as the generator is
used correctly its stack is what is open after the calls (`Open`, a recursive
function of their number), its output is `Json`, and its two flags say what the
last call was; that the flags are right for the enclosing scope when an inner
one is closed is why no comma is missing or too many. The lemmas about `Open`
and `Json` say how they grow by one call.

`ActionsProofs`, from `LinesAssumption`, for any lines of any length:

- `TypeCorrect`: the type invariant;
- `RunsTheLine`: code and manual read a line alike (`FollowsTheLine`);
- `ZeroIsAllRead`: exit status 0 only for a whole line, but for the lost and
  the ignored words (`ZeroMeansAllRead`).

The code eats the argument vector word by word, the reference speaks of
positions in the line. `Suffix` relates them: what is left is the line from
some position `here` on. While options are read (`ReadingOptions`), the words
before `here` are those that `IsOption` takes for options and their arguments,
and `opts` is what the last of each gave; where reading ends, this becomes
`OptionsKnown`. `Running` says that an action is run only while words are left.
`AllWords` says that, until a checkout loses one, the words of the actions run
and those left are together the words of the line, which gives `ZeroIsAllRead`
for the exceptional lines too. `Follows` says that the actions run, followed by
what `ReadFrom` reads at `here`, are `Reading`. Each handler then is one lemma:
the words it takes are those that `ReadFrom` gives its action; the one of
`checkout` takes a word more, and the lines with it are excepted (`SkipsWord`).

`DiffCommentsProofs`, from `SourcesAssumption`, for any number of patches,
files, hunks and lines:

- `TypeCorrect`: the type invariant;
- `StayInTheirHunk`: a note of any text, well formed or not, lies in the hunk
  it was read in (`CommentsStayInTheirHunk`);
- `AcceptManual`: a text that keeps to the manual is read to its end
  (`AcceptsTheManual`);
- `ReadManual`: its notes are read, in order, each with its file, its rows and
  its lines (`ReadsTheManual`).

The program knows a cursor in a text, the reference the source the text was
printed from. `Following` relates them: at every place of the parser the text
from the cursor on is the rest of some patch, file or hunk, printed, followed
by the ones behind it, and what was read so far is the hunks before it. That a
loop of the parser stops at the end of a hunk, a file or a patch and not
earlier is a lemma about each of these texts (`BodyEnd` for hunks), and
`WellFormed` is what these need. Within a hunk, `Phases` says that the scanner
is either before the lines a note belongs to or inside the braces of a range
whose closing brace is still ahead: so no assertion on braces can fail and the
end of a hunk is never met in a note. `StayInv` says the same of any text as
far as it is true there. `RowsInv` relates the two counters of rows to the
lines of the hunk that were passed (`Row`, by recursion on their number), and
`ListInv` says that the notes read, followed by those still to come in this
hunk and in the later ones (`ToCome`), are those meant: at the end of the text
nothing is to come. `TypeInv` adds to the types that the scanner never counts
more notes than lines passed.

`Induction` has what these need. The library's induction theorems take the
statement as an operator, which the provers cannot instantiate; here it is the
set of the numbers for which it holds, and well-foundedness of `<` gives a
least number outside it. `Recursion` says that the recursive functions by which
the references are defined exist, `FlattenAppend` is the step of a flattened
sequence, and the lemmas on `Onward` speak of what is left of a sequence behind
a position.

Only model-checked: the liveness properties `Terminates`, `BackToPrompt` and
`SubmitEnds`, because fairness and ENABLED are beyond the provers used here,
and `RunsTheCommandMeant` of `Startup`. That is about words abbreviated by
their first characters, and the provers know nothing of the characters of a
string.

## Findings

- After a page without a Link header, or a failed request for a later page, the
  address just freed is requested or freed again (`fetch_list_null`).
- `merge -s -D` deletes the source branch (`actions_keep_branch`).
- Merging a pull request from a fork on GitHub deletes the branch of that name
  in the target repository (`pull_requests_fork`).

More disagreements with a text of the repository are named as exceptions in a
property, which is false without them and has no run of its own to show it:

- a checkout loses the word behind it (`SkipsWord`; `src/cmd/pulls.c:1260`
  against gcli-pulls(1));
- automerge is confirmed and not set (`Ignored`;
  `src/gitlab/merge_requests.c:450` and `src/github/pulls.c:437` against
  gcli-pulls(1));
- a misspelt visibility level is "private" (`Misread`; `src/cmd/repos.c:238`
  against gcli-repos(1));
- an alias may run what its target does not mean (`Misled`;
  `src/cmd/gcli.c:281` against the Changelog);
- "y" and "true", GCLI_NOSPINNER over `disable-spinner`, and `--colours`
  without a terminal (`DiffersFromManual`; `src/cmd/cmdconfig.c` against
  gcli(1) and gcli(5));
- options of `merge` and `artifacts -o` (`Exceptions` of `Actions`).

The models have still more steps that look wrong without a text of the
repository saying so; they appear as exceptions in a property, or as outcomes of
which nothing is promised:

- `gitlab_mr_create_review` tests an uninitialised return code after a review
  without notes (`src/gitlab/merge_requests.c:1152`, `UnsetReturnCode`);
- a reviewer of a merge request who cannot be looked up is reported as requested
  (line 908);
- a filter reads the zeroed item of a page that broke off
  (`src/github/pulls.c:120`, `FilterBroken`);
- the branch's name is searched for in a head that may be NULL
  (`src/github/pulls.c:316`);
- waiting for a merge request with a conflict never ends
  (`src/gitlab/merge_requests.c:615`);
- the message of a new issue is freed twice (`src/cmd/issues.c:267`);
- `api --all` and the checks of a commit on GitHub keep the stale address of
  `gcli_fetch_list` in loops of their own (`src/cmd/api.c:80`,
  `src/github/checks.c:76`);
- `pipelines -r` overwrites the owner (`src/cmd/pipelines.c:600`);
- creating a pull request on Bugzilla fails an assertion;
- repeating a submission that failed half-way posts its notes twice.

## What is not modelled

- Vendored code, terminal layout, tables, colours, usage texts, the field lists
  of the generated parsers: data without a state of its own.
- Encodings (base64, URL, dates) and accessors of JSON values: pure functions
  that unit tests reach (`src/tests`).
- The text of requests, which is abstracted to what they ask for, and the text
  within a line of a configuration file or of a diff.
- Options of the curl handle and the headers of redirects, of which a second
  Link header would replace the first.
- The loops of `repos` and `forks` over several action words; each of their
  actions is a plan. Fetching one bug with its comments, and the checks of a
  pull request.
- Standard output that is no terminal, where stdio buffers the printer's text.

What is left to do: the header callback of curl line by line; the loops over
the words of `repos` and `forks` as a sixth table of `Actions`; an abstract
submission, "everything or a prefix of it, success only for everything", which
`ReviewSession`, `PullRequests` and `Requests` implement.
