------------------------------ MODULE Settings ------------------------------
(***************************************************************************)
(* Where gcli finds what it has not been told: the user's config file, the *)
(* .gcli file and the git remotes (src/src/cmd/cmdconfig.c and             *)
(* src/src/cmd/gitconfig.c).  Operators only; Startup is the program that  *)
(* calls them.                                                             *)
(*                                                                         *)
(* A file is the sequence of its lines: [line |-> "open", title],          *)
(* [line |-> "entry", key, value], [line |-> "close"] or                   *)
(* [line |-> "comment"].  A directory tree is the sequence of what each    *)
(* directory holds, from the working directory up to the root.             *)
(***************************************************************************)
EXTENDS Integers, Sequences, SequencesExt, FiniteSetsExt

CONSTANTS
  None,         \* NULL, SV_NULL: no value
  MaxRemotes    \* MAX_REMOTES

ASSUME MaxRemotesAssumption == MaxRemotes \in Nat \ {0}

Forges == {"github", "gitlab", "gitea", "bugzilla"}

\* sv_to_bool and readenv: what means yes, in a file or in the environment.
Yes == {"1", "yes", "true"}
MeansTrue(value) == value \in Yes

\* What the url of a remote is taken apart into.
Url == [scheme : STRING, host : STRING, owner : STRING, repo : STRING]
GitRemote == [name : STRING, url : Url, forge : Forges \cup {None},
              repo : Seq(STRING \cup {None})]

\* No value is none of the values.
ASSUME NoneAssumption ==
  None \notin Forges \cup Yes \cup GitRemote \cup Seq(STRING \cup {None})

-----------------------------------------------------------------------------
(* The user's config file. *)

\* parse_config_section and what it calls: "broken" stands for its errx.
ParseLine(parsed, l) ==
  LET secs == parsed.sections
      last == Len(secs)
  IN
  CASE l.line = "comment" \/ parsed.at = "broken" -> parsed
    [] parsed.at = "top" /\ l.line = "open" ->
         [sections |-> Append(secs, [title |-> l.title, entries |-> <<>>]),
          at |-> "section"]
    [] parsed.at = "section" /\ l.line = "entry" ->
         [parsed EXCEPT !.sections =
            [secs EXCEPT ![last].entries = Append(secs[last].entries, l)]]
    [] parsed.at = "section" /\ l.line = "close" -> [parsed EXCEPT !.at = "top"]
    [] OTHER -> [parsed EXCEPT !.at = "broken"]

\* parse_config_file appends to the sections there are already.
ParseFile(sections, lines) ==
  LET parsed[n \in 0..Len(lines)] ==
        IF n = 0 THEN [sections |-> sections, at |-> "top"]
        ELSE ParseLine(parsed[n - 1], lines[n])
  IN  parsed[Len(lines)]

\* The value of the first entry with the key.
EntryOf(lines, key) ==
  LET hits == {i \in 1..Len(lines) : /\ lines[i].line = "entry"
                                     /\ lines[i].key = key}
  IN  IF hits = {} THEN None ELSE lines[Min(hits)].value

\* The entries of the first section with the title; none without a section.
FindSection(sections, title) ==
  LET hits == {i \in 1..Len(sections) : sections[i].title = title}
  IN  IF hits = {} THEN <<>> ELSE sections[Min(hits)].entries

FindByKey(sections, title, key) == EntryOf(FindSection(sections, title), key)

-----------------------------------------------------------------------------
(* Files in the directories above. *)

\* Both searches give up on reaching the root directory; it is looked into
\* only when gcli was started there.
FindUpwards(dirs) ==
  LET hits == {i \in 1..Len(dirs) :
                 dirs[i] # None /\ (i < Len(dirs) \/ Len(dirs) = 1)}
  IN  IF hits = {} THEN None ELSE dirs[Min(hits)]

\* init_local_config: the lines of .gcli, or None and it is searched again.
ReadDotgcli(dirs) == FindUpwards(dirs)

\* find_file_in_dotgit; .git may also be the file of a worktree, which names
\* the directory.
FindGitconfig(dirs) == FindUpwards(dirs)

\* http_extractor and ssh_extractor: the forge by the host, and the owner -
\* with the host before it where the prefix is shorter than that.
Hosts ==
  [h \in {"github.com", "gitlab.com", "codeberg.org"} |->
     CASE h = "github.com" -> "github"
       [] h = "gitlab.com" -> "gitlab"
       [] h = "codeberg.org" -> "gitea"]

ForgeOfUrl(url) ==
  IF url.scheme \in {"https://", "git@"} /\ url.host \in DOMAIN Hosts
  THEN Hosts[url.host] ELSE None

\* In an ssh:// url a port follows the host: one without any `:' is cut at
\* one, its length wraps round, and no such url is among the inputs.
RepoOfUrl(url) ==
  CASE url.scheme \notin {"https://", "git@", "ssh://"} -> <<None, None>>
    [] url.scheme = "https://" /\ ForgeOfUrl(url) = None ->
         <<url.host, url.owner, url.repo>>
    [] OTHER -> <<url.owner, url.repo>>

\* What a section of .git/config, or one url of it, adds to the remotes.
RemotesIn(section) ==
  IF section.name = None THEN <<>>
  ELSE <<[name |-> section.name, url |-> section.url,
          forge |-> ForgeOfUrl(section.url), repo |-> RepoOfUrl(section.url)]>>

\* gcli_gitconfig_read_gitconfig: a remote for each url of a named remote
\* section.  None stands for its errx: too many of them, or a .git without a
\* config file (no sections).
ReadGitconfig(dirs) ==
  LET config == FindGitconfig(dirs)
      found == FlattenSeq([i \in 1..Len(config) |-> RemotesIn(config[i])])
  IN  IF config = None THEN <<>>
      ELSE IF config = <<>> \/ Len(found) > MaxRemotes THEN None ELSE found

\* gcli_gitconfig_get_forgetype: also the forge of the first remote when
\* there is none of that name.
RemoteForge(remotes, name) ==
  LET named == {i \in 1..Len(remotes) : remotes[i].name = name}
  IN  CASE named # {} -> remotes[Min(named)].forge
        [] named = {} /\ remotes # <<>> -> remotes[1].forge
        [] OTHER -> None

\* gcli_gitconfig_repo_by_remote: the remote that is used, or None.
RemoteByName(remotes, name) ==
  LET named == {i \in 1..Len(remotes) : name \in {None, remotes[i].name}}
  IN  IF named = {} THEN None ELSE remotes[Min(named)]

\* gcli_gitconfig_get_remote: the first remote on a forge.
RemoteOn(remotes, forge) ==
  LET there == {i \in 1..Len(remotes) : remotes[i].forge = forge}
  IN  IF there = {} THEN None ELSE remotes[Min(there)].url

=============================================================================
