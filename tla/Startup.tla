------------------------------- MODULE Startup -------------------------------
(***************************************************************************)
(* gcli from main() to the sub-command and back (src/src/cmd/gcli.c), and  *)
(* what a sub-command asks of its surroundings while it runs: the forge,   *)
(* account, token, API base and repository to use, and the settings of     *)
(* src/src/cmd/cmdconfig.c.  The sub-command asks in any order, and what   *)
(* it asks is in part remembered and in part looked up again.              *)
(***************************************************************************)
EXTENDS Settings

CONSTANTS
  Error,        \* a return code below zero
  Inputs,       \* environment, arguments and files gcli is started with
  Commands,     \* default_subcommands: their names, in the table's order
  Dictionary,   \* every name of a sub-command or alias, in strcmp order
  MaxAsked      \* bound: questions a sub-command asks

ASSUME CommandsAssumption == Commands \in Seq(STRING)

\* Files, options and directories are sequences.  getopt gives an argument to
\* the options that need one, and the parsers a value to every entry.
ASSUME InputsAssumption ==
  \A x \in Inputs :
    /\ x.options \in Seq(ToSet(x.options))
    /\ \A i \in 1..Len(x.options) :
         x.options[i].opt \in {"account", "remote", "type"} =>
           x.options[i].arg # None
    /\ x.file \in Seq(ToSet(x.file))
    /\ x.dotgcli \in Seq(ToSet(x.dotgcli)) /\ x.dotgcli # <<>>
    /\ \A i \in 1..Len(x.dotgcli) : x.dotgcli[i] # None =>
         /\ x.dotgcli[i] \in Seq(ToSet(x.dotgcli[i]))
         /\ \A j \in 1..Len(x.dotgcli[i]) :
              x.dotgcli[i][j].line = "entry" => x.dotgcli[i][j].value # None
    /\ x.git \in Seq({None} \cup Seq([name : STRING \cup {None}, url : Url]))

VARIABLES
  in,           \* what gcli was started with; no step changes it
  stage,        \* where main() is
  table,        \* subcommands: names and what they run
  cfg,          \* struct gcli_config without its sections
  sections,     \* its sections, as far as they have been read
  dotgcli,      \* struct gcli_dotgcli: the entries, or None
  remotes,      \* remotes of gitconfig.c, or None: not read yet
  apibase,      \* ctx->apibase
  runs,         \* the sub-command that was found
  answers       \* history: what was asked, with the answer

main_vars == <<in, stage, table, cfg, sections, dotgcli, remotes, apibase, runs,
               answers>>

InitMain ==
  /\ in \in Inputs
  /\ stage = "setup"
  /\ table = <<>>
  /\ cfg = [inited |-> FALSE, account |-> None, remote |-> None,
            type |-> None, force |-> FALSE, nocolour |-> FALSE,
            testedtty |-> FALSE, nospinner |-> FALSE, nomarkdown |-> FALSE,
            experimental |-> FALSE]
  /\ sections = <<>>
  /\ dotgcli = None
  /\ remotes = None
  /\ apibase = None
  /\ runs = None
  /\ answers = <<>>

-----------------------------------------------------------------------------
(* The table of sub-commands. *)

Abbreviates(word, name) ==
  Len(word) <= Len(name) /\ SubSeq(name, 1, Len(word)) = word

Matches(tbl, word) == {i \in 1..Len(tbl) : Abbreviates(word, tbl[i].name)}

\* find_subcommand: the first match, unless the entry after it matches too
\* (is_unique_match).
FindSubcommand(tbl, word) ==
  LET hits == Matches(tbl, word) IN
  IF hits = {} \/ Min(hits) + 1 \in hits THEN None ELSE tbl[Min(hits)].runs

\* Mutant: an alias for nothing is installed as well.
MutAddAlias(tbl, alias) ==
  Append(tbl, [name |-> alias.key, runs |-> FindSubcommand(tbl, alias.value)])

\* add_subcommand_alias; the empty table stands for its exit().
AddAlias(tbl, alias) ==
  LET target == FindSubcommand(tbl, alias.value) IN
  IF target = None THEN <<>>
  ELSE Append(tbl, [name |-> alias.key, runs |-> target])

\* ensure_config
Parsed == IF cfg.inited THEN [sections |-> sections, at |-> "top"]
          ELSE ParseFile(sections, in.file)

EnsureConfig ==
  /\ Parsed.at = "top"
  /\ sections' = Parsed.sections

\* default_subcommands
BuiltIn ==
  [i \in 1..Len(Commands) |-> [name |-> Commands[i], runs |-> Commands[i]]]

\* setup_subcommand_table and install_aliases: "pr" first, then those of the
\* config file, each looked up among all that came before it.
InstalledTable ==
  LET aliases == <<[key |-> "pr", value |-> "pulls"]>>
                   \o FindSection(Parsed.sections, "aliases")
      installed[n \in 0..Len(aliases)] ==
        IF n = 0 THEN BuiltIn ELSE AddAlias(installed[n - 1], aliases[n])
  IN  installed[Len(aliases)]

InstallAliases ==
  /\ stage = "setup"
  /\ EnsureConfig /\ cfg' = [cfg EXCEPT !.inited = TRUE]
  /\ table' = InstalledTable
  /\ stage' = IF table' = <<>> THEN "exit1" ELSE "presort"
  /\ UNCHANGED <<in, dotgcli, remotes, apibase, runs, answers>>

BrokenConfig ==
  /\ stage \in {"setup", "spinner"}
  /\ Parsed.at # "top"
  /\ stage' = "exit1"
  /\ UNCHANGED <<in, table, cfg, sections, dotgcli, remotes, apibase, runs,
                 answers>>

\* Mutant: the table stays as it was built.
MutPresort ==
  /\ stage = "presort"
  /\ table' = table
  /\ stage' = "args"
  /\ UNCHANGED <<in, cfg, sections, dotgcli, remotes, apibase, runs, answers>>

\* strcmp
Rank(name) == Min({i \in 1..Len(Dictionary) : Dictionary[i] = name})

\* qsort.  It may leave entries of one name in any order; none of them is ever
\* found, as each such word matches the neighbour too.
Insert(tbl, entry) ==
  LET above == {i \in 1..Len(tbl) : Rank(tbl[i].name) > Rank(entry.name)}
  IN  InsertAt(tbl, Min(above \cup {Len(tbl) + 1}), entry)

Sorted(tbl) ==
  LET sorted[n \in 0..Len(tbl)] ==
        IF n = 0 THEN <<>> ELSE Insert(sorted[n - 1], tbl[n])
  IN  sorted[Len(tbl)]

\* presort_subcommands
Presort ==
  /\ stage = "presort"
  /\ table' = Sorted(table)
  /\ stage' = "args"
  /\ UNCHANGED <<in, cfg, sections, dotgcli, remotes, apibase, runs, answers>>

-----------------------------------------------------------------------------
(* gcli_config_parse_args *)

\* readenv; an empty NO_COLOR is no value.
ReadEnv(c) ==
  LET env == in.env IN
  [c EXCEPT
     !.account = IF env.account = None THEN @ ELSE env.account,
     !.nocolour = IF env.nocolour = None THEN @ ELSE MeansTrue(env.nocolour),
     !.nospinner = IF env.nospinner = None THEN @
                   ELSE MeansTrue(env.nospinner),
     !.nomarkdown = IF env.markdown = None THEN @
                    ELSE ~MeansTrue(env.markdown),
     !.experimental = IF env.experimental = None THEN @
                      ELSE MeansTrue(env.experimental)]

\* One option of the command line.
Option(c, o) ==
  CASE o.opt = "account" -> [c EXCEPT !.account = o.arg]
    [] o.opt = "remote" -> [c EXCEPT !.remote = o.arg]
    [] o.opt = "type" -> [c EXCEPT !.type = o.arg]
    [] o.opt = "c" -> [c EXCEPT !.force = TRUE]
    [] o.opt = "colours" -> [c EXCEPT !.nocolour = FALSE]
    [] o.opt = "no-spinner" -> [c EXCEPT !.nospinner = TRUE]
    [] o.opt = "no-markdown" -> [c EXCEPT !.nomarkdown = TRUE]
    [] OTHER -> c

\* The options from left to right.
WithOptions(c) ==
  LET given[n \in 0..Len(in.options)] ==
        IF n = 0 THEN c ELSE Option(given[n - 1], in.options[n])
  IN  given[Len(in.options)]

\* -V and the options that getopt or the loop rejects end the loop.
Stops(o) == \/ o.opt \in {"version", "unknown"}
            \/ o.opt = "type" /\ o.arg \notin Forges

Accepted == ~\E i \in 1..Len(in.options) : Stops(in.options[i])

\* Mutant: the environment is read after the options.
MutParseArgs ==
  /\ stage = "args" /\ Accepted
  /\ cfg' = [ReadEnv(WithOptions([cfg EXCEPT !.type = None]))
               EXCEPT !.inited = FALSE]
  /\ stage' = IF in.word = None THEN "exit1" ELSE "lookup"
  /\ UNCHANGED <<in, table, sections, dotgcli, remotes, apibase, runs,
                 answers>>

ParseArgs ==
  /\ stage = "args" /\ Accepted
  /\ cfg' = [WithOptions(ReadEnv([cfg EXCEPT !.type = None]))
               EXCEPT !.inited = FALSE]
  /\ stage' = IF in.word = None THEN "exit1" ELSE "lookup"
  /\ UNCHANGED <<in, table, sections, dotgcli, remotes, apibase, runs,
                 answers>>

RejectArgs ==
  /\ stage = "args" /\ ~Accepted
  /\ LET first == Min({i \in 1..Len(in.options) : Stops(in.options[i])})
     IN  stage' = IF in.options[first].opt = "version" THEN "exit0" ELSE "exit1"
  /\ UNCHANGED <<in, table, cfg, sections, dotgcli, remotes, apibase, runs,
                 answers>>

Lookup ==
  /\ stage = "lookup"
  /\ runs' = FindSubcommand(table, in.word)
  /\ stage' = IF runs' = None THEN "exit1" ELSE "spinner"
  /\ UNCHANGED <<in, table, cfg, sections, dotgcli, remotes, apibase, answers>>

-----------------------------------------------------------------------------
(* What the sub-command asks.  The questions read .gcli and the remotes    *)
(* when they need them and these have not been found yet.                  *)

Dotgcli == IF dotgcli = None THEN ReadDotgcli(in.dotgcli) ELSE dotgcli

LocalEntry(key) == IF Dotgcli = None THEN None ELSE EntryOf(Dotgcli, key)

Remotes == IF remotes = None THEN ReadGitconfig(in.git) ELSE remotes

Config(title, key) == FindByKey(sections, title, key)

\* gcli_gitconfig_repo_by_remote: the named remote, or the first.
RemoteUsed ==
  IF Remotes = None THEN None ELSE RemoteByName(Remotes, cfg.remote)

\* gcli_config_get_forge_type: None stands for its errx.
NamedType ==
  IF cfg.account # None THEN Config(cfg.account, "forge-type")
  ELSE LocalEntry("forge-type")

InfersForge == cfg.type = None /\ cfg.account = None /\ NamedType = None

ForgeType ==
  CASE cfg.type # None -> cfg.type
    [] cfg.type = None /\ NamedType \in Forges -> NamedType
    [] InfersForge /\ Remotes # None -> RemoteForge(Remotes, cfg.remote)
    [] OTHER -> None

\* gcli_config_get_account
Account ==
  IF cfg.account # None THEN cfg.account
  ELSE Config("defaults", ForgeType \o "-default-account")

AccountEntry(key) == IF Account = None THEN None ELSE Config(Account, key)

DefaultUrl ==
  [github |-> "https://api.github.com", gitlab |-> "https://gitlab.com/api/v4",
   gitea |-> "https://codeberg.org/api/v1",
   bugzilla |-> "https://bugs.freebsd.org/bugzilla"]

\* gcli_get_apibase keeps the first answer of gcli_config_get_apibase.
ApiBase ==
  CASE apibase # None -> apibase
    [] apibase = None /\ AccountEntry("api-base") # None ->
         AccountEntry("api-base")
    [] apibase = None /\ AccountEntry("api-base") = None
         /\ AccountEntry("apibase") # None -> AccountEntry("apibase")
    [] OTHER -> DefaultUrl[ForgeType]

\* Mutant: the repository of a remote whatever its forge.
MutRepo ==
  IF cfg.remote = None /\ LocalEntry("pr.upstream") # None
  THEN LocalEntry("pr.upstream")
  ELSE IF RemoteUsed = None THEN Error ELSE RemoteUsed.repo

\* gcli_config_get_repo: a remote that was named must be on the forge.
Repo ==
  IF cfg.remote = None /\ LocalEntry("pr.upstream") # None
  THEN LocalEntry("pr.upstream")
  ELSE IF \/ RemoteUsed = None
          \/ cfg.remote # None /\ RemoteUsed.forge \notin {None, ForgeType}
       THEN Error
       ELSE RemoteUsed.repo

\* gcli_config_get_remote: a name if one was given, otherwise a URL.
Remote ==
  LET url == RemoteOn(Remotes, ForgeType) IN
  CASE cfg.remote # None -> cfg.remote
    [] cfg.remote = None /\ url # None -> url
    [] OTHER -> Error

\* check_path on the -o, -r and -i of the sub-command; Error is an errx.
OwnersRepo == <<in.path.owner, in.path.repo>>
Path ==
  CASE ForgeType = "bugzilla" ->
         [repo |-> OwnersRepo,
          kind |-> CASE in.path.id = None -> "bugzilla"
                     [] in.path.id # None /\ OwnersRepo = <<None, None>> ->
                          "id"
                     [] OTHER -> "default"]
    [] ForgeType # "bugzilla" /\ OwnersRepo = <<None, None>> ->
         IF Repo = Error THEN Error ELSE [repo |-> Repo, kind |-> "default"]
    [] OTHER -> IF None \in {in.path.owner, in.path.repo} THEN Error
                ELSE [repo |-> OwnersRepo, kind |-> "default"]

\* gcli_config_display_progress_spinner
Spinner ==
  ~cfg.nospinner /\ ~MeansTrue(Config("defaults", "disable-spinner"))

OfForge == {"forge", "account", "apibase", "token", "remote", "path"}
OfRepo == {"repo", "path"}

Answer(q) ==
  CASE q = "forge" -> ForgeType
    [] q = "account" -> Account
    [] q = "apibase" -> ApiBase
    [] q = "token" -> AccountEntry("token")
    [] q = "repo" -> Repo
    [] q = "remote" -> Remote
    [] q = "path" -> Path
    [] q = "base" -> LocalEntry("pr.base")
    [] q = "inhibit" -> LocalEntry("pr.inhibit-delete-source-branch") = "yes"
    [] q = "spinner" -> Spinner
    [] q = "experimental" ->
         cfg.experimental \/ MeansTrue(Config("defaults",
                                             "enable-experimental"))

Questions == OfForge \cup OfRepo
               \cup {"base", "inhibit", "spinner", "experimental"}

\* Asking for the repository asks for the forge only to compare it, asking for
\* the remote only when none was named.
AsksForge(q) ==
  \/ q \in OfForge \ {"remote"}
  \/ q = "remote" /\ cfg.remote = None
  \/ q = "repo" /\ cfg.remote # None
       /\ RemoteUsed # None /\ RemoteUsed.forge # None

AsksRepo(q) ==
  \/ q = "repo"
  \/ q = "path" /\ ForgeType # "bugzilla" /\ OwnersRepo = <<None, None>>

ReadsDotgcli(q) ==
  \/ q \in {"base", "inhibit"}
  \/ AsksForge(q) /\ cfg.type = None
  \/ AsksRepo(q) /\ cfg.remote = None

ReadsRemotes(q) ==
  \/ AsksForge(q) /\ InfersForge
  \/ AsksRepo(q) /\ (cfg.remote # None \/ LocalEntry("pr.upstream") = None)
  \/ q = "remote" /\ cfg.remote = None

Exits(q) ==
  \/ ReadsRemotes(q) /\ Remotes = None
  \/ AsksForge(q) /\ ForgeType = None
  \/ q = "path" /\ Path = Error

\* The answers with one more.
Noted(q, answer) ==
  [x \in DOMAIN answers \cup {q} |-> IF x = q THEN answer ELSE answers[x]]

CanAsk(q) ==
  /\ stage = "run"
  /\ q \notin DOMAIN answers
  /\ Cardinality(DOMAIN answers) < MaxAsked

Ask(q) ==
  /\ CanAsk(q) /\ ~Exits(q)
  /\ answers' = Noted(q, Answer(q))
  /\ dotgcli' = IF ReadsDotgcli(q) THEN Dotgcli ELSE dotgcli
  /\ remotes' = IF ReadsRemotes(q) THEN Remotes ELSE remotes
  /\ apibase' = IF q = "apibase" THEN ApiBase ELSE apibase
  /\ UNCHANGED <<in, stage, table, cfg, sections, runs>>

AskInVain(q) ==
  /\ CanAsk(q) /\ Exits(q)
  /\ stage' = "exit1"
  /\ UNCHANGED <<in, table, cfg, sections, dotgcli, remotes, apibase, runs,
                 answers>>

\* gcli_config_have_colours keeps what it found out about the terminal where
\* NO_COLOR is kept.
AskColours ==
  /\ CanAsk("colours")
  /\ LET off == cfg.nocolour \/ (~cfg.testedtty /\ ~in.tty)
         looks == ~cfg.force /\ ~cfg.nocolour
     IN  /\ cfg' = IF looks THEN [cfg EXCEPT !.nocolour = off, !.testedtty = TRUE]
                   ELSE cfg
         /\ answers' = Noted("colours", cfg.force \/ ~off)
  /\ UNCHANGED <<in, stage, table, sections, dotgcli, remotes, apibase, runs>>

\* gcli_config_render_markdown keeps a "no" of the config file.
AskMarkdown ==
  /\ CanAsk("markdown")
  /\ LET entry == Config("defaults", "render-markdown")
         off == cfg.nomarkdown \/ (entry # None /\ ~MeansTrue(entry))
     IN  /\ cfg' = [cfg EXCEPT !.nomarkdown = off]
         /\ answers' = Noted("markdown", ~off)
  /\ UNCHANGED <<in, stage, table, sections, dotgcli, remotes, apibase, runs>>

\* The end of main(): the config file is read again, the spinner set up and
\* the sub-command called.
CallCommand ==
  /\ stage = "spinner"
  /\ EnsureConfig /\ cfg' = [cfg EXCEPT !.inited = TRUE]
  /\ stage' = "run"
  /\ UNCHANGED <<in, table, dotgcli, remotes, apibase, runs, answers>>

Return ==
  /\ stage = "run"
  /\ stage' = "returned"
  /\ UNCHANGED <<in, table, cfg, sections, dotgcli, remotes, apibase, runs,
                 answers>>

NextMain ==
  \/ InstallAliases \/ BrokenConfig \/ Presort
  \/ ParseArgs \/ RejectArgs \/ Lookup \/ CallCommand
  \/ \E q \in Questions : Ask(q) \/ AskInVain(q)
  \/ AskColours \/ AskMarkdown \/ Return

SpecMain == InitMain /\ [][NextMain]_main_vars

-----------------------------------------------------------------------------
(* The same answers from gcli(1) and gcli(5): of the places a value can be *)
(* given in, the first that gives one.                                     *)

FirstOf(values) ==
  LET given == {i \in 1..Len(values) : values[i] # None}
  IN  IF given = {} THEN None ELSE values[Min(given)]

\* The last option of that name counts.
OptionGiven(opt) ==
  LET given == {i \in 1..Len(in.options) : in.options[i].opt = opt}
  IN  IF given = {} THEN None ELSE in.options[Max(given)].arg

Flag(opt) == \E i \in 1..Len(in.options) : in.options[i].opt = opt

\* The first entry with the key after the first opening of the section.
Setting(title, key) ==
  LET opens == {i \in 1..Len(in.file) : /\ in.file[i].line = "open"
                                        /\ in.file[i].title = title}
      entries == {i \in 1..Len(in.file) :
                    /\ in.file[i].line = "entry" /\ in.file[i].key = key
                    /\ i > Min(opens)
                    /\ ~\E j \in Min(opens)..i : in.file[j].line = "close"}
  IN  IF opens = {} \/ entries = {} THEN None ELSE in.file[Min(entries)].value

\* The nearest .gcli that is not in the root directory.
LocalSetting(key) ==
  LET lines == FirstOf(IF Len(in.dotgcli) = 1 THEN in.dotgcli
                       ELSE Front(in.dotgcli))
  IN  IF lines = None THEN None
      ELSE FirstOf([i \in 1..Len(lines) |->
             IF lines[i].line = "entry" /\ lines[i].key = key
             THEN lines[i].value ELSE None])

\* The remotes of the working copy that are called name; all for None.
GitRemotes(name) ==
  LET read == ReadGitconfig(in.git)
  IN  IF read = None THEN {}
      ELSE {i \in 1..Len(read) : name \in {None, read[i].name}}

FirstRemote(name, field) ==
  IF GitRemotes(name) = {} THEN None
  ELSE ReadGitconfig(in.git)[Min(GitRemotes(name))][field]

MeantAccount == FirstOf(<<OptionGiven("account"), in.env.account>>)

MeantRemote == OptionGiven("remote")

MeantForge ==
  FirstOf(<<OptionGiven("type"),
            IF MeantAccount # None THEN Setting(MeantAccount, "forge-type")
            ELSE FirstOf(<<LocalSetting("forge-type"),
                           IF GitRemotes(MeantRemote) # {}
                           THEN FirstRemote(MeantRemote, "forge")
                           ELSE FirstRemote(None, "forge")>>)>>)

\* -a and GCLI_ACCOUNT, or the default account of the forge.
AccountUsed ==
  FirstOf(<<MeantAccount,
            Setting("defaults", MeantForge \o "-default-account")>>)

OfAccount(key) == IF AccountUsed = None THEN None ELSE Setting(AccountUsed, key)

MeantRepo ==
  IF MeantRemote # None
  THEN IF FirstRemote(MeantRemote, "forge") \in {None, MeantForge}
       THEN FirstRemote(MeantRemote, "repo") ELSE None
  ELSE FirstOf(<<LocalSetting("pr.upstream"), FirstRemote(None, "repo")>>)

MeantUrl ==
  LET read == ReadGitconfig(in.git)
      there == {i \in GitRemotes(None) : read[i].forge = MeantForge}
  IN  FirstOf(<<MeantRemote,
                IF there = {} THEN None ELSE read[Min(there)].url>>)

\* A yes or no of the config file.  No page lists the words there.
Switch(key, default) ==
  LET setting == Setting("defaults", key)
  IN  IF setting = None THEN default ELSE MeansTrue(setting)

\* gcli(1) does for NO_COLOR and GCLI_NOSPINNER: "If set to `1', `y' or `yes'
\* (capitalisation ignored)".
Affirms(value) == value \in {"1", "y", "yes"}

OrError(value) == IF value = None THEN Error ELSE value

\* gcli(5) has the config file's disable-spinner "overridden with the
\* GCLI_NOSPINNER environment variable", for gcli(1) --colours is -c, and the
\* experimental features are enabled by either of two settings.  How to turn
\* off markdown is documented nowhere: here any of the three places does.
Meant(q) ==
  CASE q = "forge" -> MeantForge
    [] q = "account" -> AccountUsed
    [] q = "apibase" ->
         FirstOf(<<OfAccount("api-base"), OfAccount("apibase"),
                   DefaultUrl[MeantForge]>>)
    [] q = "token" -> OfAccount("token")
    [] q = "repo" -> OrError(MeantRepo)
    [] q = "remote" -> OrError(MeantUrl)
    [] q = "path" ->
         [repo |-> IF OwnersRepo # <<None, None>> \/ MeantForge = "bugzilla"
                   THEN OwnersRepo ELSE MeantRepo,
          kind |-> IF MeantForge # "bugzilla" THEN "default"
                   ELSE IF in.path.id = None THEN "bugzilla"
                   ELSE IF OwnersRepo = <<None, None>> THEN "id" ELSE "default"]
    [] q = "base" -> LocalSetting("pr.base")
    [] q = "inhibit" ->
         LocalSetting("pr.inhibit-delete-source-branch") = "yes"
    [] q = "spinner" ->
         /\ ~Flag("no-spinner")
         /\ IF in.env.nospinner # None THEN ~Affirms(in.env.nospinner)
            ELSE ~Switch("disable-spinner", FALSE)
    [] q = "markdown" ->
         /\ ~Flag("no-markdown")
         /\ in.env.markdown # None => MeansTrue(in.env.markdown)
         /\ Switch("render-markdown", TRUE)
    [] q = "experimental" ->
         \/ MeansTrue(in.env.experimental)
         \/ Switch("enable-experimental", FALSE)
    [] q = "colours" ->
         \/ Flag("c") \/ Flag("colours")
         \/ in.tty /\ ~Affirms(in.env.nocolour)

\* Where gcli does otherwise: "y" is no yes to it, and "true" is one;
MistakenFor(value) == MeansTrue(value) <=> ~Affirms(value)

\* GCLI_NOSPINNER does not bring back a spinner the config file disables;
KeepsSpinnerOff ==
  /\ in.env.nospinner # None /\ ~Affirms(in.env.nospinner)
  /\ Switch("disable-spinner", FALSE)

\* --colours undoes NO_COLOR and, unlike -c, gives none without a terminal.
ColoursOnTerminalOnly == Flag("colours") /\ ~Flag("c") /\ ~in.tty

DiffersFromManual(q) ==
  \/ q = "spinner" /\ (MistakenFor(in.env.nospinner) \/ KeepsSpinnerOff)
  \/ q = "colours" /\ (MistakenFor(in.env.nocolour) \/ ColoursOnTerminalOnly)

-----------------------------------------------------------------------------
(* The sub-commands by name: the built-in ones, pr and the aliases. *)

Aliases ==
  <<[key |-> "pr", value |-> "pulls"]>>
    \o (LET opens == {i \in 1..Len(in.file) : /\ in.file[i].line = "open"
                                              /\ in.file[i].title = "aliases"}
            close == Min({i \in 1..Len(in.file) :
                            i > Min(opens) /\ in.file[i].line = "close"})
        IN  IF opens = {} THEN <<>>
            ELSE SelectSeq(SubSeq(in.file, Min(opens), close),
                           LAMBDA l : l.line = "entry"))

Names == Commands \o [i \in 1..Len(Aliases) |-> Aliases[i].key]

\* The target of the n-th name, an alias, among the names before it: the one
\* of that name, an alias too, or all that the target abbreviates to.
Target(n) == Aliases[n - Len(Commands)].value
Exact(n) == {i \in 1..n - 1 : Names[i] = Target(n)}
Short(n) == {i \in 1..n - 1 : Abbreviates(Target(n), Names[i])}
Named(n) == IF Exact(n) # {} THEN Exact(n) ELSE Short(n)

\* What the n-th name stands for; an unambiguous one stands for one command.
Means ==
  LET means[n \in 1..Len(Names)] ==
        IF n <= Len(Commands) THEN {Names[n]}
        ELSE UNION {means[i] : i \in Named(n)}
  IN  means

\* Where gcli is misled: targets are looked up before the table is sorted, and
\* the first name that fits is taken if the next in the table does not fit.
\* An alias of a misled one is misled with it.
Misled ==
  LET misled[n \in 1..Len(Names)] ==
        /\ n > Len(Commands)
        /\ \/ Exact(n) # {} /\ Min(Short(n)) \notin Exact(n)
           \/ Cardinality(Named(n)) > 1
           \/ \E i \in Named(n) : misled[i]
  IN  misled

-----------------------------------------------------------------------------
Answered == DOMAIN answers

MainTypeOK ==
  /\ stage \in {"setup", "presort", "args", "lookup", "spinner", "run",
                "returned", "exit0", "exit1"}
  /\ \A i \in 1..Len(table) : table[i].runs \in ToSet(Commands)
  /\ cfg.type \in Forges \cup {None}
  /\ runs \in ToSet(Commands) \cup {None}
  /\ Answered \subseteq Questions \cup {"colours", "markdown"}
  /\ "forge" \in Answered => answers["forge"] \in Forges
  /\ apibase # None => "apibase" \in Answered

\* The sub-command that runs is the one name the word abbreviates; it is
\* refused if it abbreviates none or several of all names there are, although
\* find_subcommand compares it with one neighbour in the table only.  Aliases
\* name other aliases and, unless one is misled, they mean what these mean.
RunsTheCommandMeant ==
  LET hits == {i \in 1..Len(Names) : Abbreviates(in.word, Names[i])} IN
  /\ stage \in {"spinner", "run", "returned"} =>
       /\ Cardinality(hits) = 1
       /\ Misled[Min(hits)] \/ Means[Min(hits)] = {runs}
  /\ stage = "exit1" /\ table # <<>> /\ ~cfg.inited /\ in.word # None =>
       Cardinality(hits) # 1

\* Every answer is what the documented order of precedence gives, whatever
\* was asked before it and although the config file has been read twice; but
\* for those of the spinner and the colours that differ from the manual.
AnswersFollowPrecedence ==
  \A q \in Answered : DiffersFromManual(q) \/ answers[q] = Meant(q)

\* -r never makes gcli talk to one forge about a repository on another: with
\* the repository of the named remote, the forge asked is that remote's.
RepositoryOnItsForge ==
  MeantRemote # None /\ "repo" \in Answered /\ answers["repo"] # Error =>
    FirstRemote(MeantRemote, "forge") \in {None, MeantForge}

=============================================================================
