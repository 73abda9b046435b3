------------------------------ MODULE MCStartup ------------------------------
(* gcli started in three ways: with every word and set of aliases; with each
   combination of account, type, remote, .gcli and working copy; and with
   each combination of display settings. *)
EXTENDS Startup

MCCommands ==
  <<"ci", "comment", "config", "forks", "gists", "issues", "labels",
    "milestones", "pipelines", "pulls", "releases", "repos", "snippets",
    "status", "attachments", "api", "version">>

MCDictionary ==
  <<"api", "attachments", "ci", "comment", "config", "forks", "gists", "i",
    "issues", "issuesx", "labels", "milestones", "pipelines", "pr", "proj",
    "pulls", "releases", "repos", "snippets", "status", "version", "zz">>

Open(t) == [line |-> "open", title |-> t]
Close == [line |-> "close"]
Comment == [line |-> "comment"]
Entry(k, v) == [line |-> "entry", key |-> k, value |-> v]
Section(t, entries) == <<Open(t)>> \o entries \o <<Close>>

NoEnv == [account |-> None, nocolour |-> None, nospinner |-> None,
          markdown |-> None, experimental |-> None]
NoPath == [owner |-> None, repo |-> None, id |-> None]
Opt(o, a) == [opt |-> o, arg |-> a]

Plain == [env |-> NoEnv, options |-> <<>>, word |-> "issues",
          file |-> <<>>, dotgcli |-> <<None, None>>, git |-> <<None, None>>,
          path |-> NoPath, tty |-> TRUE]

-----------------------------------------------------------------------------
AliasFiles ==
  {<<>>, Section("aliases", <<>>)}
   \cup {Section("aliases", es) : es \in
          {<<Entry("i", "issues")>>, <<Entry("issuesx", "pulls")>>,
           <<Entry("zz", "pr"), Comment, Entry("proj", "zz")>>,
           <<Entry("proj", "rep"), Entry("zz", "proj")>>,
           <<Entry("i", "ci"), Entry("zz", "i")>>,
           <<Entry("issuesx", "ci"), Entry("zz", "iss"), Entry("proj", "zz")>>,
           <<Entry("issuesx", "ci"), Entry("zz", "issues")>>,
           <<Entry("zz", "s")>>, <<Entry("pr", "repos")>>,
           <<Entry("zz", "nosuch")>>}}
   \cup {Section("aliases", <<Entry("zz", "ci")>>)
           \o Section("aliases", <<Entry("zz", "api")>>),
         <<Open("aliases"), Entry("zz", "ci")>>, <<Close>>}

Words ==
  {"i", "is", "issues", "issuesx", "p", "pi", "pr", "pro", "pu", "re", "rep",
   "s", "st", "a", "ap", "c", "com", "v", "z", "zz", "zzz", "x", None}

Lookups ==
  {[Plain EXCEPT !.word = w, !.file = f] : w \in Words, f \in AliasFiles}

-----------------------------------------------------------------------------
Accounts ==
  Section("defaults", <<Entry("gitlab-default-account", "lab")>>)
    \o Section("lab", <<Entry("token", "t1"), Entry("api-base", "u1"),
                        Entry("apibase", "u2"), Entry("forge-type", "gitlab")>>)
    \o Section("hub", <<Entry("forge-type", "github"), Entry("token", "t2"),
                        Entry("token", "t3"), Entry("apibase", "u3")>>)
    \o Section("lab", <<Entry("token", "t4")>>)
    \o Section("bare", <<>>)

MCUrl(s, h, r) == [scheme |-> s, host |-> h, owner |-> "o", repo |-> r]
Git(n, u) == [name |-> n, url |-> u]
Core == Git(None, MCUrl("", "", ""))

Hub == Git("hub", MCUrl("https://", "github.com", "r1"))
Lab == Git("lab", MCUrl("git@", "gitlab.com", "r2"))
Own == Git("own", MCUrl("https://", "example.org", "r3"))
Ssh == Git("ssh", MCUrl("ssh://", "github.com", "r4"))
File == Git("file", MCUrl("file", "", "r5"))

Gits ==
  {<<None, None>>, <<None, <<Core, Hub, Lab>>, None>>,
   <<<<Core, Own, Lab>>, None>>, <<<<Core, File, Hub>>, None>>,
   <<<<Core, Lab, Ssh>>>>}

OddGits ==
  {<<None, None, <<Core, Hub>>>>, <<<<>>, None>>,
   <<<<Core, Hub, Lab, Own, Hub>>, None>>}

Upstream == Entry("pr.upstream", <<"up", "r">>)
NoDotgcli == <<None, None>>

Dotgclis ==
  {NoDotgcli, <<<<Upstream, Comment, Entry("pr.base", "main")>>, None>>,
   <<None, <<Entry("forge-type", "gitea"),
             Entry("pr.inhibit-delete-source-branch", "yes")>>, None>>}

OddDotgclis ==
  {<<None, None, <<Upstream>>>>, <<<<Upstream>>>>,
   <<<<Entry("forge-type", "bugzilla")>>, None>>,
   <<<<Entry("forge-type", "gitfoo")>>, None>>}

OptionLists ==
  {<<>>} \cup {<<o>> : o \in
      {Opt("account", "lab"), Opt("account", "bare"), Opt("type", "gitlab"),
       Opt("remote", "lab"), Opt("remote", "own"), Opt("remote", "nosuch")}}
  \cup {<<Opt("account", "hub"), Opt("account", "lab")>>,
        <<Opt("remote", "lab"), Opt("account", "hub")>>}

RejectedLists ==
  {<<Opt("type", "gitfoo")>>, <<Opt("version", None)>>, <<Opt("unknown", None)>>}

Paths ==
  {NoPath, [owner |-> "x", repo |-> "y", id |-> "7"],
   [owner |-> None, repo |-> None, id |-> "7"],
   [owner |-> None, repo |-> "y", id |-> None]}

Select(as, os, ds, gs, ps) ==
  {[Plain EXCEPT !.env.account = a, !.options = o, !.file = Accounts,
                 !.dotgcli = d, !.git = g, !.path = p] :
     a \in as, o \in os, d \in ds, g \in gs, p \in ps}

Selections ==
  Select({None, "hub"}, OptionLists, Dotgclis, Gits, {NoPath})
    \cup Select({None}, {<<>>, <<Opt("remote", "ssh")>>, <<Opt("remote", "file")>>},
               Dotgclis \cup OddDotgclis, Gits \cup OddGits, {NoPath})
    \cup Select({None}, {<<>>, <<Opt("type", "github")>>},
               Dotgclis \cup OddDotgclis, {<<<<Core, Hub>>, None>>}, Paths)
    \cup Select({"hub"}, RejectedLists, {NoDotgcli}, {NoDotgcli}, {NoPath})

-----------------------------------------------------------------------------
Values == {None, "yes", "y", "true", "0"}

Displays ==
  {[Plain EXCEPT !.env.nocolour = v, !.env.nospinner = v, !.env.markdown = v,
                 !.env.experimental = v, !.options = o, !.tty = t,
                 !.file = Section("defaults", f)] :
     v \in Values, t \in BOOLEAN,
     o \in {<<>>} \cup {<<Opt(f, None)>> :
              f \in {"c", "colours", "no-spinner", "no-markdown"}},
     f \in {<<>>} \cup {<<Entry("disable-spinner", w),
                          Entry("render-markdown", w),
                          Entry("enable-experimental", w)>> : w \in {"1", "0"}}}

MCInputs == Lookups \cup Selections \cup Displays

=============================================================================
