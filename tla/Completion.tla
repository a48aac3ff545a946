------------------------------ MODULE Completion ------------------------------
(***************************************************************************)
(* Tab completion, nfctl-cli/src/complete.rs.  Every Tab runs one process  *)
(* that scans the command line, takes names from the fixture on the line,  *)
(* from a cache file all shells share, or from the cluster within a time   *)
(* budget, and keeps quiet about whatever fails.                           *)
(*                                                                         *)
(* The system calls of one process interleave with those of the others;    *)
(* the wall clock may be set back; a process may be killed at any step.    *)
(***************************************************************************)
EXTENDS Integers, Sequences, FiniteSets, SequencesExt, FiniteSetsExt, TLC

CONSTANTS
  None,
  Torn,         \* file content that is no JSON document of a catalog
  Shells,       \* one Tab at a time in each
  CommandLines, \* set of [args, env, completer, fits]: env is [context,
                \* namespace, fixture, home], fits the names that start
                \* with the word typed so far
  Fixtures,     \* path -> lists of the file, Torn when it cannot be used
  Worlds,       \* what a cluster may hold: list -> sequence of entries
  World0,       \* what every cluster holds at first
  Descriptors,  \* the ones Hushed redirects: stdin and stderr
  Ttl,          \* CACHE_TTL
  LiveTimeout,  \* LIVE_TIMEOUT
  MaxTime,      \* bound: time that passes
  MaxSetBack,   \* bound: how far the wall clock is set back
  MaxTabs,      \* bound: Tabs pressed
  MaxChanges    \* bound: changes of a cluster

Kinds == {"pipelines", "monovertices", "isbs"}

ASSUME CompletionAssumption ==
  /\ Ttl \in Nat \ {0}
  /\ {LiveTimeout, MaxTime, MaxSetBack, MaxTabs, MaxChanges} \subseteq Nat
  /\ World0 \in Worlds
  /\ \A w \in Worlds : DOMAIN w = Kinds /\ \A k \in Kinds : w[k] \in Seq(ToSet(w[k]))
  /\ \A c \in CommandLines : /\ c.completer \in Kinds \cup {"vertices", "namespaces", "workloads"}
                             /\ c.args \in Seq(ToSet(c.args))

(***************************************************************************)
(* scan.  An argument is [form, flag, value]: form is "eq" for --f=v,      *)
(* "flag" for a flag alone, "-n" for -nv, "word" when no dash starts it.   *)
(* The value of a flag alone is the argument after it, whatever its form.  *)
(***************************************************************************)
VALUE_FLAGS == {"-n", "--namespace", "--context", "--fixture", "-o", "--output",
                "--request-timeout", "--daemon-url", "-c", "--container"}
ASSUME NoneIsNoFlag == None \notin VALUE_FLAGS

NoLine == [context |-> None, namespace |-> None, fixture |-> None, words |-> << >>]

SetFlag(l, flag, value) ==
  CASE flag \in {"-n", "--namespace"} -> [l EXCEPT !.namespace = value]
    [] flag = "--context" -> [l EXCEPT !.context = value]
    [] flag = "--fixture" -> [l EXCEPT !.fixture = value]
    [] OTHER -> l
Take(acc, arg) ==
  IF acc.flag # None
  THEN [line |-> SetFlag(acc.line, acc.flag, arg.value), flag |-> None]
  ELSE CASE arg.form \in {"eq", "-n"} -> [acc EXCEPT !.line = SetFlag(@, arg.flag, arg.value)]
         [] arg.form = "flag" /\ arg.flag \in VALUE_FLAGS -> [acc EXCEPT !.flag = arg.flag]
         [] arg.form = "word" -> [acc EXCEPT !.line.words = Append(@, arg.value)]
         [] OTHER -> acc
Scan(args) ==
  LET after[k \in 0..Len(args)] ==
        IF k = 0 THEN [line |-> NoLine, flag |-> None] ELSE Take(after[k - 1], args[k])
  IN after[Len(args)].line

(* current_line: the environment fills what the line leaves out. *)
CurrentLine(args, e) ==
  LET l == Scan(args)
      or(f) == IF l[f] # None THEN l[f] ELSE e[f]
  IN [words |-> l.words, home |-> e.home, context |-> or("context"),
      namespace |-> or("namespace"), fixture |-> or("fixture")]

(* The flags of cli.rs that take a value: everywhere, and by subcommand. *)
GlobalValueFlags == {"-n", "--namespace", "--context", "--request-timeout", "-o", "--output",
                     "--daemon-url", "--fixture"}
OwnValueFlags ==
  [dag |-> {"-f", "--format", "-w", "--width"}, logs |-> {"-c", "--container", "--since", "--tail"},
   top |-> {"-i", "--interval"}, pause |-> {"--timeout"}, resume |-> {"-s", "--strategy"},
   recycle |-> {"--timeout"}, wait |-> {"-p", "--phase", "--timeout"},
   apply |-> {"-f", "--file"}, mvtx |-> {"--tail"}, tui |-> {"-i", "--interval"}]
Subcommand(args) ==
  LET at == SelectInSeq(args, LAMBDA a : a.form = "word" /\ a.value \in DOMAIN OwnValueFlags)
  IN IF at = 0 THEN {} ELSE OwnValueFlags[args[at].value]

(* What clap takes for positionals: the words that are not the value of    *)
(* the flag before them.                                                   *)
Valued(args, i) ==
  i \in DOMAIN args /\ args[i].form = "flag" /\ args[i].flag \in GlobalValueFlags \cup Subcommand(args)
Positionals(args) ==
  FlattenSeq([i \in DOMAIN args |-> IF args[i].form = "word" /\ ~Valued(args, i - 1)
                                    THEN <<args[i].value>> ELSE << >>])

(***************************************************************************)
(* A catalog holds the entries [name, namespace, vertices] of the three    *)
(* lists; since, for the properties only, is when they were asked for.     *)
(***************************************************************************)
NoLists == [k \in Kinds |-> << >>]
Catalog(lists, since) == [lists |-> lists, since |-> since]
Empty == Catalog(NoLists, None)
Size(c) == Len(c.lists.pipelines) + Len(c.lists.monovertices) + Len(c.lists.isbs)

Candidates(entries, fits, namespace) ==
  {e.name : e \in {x \in ToSet(entries) : /\ namespace = None \/ x.namespace \in {namespace, None}
                                          /\ x.name \in fits}}
Vertices(c, l, fits) ==
  IF Len(l.words) < 2 THEN {}
  ELSE fits \cap UNION {ToSet(e.vertices) : e \in {x \in ToSet(c.lists.pipelines) :
                          x.name = l.words[2] /\ l.namespace \in {None, x.namespace}}}
Workloads(c) == c.lists.pipelines \o c.lists.monovertices

(* What a completer offers from a catalog. *)
Offer(completer, c, l, fits) ==
  CASE completer = "vertices" -> Vertices(c, l, fits)
    [] completer = "namespaces" -> fits \cap {e.namespace : e \in ToSet(Workloads(c))}
    [] completer = "workloads" -> Candidates(Workloads(c), fits, l.namespace)
    [] OTHER -> Candidates(c.lists[completer], fits, l.namespace)
-----------------------------------------------------------------------------
VARIABLES
  world,         \* context -> what its cluster holds
  elapsed, back, \* time that passed, and how far the wall clock was set back
  file,          \* path -> [text, size, modified], None when there is no file
  tabs,
  \* of each process
  pc, command, line,
  stat,          \* modification time read, None when the file has none
  cached,        \* catalog read from the file, None when there was none
  began, during, \* when the lookup began, what the cluster has been since
  found,         \* the catalog the lookup came back with
  nulled,        \* descriptors that point to /dev/null
  child,         \* terminal descriptors the running plugin was started with
  answer,        \* [offers, age, from]
  \* histories
  ever,          \* worlds each cluster has been
  refused        \* descriptors the system would not redirect

clock == <<elapsed, back>>
lookup == <<cached, began, during, found>>
terminal == <<nulled, child, refused>>
process == <<pc, command, line, stat, lookup, terminal, answer>>
vars == <<world, clock, file, tabs, process, ever>>

Contexts == {CurrentLine(c.args, c.env).context : c \in CommandLines}
Now == elapsed - back

Init ==
  /\ world = [c \in Contexts |-> World0] /\ ever = [c \in Contexts |-> {world[c]}]
  /\ elapsed = 0 /\ back = 0 /\ tabs = 0
  /\ file = [c \in Contexts |-> None]
  /\ pc = [s \in Shells |-> "idle"] /\ command = [s \in Shells |-> None]
  /\ line = [s \in Shells |-> None] /\ stat = [s \in Shells |-> None]
  /\ cached = [s \in Shells |-> None] /\ began = [s \in Shells |-> 0]
  /\ during = [s \in Shells |-> {}] /\ found = [s \in Shells |-> None] /\ nulled = [s \in Shells |-> {}]
  /\ child = [s \in Shells |-> None] /\ answer = [s \in Shells |-> None]
  /\ refused = [s \in Shells |-> {}]

Goto(s, label) == pc' = [pc EXCEPT ![s] = label]
(* A process takes what it has read with it when it ends. *)
Forget(s) ==
  /\ stat' = [stat EXCEPT ![s] = None] /\ cached' = [cached EXCEPT ![s] = None]
  /\ began' = [began EXCEPT ![s] = 0] /\ during' = [during EXCEPT ![s] = {}]
  /\ found' = [found EXCEPT ![s] = None]
Answer(s, c, from) ==
  /\ Goto(s, "done") /\ Forget(s)
  /\ answer' = [answer EXCEPT ![s] =
       [offers |-> Offer(command[s].completer, c, line[s], command[s].fits),
        age |-> IF c.since = None THEN 0 ELSE elapsed - c.since, from |-> from]]

(***************************************************************************)
(* catalog: the fixture, else a fresh cache, else the cluster, else the    *)
(* stale cache, else nothing.  Vertices of no pipeline are not looked for. *)
(***************************************************************************)
Press(s, c) ==
  /\ pc[s] \in {"idle", "done"} /\ tabs < MaxTabs
  /\ tabs' = tabs + 1 /\ Goto(s, "begin")
  /\ command' = [command EXCEPT ![s] = c]
  /\ line' = [line EXCEPT ![s] = CurrentLine(c.args, c.env)]
  /\ answer' = [answer EXCEPT ![s] = None]
  /\ UNCHANGED <<world, clock, file, stat, lookup, terminal, ever>>

(* The path of the cache has the context in it; without a home there is    *)
(* none.                                                                   *)
(* Faulty variant: all contexts share one file.                            *)
OnePath(l) == IF l.home THEN CHOOSE c \in Contexts : TRUE ELSE None
CachePath(l) == IF l.home THEN l.context ELSE None

Begin(s) ==
  /\ pc[s] = "begin"
  /\ LET f == line[s].fixture
         path == CachePath(line[s])
     IN IF command[s].completer = "vertices" /\ Len(line[s].words) < 2
        THEN Answer(s, Empty, "nothing")
        ELSE IF f # None
        THEN Answer(s, IF Fixtures[f] = Torn THEN Empty ELSE Catalog(Fixtures[f], None), "fixture")
        ELSE IF path = None \/ file[path] = None
        THEN Goto(s, "hush") /\ UNCHANGED <<stat, lookup, answer>>
        ELSE /\ stat' = [stat EXCEPT ![s] = file[path].modified]
             /\ Goto(s, "read") /\ UNCHANGED <<lookup, answer>>
  /\ UNCHANGED <<world, clock, file, tabs, command, line, terminal, ever>>

Fresh(modified, now) == now < modified \/ now - modified < Ttl

Writing(path) == \E s \in Shells : pc[s] = "write" /\ CachePath(line[s]) = path

(* The text is read after the time of the file was; while another process  *)
(* writes, a part of it may be all there is.                               *)
ReadCache(s) ==
  /\ pc[s] = "read"
  /\ LET path == CachePath(line[s])
     IN \E text \in {file[path].text} \cup (IF Writing(path) THEN {Torn} ELSE {}) :
          IF text # Torn /\ Fresh(stat[s], Now) THEN Answer(s, text, "cache")
          ELSE /\ cached' = [cached EXCEPT ![s] = IF text = Torn THEN None ELSE text]
               /\ Goto(s, "hush") /\ UNCHANGED <<stat, began, during, found, answer>>
  /\ UNCHANGED <<world, clock, file, tabs, command, line, terminal, ever>>

(***************************************************************************)
(* live: quiet, connect and ask for the three lists at once, on a runtime  *)
(* of one thread.                                                          *)
(***************************************************************************)
(* Hushed::new: a descriptor that cannot be kept or redirected is left.    *)
(* The timer starts.  To connect, the kube client may run a credential     *)
(* plugin, which gets the descriptors of the process as they are then, and *)
(* whose end the one thread waits for inside Client::try_from.             *)
Ask(s) == Goto(s, "live") /\ during' = [during EXCEPT ![s] = {world[line[s].context]}]
Connect(s, open) ==
  /\ began' = [began EXCEPT ![s] = elapsed]
  /\ \E plugin \in {None, open} :
       /\ child' = [child EXCEPT ![s] = plugin]
       /\ IF plugin = None THEN Ask(s) ELSE Goto(s, "connect") /\ UNCHANGED during
(* Faulty variant: the guard is dropped where it is made.                  *)
HushAndDrop(s) ==
  /\ pc[s] = "hush"
  /\ \E no \in SUBSET Descriptors : refused' = [refused EXCEPT ![s] = no]
  /\ Connect(s, Descriptors)
  /\ UNCHANGED <<world, clock, file, tabs, command, line, stat, cached, found, nulled, answer, ever>>
Hush(s) ==
  /\ pc[s] = "hush"
  /\ \E no \in SUBSET Descriptors :
       /\ refused' = [refused EXCEPT ![s] = no] /\ nulled' = [nulled EXCEPT ![s] = Descriptors \ no]
       /\ Connect(s, no)
  /\ UNCHANGED <<world, clock, file, tabs, command, line, stat, cached, found, answer, ever>>

(* The plugin ends, whenever it likes: only now are the lists asked for.   *)
PluginExits(s) ==
  /\ pc[s] = "connect" /\ Ask(s)
  /\ child' = [child EXCEPT ![s] = None]
  /\ UNCHANGED <<world, clock, file, tabs, command, line, stat, cached, began, found, nulled,
                 answer, refused, ever>>

(* Hushed::drop, before anything else is done with what the lookup gave.   *)
Unhush(s) == /\ nulled' = [nulled EXCEPT ![s] = {}] /\ refused' = [refused EXCEPT ![s] = {}]
             /\ child' = [child EXCEPT ![s] = None]

(* The three answers come one by one, each of its own moment: any of what  *)
(* the cluster has been since it was asked.  Lists asked for when the time *)
(* was over already do not come before the timer is looked at.             *)
ListsAnswer(s) ==
  /\ pc[s] = "live" /\ elapsed - began[s] <= LiveTimeout
  /\ \E of \in [Kinds -> during[s]] :
       LET c == Catalog([k \in Kinds |-> of[k][k]], began[s])
       IN IF CachePath(line[s]) = None THEN Answer(s, c, "cluster")
          ELSE /\ found' = [found EXCEPT ![s] = c] /\ Goto(s, "open")
               /\ UNCHANGED <<stat, cached, began, during, answer>>
  /\ Unhush(s)
  /\ UNCHANGED <<world, clock, file, tabs, command, line, ever>>

(* No connection, an error of one list, or no time left: what the file had *)
(* whatever its age, or nothing.                                           *)
GiveUp(s) ==
  /\ Unhush(s)
  /\ Answer(s, IF cached[s] = None THEN Empty ELSE cached[s], "stale")
  /\ UNCHANGED <<world, clock, file, tabs, command, line, ever>>
LookupFails(s) == pc[s] = "live" /\ GiveUp(s)
(* The thread looks at the timer when it waits for the lists, never while  *)
(* it waits for the plugin.                                                *)
(* Faulty variant: the timer is put around connecting alone.               *)
TimesOutConnecting(s) == pc[s] = "connect" /\ elapsed - began[s] >= LiveTimeout /\ GiveUp(s)
TimesOut(s) == pc[s] = "live" /\ elapsed - began[s] >= LiveTimeout /\ GiveUp(s)

(* write_cache: the file is emptied when it is opened and then written     *)
(* from its start; of two texts written over each other the end of the     *)
(* longer one stays.  Failures are passed over.                            *)
Put(path, text, size) == file' = [file EXCEPT ![path] = [text |-> text, size |-> size, modified |-> Now]]
OpenCache(s) ==
  /\ pc[s] = "open"
  /\ Put(CachePath(line[s]), Torn, 0)
  /\ Goto(s, "write")
  /\ UNCHANGED <<world, clock, tabs, command, line, stat, lookup, terminal, answer, ever>>
(* Faulty variant: what is left of a longer text is not reckoned with. *)
WriteOver(s) ==
  /\ pc[s] = "write"
  /\ LET path == CachePath(line[s])
     IN Put(path, found[s], Max({file[path].size, Size(found[s])}))
  /\ Answer(s, found[s], "cluster")
  /\ UNCHANGED <<world, clock, tabs, command, line, terminal, ever>>
WriteCache(s) ==
  /\ pc[s] = "write"
  /\ LET path == CachePath(line[s])
         longer == file[path].size > Size(found[s])
     IN IF longer THEN Put(path, Torn, file[path].size) ELSE Put(path, found[s], Size(found[s]))
  /\ Answer(s, found[s], "cluster")
  /\ UNCHANGED <<world, clock, tabs, command, line, terminal, ever>>
WriteFails(s) ==
  /\ pc[s] \in {"open", "write"}
  /\ Answer(s, found[s], "cluster")
  /\ UNCHANGED <<world, clock, file, tabs, command, line, terminal, ever>>

(* The shell gives up on a process, which dies with its descriptors.       *)
Killed(s) ==
  /\ pc[s] \notin {"idle", "done"}
  /\ Goto(s, "idle") /\ Forget(s) /\ Unhush(s)
  /\ command' = [command EXCEPT ![s] = None] /\ line' = [line EXCEPT ![s] = None]
  /\ UNCHANGED <<world, clock, file, tabs, answer, ever>>

(***************************************************************************)
(* The rest of the world.  Time passes while processes wait for a plugin   *)
(* or the cluster; what they do on their own takes none, and the timer of  *)
(* a process that waits for the cluster is not late.                       *)
(***************************************************************************)
Tick ==
  /\ elapsed < MaxTime
  /\ \A s \in Shells : \/ pc[s] \in {"idle", "done", "connect"}
                       \/ pc[s] = "live" /\ elapsed - began[s] < LiveTimeout
  /\ elapsed' = elapsed + 1
  /\ UNCHANGED <<world, back, file, tabs, process, ever>>
SetClockBack ==
  /\ back < MaxSetBack /\ back' = back + 1
  /\ UNCHANGED <<world, elapsed, file, tabs, process, ever>>
ClusterChanges(c) ==
  /\ MapThenSumSet(LAMBDA x : Cardinality(ever[x]) - 1, Contexts) < MaxChanges
  /\ \E w \in Worlds \ ever[c] :
       /\ world' = [world EXCEPT ![c] = w] /\ ever' = [ever EXCEPT ![c] = @ \cup {w}]
       /\ during' = [s \in Shells |-> IF pc[s] = "live" /\ line[s].context = c
                                      THEN during[s] \cup {w} ELSE during[s]]
  /\ UNCHANGED <<clock, file, tabs, pc, command, line, stat, cached, began, found, terminal, answer>>

Local(s) == Begin(s) \/ ReadCache(s) \/ Hush(s) \/ OpenCache(s) \/ WriteCache(s)
Step(s) ==
  \/ \E c \in CommandLines : elapsed + LiveTimeout <= MaxTime /\ Press(s, c)
  \/ Local(s) \/ PluginExits(s)
  \/ ListsAnswer(s) \/ LookupFails(s) \/ TimesOut(s) \/ WriteFails(s) \/ Killed(s)
Next ==
  \/ \E s \in Shells : Step(s)
  \/ Tick \/ SetClockBack
  \/ \E c \in Contexts : ClusterChanges(c)

(* A process that can run runs, time passes, and the timer fires; whether  *)
(* the cluster ever answers, or the plugin ever ends, is open.             *)
Fairness == WF_vars(Tick) /\ \A s \in Shells : WF_vars(Local(s)) /\ WF_vars(TimesOut(s))
Spec == Init /\ [][Next]_vars /\ Fairness
-----------------------------------------------------------------------------
(***************************************************************************)
(* Properties.                                                             *)
(***************************************************************************)
CompletionTypeOK ==
  /\ \A c \in Contexts : file[c] # None =>
       /\ file[c].modified <= elapsed
       /\ file[c].text # Torn => file[c].size = Size(file[c].text)
  /\ \A s \in Shells :
       /\ pc[s] \in {"idle", "begin", "read", "hush", "connect", "live", "open", "write", "done"}
       /\ (pc[s] = "done") => answer[s] # None
       /\ pc[s] \in {"open", "write"} => found[s] # None

(* Whatever other shells do to the file between two calls of this one, a   *)
(* name that is offered was in the cluster (or the fixture) the line is    *)
(* about, and never part of a torn file (complete.rs:192-206, :300).       *)
Sources(l) ==
  IF l.fixture # None THEN {Fixtures[l.fixture]} \ {Torn}
  ELSE {[k \in Kinds |-> w[k]] : w \in ever[l.context]}
NamesAreReal ==
  \A s \in Shells : pc[s] = "done" =>
    \A n \in answer[s].offers : \E w \in Sources(line[s]) :
      n \in Offer(command[s].completer, Catalog(w, None), line[s], command[s].fits)

(* Unless the cluster gave this process nothing, what it offers was asked  *)
(* for less than CACHE_TTL and the time of one lookup ago, and longer only *)
(* by as much as the wall clock was set back (complete.rs:180, :300-325).  *)
NamesAreRecent ==
  \A s \in Shells : pc[s] = "done" /\ answer[s].from # "stale" =>
    answer[s].age < Ttl + LiveTimeout + back

(* A credential plugin has the terminal only where the system refused to   *)
(* redirect the descriptor, and outside the lookup the process has its     *)
(* terminal back (complete.rs:209-293).                                    *)
TerminalIsKept ==
  \A s \in Shells :
    /\ child[s] # None => child[s] \subseteq refused[s]
    /\ pc[s] \notin {"connect", "live"} => nulled[s] = {}

(* What a completer takes for positionals are the positionals of the line  *)
(* ("Flags that take a value, so the value is not mistaken for a           *)
(* positional", complete.rs:37), unless the line has a flag with a value   *)
(* that is not among those flags.                                          *)
Unknown(args) ==
  \E a \in ToSet(args) :
    a.form = "flag" /\ a.flag \in (GlobalValueFlags \cup Subcommand(args)) \ VALUE_FLAGS
WordsArePositionals ==
  \A s \in Shells : pc[s] = "begin" =>
    Unknown(command[s].args) \/ line[s].words = Positionals(command[s].args)

(* The lines clap can parse: a flag with a value has one that no dash      *)
(* starts, or stands last, and belongs to the subcommand.                  *)
LinesParse ==
  \A c \in CommandLines : \A i \in DOMAIN c.args :
    LET a == c.args[i]
    IN a.form = "flag" /\ a.flag \in VALUE_FLAGS =>
         /\ Valued(c.args, i)
         /\ i + 1 \in DOMAIN c.args => c.args[i + 1].form = "word"

(* The three together: a Tab offers names of what the line is about.       *)
NamesAreHonest == NamesAreReal /\ NamesAreRecent /\ WordsArePositionals

(* A Tab gets its answer, or the shell gives up on it, however long the    *)
(* cluster takes (complete.rs:288-292).  Only a credential plugin that     *)
(* never ends keeps one: nothing bounds the wait for it.                   *)
TabsAnswer ==
  \A s \in Shells :
    []<>(pc[s] # "connect") => ((pc[s] = "begin") ~> (pc[s] \in {"idle", "done"}))
=============================================================================
