----------------------------- MODULE MCCompletion -----------------------------
(***************************************************************************)
(* Two shells that complete names of two contexts, one of them set by the  *)
(* environment.                                                            *)
(***************************************************************************)
EXTENDS Completion

Entry(name, namespace, vertices) == [name |-> name, namespace |-> namespace, vertices |-> vertices]
World(ps, ms) == [pipelines |-> ps, monovertices |-> ms, isbs |-> << >>]
MCWorlds == {World(<<Entry("p", "n1", <<"in">>), Entry("q", "n2", <<"out">>)>>, << >>),
             World(<<Entry("p", "n1", <<"cat">>)>>, << >>)}
MCWorld0 == CHOOSE w \in MCWorlds : Len(w.pipelines) = 1
MCFixtures == [demo |-> World(<<Entry("f", "n1", <<"in">>)>>, <<Entry("m", "n1", << >>)>>), bad |-> Torn]

Names == {"p", "q", "f", "m", "in", "out", "cat", "n1", "n2"}
Word(w) == [form |-> "word", flag |-> None, value |-> w]
Flag(f) == [form |-> "flag", flag |-> f, value |-> f]
Eq(f, v) == [form |-> "eq", flag |-> f, value |-> v]
Env(home) == [context |-> "dev", namespace |-> None, fixture |-> None, home |-> home]
Tab(args, home, completer, fits) ==
  [args |-> args, env |-> Env(home), completer |-> completer, fits |-> fits]

MCCommandLines ==
  {Tab(<<Word("get")>>, TRUE, "workloads", Names),
   Tab(<<Eq("--context", "prod"), Word("logs"), Flag("-c"), Word("udf"), Word("p")>>, TRUE, "vertices", Names),
   Tab(<<Word("logs")>>, TRUE, "vertices", Names),
   Tab(<<Flag("-n"), Word("n1"), Word("status")>>, FALSE, "pipelines", {"p"}),
   Tab(<<Word("mvtx"), Word("logs"), Flag("--tail"), Word("5"), Eq("--fixture", "demo")>>, TRUE, "monovertices", Names)}
\* The lines are ones that clap can parse.
ASSUME MCLinesParse == LinesParse
=============================================================================
