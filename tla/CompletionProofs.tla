--------------------------- MODULE CompletionProofs ---------------------------
(***************************************************************************)
(* Proofs about tab completion: for every set of command lines, fixtures   *)
(* and worlds, any number of shells, and whatever the clusters, the wall   *)
(* clock and the other shells do to the one cache file, a name that is     *)
(* offered was in the cluster the line is about and was asked for          *)
(* recently, and no credential plugin gets the terminal.                   *)
(*                                                                         *)
(* The invariant says of every catalog that is on its way into an answer   *)
(* what the answer must be: that each of its lists was the cluster's, and  *)
(* how old they may be.  The file is one of the places it passes.  That    *)
(* the words of a line are its positionals is about the scanner alone.     *)
(***************************************************************************)
EXTENDS Completion, FiniteSetTheorems, WellFoundedInduction, TLAPS

(* "No value" is none of the records it stands in for. *)
NoneIsNoRecord ==
  /\ \A lists, since : None # Catalog(lists, since)
  /\ \A text, size, modified : None # [text |-> text, size |-> size, modified |-> modified]
  /\ \A offers, age, from : None # [offers |-> offers, age |-> age, from |-> from]

-----------------------------------------------------------------------------
(* The inductive invariant.                                                *)

Labels == {"idle", "begin", "read", "hush", "connect", "live", "open", "write", "done"}

FunctionsInv ==
  /\ DOMAIN world = Contexts /\ DOMAIN ever = Contexts /\ DOMAIN file = Contexts
  /\ DOMAIN pc = Shells /\ DOMAIN command = Shells /\ DOMAIN line = Shells
  /\ DOMAIN stat = Shells /\ DOMAIN cached = Shells /\ DOMAIN began = Shells
  /\ DOMAIN during = Shells /\ DOMAIN found = Shells /\ DOMAIN nulled = Shells
  /\ DOMAIN child = Shells /\ DOMAIN answer = Shells /\ DOMAIN refused = Shells

ClockInv == elapsed \in Nat /\ back \in Nat

WorldInv == \A c \in Contexts : world[c] \in ever[c] /\ ever[c] \subseteq Worlds

\* Each list of a catalog was that of one of the worlds.
Real(catalog, worlds) == \A k \in Kinds : \E w \in worlds : catalog.lists[k] = w[k]

\* A catalog that was asked for no longer ago than one lookup takes.
New(catalog) ==
  /\ catalog.since \in Nat
  /\ catalog.since <= elapsed /\ elapsed <= catalog.since + LiveTimeout

\* What a file holds is torn, or a real catalog, of its size, and asked for no
\* longer before the date of the file than one lookup takes.
FileOK(c) ==
  LET f == file[c]
  IN /\ f.modified \in Int /\ f.modified <= elapsed
     /\ \/ f.text = Torn
        \/ /\ Real(f.text, ever[c]) /\ f.size = Size(f.text)
           /\ f.text.since \in Nat /\ f.text.since <= elapsed
           /\ f.modified <= f.text.since + LiveTimeout
FileInv == \A c \in Contexts : file[c] = None \/ FileOK(c)

LineOK(s) ==
  pc[s] # "idle" => /\ command[s] \in CommandLines
                    /\ line[s] = CurrentLine(command[s].args, command[s].env)

LookupOK(s) ==
  pc[s] \in {"read", "hush", "connect", "live", "open", "write"} => line[s].fixture = None

\* The file a process is about to read is the one whose date it knows, unless it
\* was written since.
ReadOK(s) ==
  LET path == CachePath(line[s])
  IN pc[s] = "read" =>
       /\ path # None /\ file[path] # None
       /\ \/ file[path].modified = stat[s]
          \/ file[path].text = Torn
          \/ New(file[path].text)

CachedOK(s) ==
  /\ pc[s] \in {"idle", "begin", "read", "done"} => cached[s] = None
  /\ pc[s] \in {"hush", "connect", "live"} => cached[s] = None \/ Real(cached[s], ever[line[s].context])

LiveOK(s) ==
  /\ pc[s] \in {"connect", "live"} => began[s] \in Nat /\ began[s] <= elapsed
  /\ pc[s] = "live" => during[s] \subseteq ever[line[s].context]

FoundOK(s) ==
  pc[s] \in {"open", "write"} =>
    /\ CachePath(line[s]) # None
    /\ found[s] # None /\ Real(found[s], ever[line[s].context]) /\ New(found[s])

\* What is offered, and how old it is.
RealOffers(s, offers) ==
  \A n \in offers : \E w \in Sources(line[s]) :
    n \in Offer(command[s].completer, Catalog(w, None), line[s], command[s].fits)
AnswerOK(s) ==
  pc[s] = "done" =>
    /\ answer[s] # None
    /\ RealOffers(s, answer[s].offers)
    /\ answer[s].from # "stale" =>
         answer[s].age \in Int /\ answer[s].age < Ttl + LiveTimeout + back

ProcessOK(s) ==
  /\ pc[s] \in Labels
  /\ LineOK(s) /\ LookupOK(s) /\ ReadOK(s) /\ CachedOK(s)
  /\ LiveOK(s) /\ FoundOK(s) /\ AnswerOK(s)

IInv ==
  /\ FunctionsInv /\ ClockInv /\ WorldInv /\ FileInv /\ TerminalIsKept
  /\ \A s \in Shells : ProcessOK(s)

-----------------------------------------------------------------------------
(* Sequences.                                                              *)

LEMMA SeqOfMore ==
  ASSUME NEW S, NEW T, S \subseteq T, NEW q \in Seq(S)
  PROVE  q \in Seq(T)
OBVIOUS

LEMMA ToSetOfBoth ==
  ASSUME NEW S, NEW a \in Seq(S), NEW b \in Seq(S)
  PROVE  ToSet(a \o b) = ToSet(a) \cup ToSet(b)
<1>1. DOMAIN a = 1..Len(a) /\ DOMAIN b = 1..Len(b) /\ Len(a) \in Nat /\ Len(b) \in Nat
  OBVIOUS
<1>2. DOMAIN (a \o b) = 1..Len(a) + Len(b)
  OBVIOUS
<1>3. ASSUME NEW i \in DOMAIN a
      PROVE  i \in DOMAIN (a \o b) /\ (a \o b)[i] = a[i]
  BY <1>1, <1>2
<1>4. ASSUME NEW i \in DOMAIN b
      PROVE  Len(a) + i \in DOMAIN (a \o b) /\ (a \o b)[Len(a) + i] = b[i]
  BY <1>1, <1>2
<1>5. ASSUME NEW i \in DOMAIN (a \o b)
      PROVE  (a \o b)[i] \in ToSet(a) \cup ToSet(b)
  <2>1. CASE i <= Len(a)
    BY <1>1, <1>2, <2>1 DEF ToSet
  <2>2. CASE ~(i <= Len(a))
    <3>1. i - Len(a) \in DOMAIN b /\ (a \o b)[i] = b[i - Len(a)]
      BY <1>1, <1>2, <2>2
    <3> QED BY <3>1 DEF ToSet
  <2> QED BY <2>1, <2>2
<1> DEFINE both == a \o b
<1>6. \A x \in ToSet(a) : x \in ToSet(both)
  BY <1>3 DEF ToSet
<1>7. \A x \in ToSet(b) : x \in ToSet(both)
  BY <1>4 DEF ToSet
<1>8. \A x \in ToSet(both) : x \in ToSet(a) \cup ToSet(b)
  BY <1>5 DEF ToSet
<1> HIDE DEF both
<1>9. ToSet(both) = ToSet(a) \cup ToSet(b)
  BY <1>6, <1>7, <1>8
<1> QED BY <1>9 DEF both
-----------------------------------------------------------------------------
(* What a completer offers.                                                *)

Completers == Kinds \cup {"vertices", "namespaces", "workloads"}
Listing(c) == \A k \in Kinds : c.lists[k] \in Seq(ToSet(c.lists[k]))

LEMMA EntriesOfBoth ==
  ASSUME NEW c, Listing(c)
  PROVE  ToSet(Workloads(c)) = ToSet(c.lists.pipelines) \cup ToSet(c.lists.monovertices)
<1> DEFINE a == c.lists.pipelines
           b == c.lists.monovertices
           S == ToSet(a) \cup ToSet(b)
<1>1. a \in Seq(S) /\ b \in Seq(S)
  <2>1. a \in Seq(ToSet(a)) /\ b \in Seq(ToSet(b))
    BY DEF Listing, Kinds
  <2> QED BY <2>1, SeqOfMore
<1>2. ToSet(a \o b) = ToSet(a) \cup ToSet(b)
  <2> HIDE DEF a, b, S
  <2> QED BY <1>1, ToSetOfBoth
<1> QED BY <1>2 DEF Workloads

\* Whatever is offered is offered for one of the lists.
LEMMA OfferOfOneList ==
  ASSUME NEW completer \in Completers, NEW c, Listing(c), NEW l, NEW fits,
         NEW n \in Offer(completer, c, l, fits)
  PROVE  \E k \in Kinds : \A d : Listing(d) /\ d.lists[k] = c.lists[k] =>
           n \in Offer(completer, d, l, fits)
<1>1. CASE completer = "vertices"
  <2>1. n \in Vertices(c, l, fits)
    BY <1>1 DEF Offer
  <2>2. ASSUME NEW d, d.lists["pipelines"] = c.lists["pipelines"]
        PROVE  n \in Offer(completer, d, l, fits)
    BY <1>1, <2>1, <2>2 DEF Offer, Vertices
  <2> QED BY <2>2 DEF Kinds
<1>2. CASE completer = "namespaces"
  <2>1. PICK e \in ToSet(Workloads(c)) : n = e.namespace /\ n \in fits
    BY <1>2 DEF Offer
  <2>2. PICK k \in {"pipelines", "monovertices"} : e \in ToSet(c.lists[k])
    BY <2>1, EntriesOfBoth
  <2>3. ASSUME NEW d, Listing(d), d.lists[k] = c.lists[k]
        PROVE  n \in Offer(completer, d, l, fits)
    <3>1. e \in ToSet(Workloads(d))
      BY <2>2, <2>3, EntriesOfBoth
    <3> QED BY <1>2, <2>1, <3>1 DEF Offer
  <2> QED BY <2>3 DEF Kinds
<1>3. CASE completer = "workloads"
  <2>1. PICK e \in ToSet(Workloads(c)) :
          /\ n = e.name /\ n \in fits
          /\ l.namespace = None \/ e.namespace \in {l.namespace, None}
    BY <1>3 DEF Offer, Candidates
  <2>2. PICK k \in {"pipelines", "monovertices"} : e \in ToSet(c.lists[k])
    BY <2>1, EntriesOfBoth
  <2>3. ASSUME NEW d, Listing(d), d.lists[k] = c.lists[k]
        PROVE  n \in Offer(completer, d, l, fits)
    <3>1. e \in ToSet(Workloads(d))
      BY <2>2, <2>3, EntriesOfBoth
    <3>2. n \in Candidates(Workloads(d), fits, l.namespace)
      BY <2>1, <3>1 DEF Candidates
    <3> QED BY <1>3, <3>2 DEF Offer
  <2> QED BY <2>3 DEF Kinds
<1>4. CASE completer \in Kinds
  <2>1. completer \notin {"vertices", "namespaces", "workloads"}
    BY <1>4 DEF Kinds
  <2>2. \A d : Offer(completer, d, l, fits) = Candidates(d.lists[completer], fits, l.namespace)
    BY <2>1 DEF Offer
  <2> QED BY <1>4, <2>2
<1> QED BY <1>1, <1>2, <1>3, <1>4 DEF Completers

\* Nothing is offered from a catalog without entries.
LEMMA NothingOfEmpty ==
  ASSUME NEW completer \in Completers, NEW l, NEW fits
  PROVE  Offer(completer, Empty, l, fits) = {}
<1>1. \A k \in Kinds : Empty.lists[k] = << >>
  BY DEF Empty, Catalog, NoLists
<1>2. ToSet(<< >>) = {}
  BY DEF ToSet
<1>3. Listing(Empty)
  <2>1. << >> \in Seq(ToSet(<< >>))
    BY <1>2
  <2> QED BY <1>1, <2>1 DEF Listing
<1>4. Listing(Empty) => ToSet(Workloads(Empty)) = {}
  BY <1>1, <1>2, EntriesOfBoth DEF Kinds
<1>5. ToSet(Workloads(Empty)) = {} /\ ToSet(Empty.lists.pipelines) = {}
  BY <1>1, <1>2, <1>3, <1>4 DEF Kinds
<1>6. CASE completer = "vertices"
  BY <1>5, <1>6 DEF Offer, Vertices
<1>7. CASE completer = "namespaces"
  BY <1>5, <1>7 DEF Offer
<1>8. CASE completer = "workloads"
  BY <1>5, <1>8 DEF Offer, Candidates
<1>9. CASE completer \in Kinds
  <2>1. completer \notin {"vertices", "namespaces", "workloads"}
    BY <1>9 DEF Kinds
  <2>2. Offer(completer, Empty, l, fits) = Candidates(<< >>, fits, l.namespace)
    BY <1>1, <1>9, <2>1 DEF Offer
  <2> QED BY <1>2, <2>2 DEF Candidates
<1> QED BY <1>6, <1>7, <1>8, <1>9 DEF Completers

\* What a catalog that was the cluster's list by list offers is real.
LEMMA RealCatalogOffers ==
  ASSUME WorldInv, NEW s, NEW c, command[s].completer \in Completers,
         line[s].fixture = None, line[s].context \in Contexts, Real(c, ever[line[s].context])
  PROVE  RealOffers(s, Offer(command[s].completer, c, line[s], command[s].fits))
<1> DEFINE l == line[s]
           completer == command[s].completer
           fits == command[s].fits
<1> SUFFICES ASSUME NEW n \in Offer(completer, c, l, fits)
             PROVE  \E w \in Sources(l) : n \in Offer(completer, Catalog(w, None), l, fits)
  BY DEF RealOffers
<1>1. \A w \in ever[l.context] : \A k \in Kinds : w[k] \in Seq(ToSet(w[k]))
  BY CompletionAssumption DEF CompletionAssumption, WorldInv
<1>2. Listing(c)
  BY <1>1 DEF Listing, Real
<1>3. PICK k \in Kinds : \A d : Listing(d) /\ d.lists[k] = c.lists[k] =>
                           n \in Offer(completer, d, l, fits)
  <2> HIDE DEF l, completer, fits
  <2> QED BY <1>2, OfferOfOneList DEF completer
<1>4. PICK w \in ever[l.context] : c.lists[k] = w[k]
  BY DEF Real
<1> DEFINE lists == [x \in Kinds |-> w[x]]
           d == Catalog(lists, None)
<1>5. d.lists = lists
  BY DEF Catalog
<1>6. d.lists[k] = c.lists[k] /\ Listing(d)
  BY <1>1, <1>4, <1>5 DEF Listing
<1>7. n \in Offer(completer, d, l, fits)
  BY <1>3, <1>6
<1>8. lists \in Sources(l)
  BY DEF Sources
<1> QED BY <1>7, <1>8
-----------------------------------------------------------------------------
(* What a step leaves alone.                                               *)

Rests(t) ==
  /\ pc'[t] = pc[t] /\ command'[t] = command[t] /\ line'[t] = line[t]
  /\ stat'[t] = stat[t] /\ cached'[t] = cached[t] /\ began'[t] = began[t]
  /\ found'[t] = found[t] /\ answer'[t] = answer[t]
Same(t) == Rests(t) /\ during'[t] = during[t]

LEMMA RealOfMore ==
  ASSUME NEW catalog, NEW V, NEW W, V \subseteq W, Real(catalog, V)
  PROVE  Real(catalog, W)
BY DEF Real

\* What is true of a process stays true while it rests, whatever worlds its
\* cluster goes through; what it is about to read and how old things are aside.
LEMMA RestingKept ==
  ASSUME FunctionsInv, ClockInv, NEW t \in Shells, ProcessOK(t), Rests(t),
         \A c \in Contexts : ever[c] \subseteq ever'[c],
         back' \in Nat, back <= back',
         ReadOK(t)', LiveOK(t)', pc[t] \in {"open", "write"} => elapsed' = elapsed
  PROVE  ProcessOK(t)'
<1>1. pc'[t] \in Labels /\ LineOK(t)' /\ LookupOK(t)'
  BY DEF ProcessOK, Rests, LineOK, LookupOK
<1>2. pc[t] # "idle" => line[t].context \in Contexts
  BY DEF ProcessOK, LineOK, Contexts
<1>3. \A c : pc[t] # "idle" /\ Real(c, ever[line[t].context]) => Real(c, ever'[line'[t].context])
  BY <1>2, RealOfMore DEF Rests
<1>4. CachedOK(t)'
  BY <1>3 DEF ProcessOK, CachedOK, Rests
<1>5. FoundOK(t)'
  BY <1>3 DEF ProcessOK, FoundOK, Rests, New, CachePath
<1>6. AnswerOK(t)'
  <2> SUFFICES ASSUME pc[t] = "done"
               PROVE  /\ RealOffers(t, answer[t].offers)'
                      /\ answer[t].from # "stale" => answer[t].age < Ttl + LiveTimeout + back'
    BY DEF AnswerOK, Rests, RealOffers, Sources, ProcessOK
  <2>1. Sources(line[t]) \subseteq Sources(line[t])'
    BY <1>2 DEF Sources, Rests
  <2>2. RealOffers(t, answer[t].offers)'
    BY <2>1 DEF RealOffers, ProcessOK, AnswerOK, Rests
  <2>3. answer[t].from # "stale" => answer[t].age < Ttl + LiveTimeout + back'
    BY CompletionAssumption DEF CompletionAssumption, ProcessOK, AnswerOK, ClockInv
  <2> QED BY <2>2, <2>3
<1> QED BY <1>1, <1>4, <1>5, <1>6 DEF ProcessOK

\* A step of one process that writes no file is nothing to the others.
LEMMA OthersRest ==
  ASSUME IInv, UNCHANGED <<world, clock, file, ever>>, NEW s \in Shells,
         \A t \in Shells \ {s} : Same(t)
  PROVE  \A t \in Shells \ {s} : ProcessOK(t)'
<1> SUFFICES ASSUME NEW t \in Shells \ {s}
             PROVE  ProcessOK(t)'
  OBVIOUS
<1>1. Same(t) /\ ProcessOK(t) /\ FunctionsInv /\ ClockInv
  BY DEF IInv
<1>2. ReadOK(t)' /\ LiveOK(t)'
  BY <1>1 DEF ProcessOK, ReadOK, LiveOK, Same, Rests, CachePath, New, clock
<1>3. back' \in Nat /\ back <= back' /\ elapsed' = elapsed /\ ever' = ever
  BY <1>1 DEF ClockInv, clock
<1> QED BY <1>1, <1>2, <1>3, RestingKept DEF Same

\* A process that answers.
LEMMA AnswersOK ==
  ASSUME NoneIsNoRecord, IInv, NEW s \in Shells, NEW c, NEW from, Answer(s, c, from),
         UNCHANGED <<world, clock, command, line, ever>>, pc[s] # "idle",
         RealOffers(s, Offer(command[s].completer, c, line[s], command[s].fits)),
         from # "stale" =>
           c.since = None \/ (c.since \in Nat /\ elapsed - c.since < Ttl + LiveTimeout + back)
  PROVE  ProcessOK(s)'
<1> DEFINE offers == Offer(command[s].completer, c, line[s], command[s].fits)
           age == IF c.since = None THEN 0 ELSE elapsed - c.since
           a == [offers |-> offers, age |-> age, from |-> from]
<1>1. pc'[s] = "done" /\ answer'[s] = a /\ cached'[s] = None
  BY DEF Answer, Goto, Forget, IInv, FunctionsInv
<1>2. answer'[s] # None
  BY <1>1 DEF NoneIsNoRecord
<1>3. a.offers = offers /\ a.age = age /\ a.from = from
  OBVIOUS
<1>4. RealOffers(s, answer[s].offers)'
  <2> SUFFICES ASSUME NEW n \in offers
               PROVE  \E w \in Sources(line[s]) :
                        n \in Offer(command[s].completer, Catalog(w, None), line[s], command[s].fits)
    BY <1>1, <1>3 DEF RealOffers, Sources
  <2> QED BY DEF RealOffers
<1>5. from # "stale" => age \in Int /\ age < Ttl + LiveTimeout + back
  BY CompletionAssumption DEF CompletionAssumption, IInv, ClockInv
<1>6. AnswerOK(s)'
  <2> HIDE DEF a, offers, age
  <2> QED BY <1>1, <1>2, <1>3, <1>4, <1>5 DEF AnswerOK, clock
<1>7. LineOK(s)'
  <2>1. LineOK(s)
    BY DEF IInv, ProcessOK
  <2> QED BY <2>1 DEF LineOK
<1> QED BY <1>1, <1>6, <1>7
        DEF ProcessOK, Labels, LookupOK, ReadOK, CachedOK, LiveOK, FoundOK
-----------------------------------------------------------------------------
(* The steps of a process.                                                 *)

\* The steps that write no file.
QuietStep(s) ==
  \/ \E c \in CommandLines : Press(s, c)
  \/ Begin(s) \/ ReadCache(s) \/ Hush(s) \/ PluginExits(s)
  \/ ListsAnswer(s) \/ LookupFails(s) \/ TimesOut(s) \/ WriteFails(s) \/ Killed(s)

LEMMA QuietStepsRest ==
  ASSUME IInv, NEW s \in Shells, QuietStep(s)
  PROVE  UNCHANGED <<world, clock, file, ever>> /\ \A t \in Shells \ {s} : Same(t)
<1> USE DEF Same, Rests, IInv, FunctionsInv
<1>1. ASSUME NEW c \in CommandLines, Press(s, c)
      PROVE  UNCHANGED <<world, clock, file, ever>> /\ \A t \in Shells \ {s} : Same(t)
  BY <1>1 DEF Press, Goto, lookup
<1>2. CASE Begin(s)
  BY <1>2 DEF Begin, Answer, Forget, Goto, lookup
<1>3. CASE ReadCache(s)
  BY <1>3 DEF ReadCache, Answer, Forget, Goto
<1>4. CASE Hush(s) \/ PluginExits(s)
  BY <1>4 DEF Hush, Connect, PluginExits, Ask, Goto
<1>5. CASE ListsAnswer(s)
  BY <1>5 DEF ListsAnswer, Answer, Forget, Goto
<1>6. CASE LookupFails(s) \/ TimesOut(s)
  BY <1>6 DEF LookupFails, TimesOut, GiveUp, Answer, Forget, Goto
<1>7. CASE WriteFails(s) \/ Killed(s)
  BY <1>7 DEF WriteFails, Killed, Answer, Forget, Goto
<1> QED BY <1>1, <1>2, <1>3, <1>4, <1>5, <1>6, <1>7 DEF QuietStep

\* The line of a process is about one of the contexts.
LEMMA LineIsTyped ==
  ASSUME NEW s, LineOK(s), pc[s] # "idle"
  PROVE  line[s].context \in Contexts /\ command[s].completer \in Completers
BY CompletionAssumption DEF CompletionAssumption, LineOK, Contexts, Completers

LEMMA PressOK ==
  ASSUME IInv, NEW s \in Shells, NEW c \in CommandLines, Press(s, c)
  PROVE  ProcessOK(s)'
<1>1. pc'[s] = "begin" /\ command'[s] = c /\ line'[s] = CurrentLine(c.args, c.env)
  BY DEF Press, Goto, IInv, FunctionsInv
<1>2. cached'[s] = None
  BY DEF Press, lookup, IInv, ProcessOK, CachedOK
<1> QED BY <1>1, <1>2
        DEF ProcessOK, Labels, LineOK, LookupOK, ReadOK, CachedOK, LiveOK, FoundOK, AnswerOK

LEMMA BeginOK ==
  ASSUME NoneIsNoRecord, IInv, NEW s \in Shells, Begin(s)
  PROVE  ProcessOK(s)'
<1> DEFINE f == line[s].fixture
           path == CachePath(line[s])
           fixture == IF Fixtures[f] = Torn THEN Empty ELSE Catalog(Fixtures[f], None)
<1>1. /\ pc[s] = "begin" /\ UNCHANGED <<world, clock, file, command, line, ever>>
      /\ cached[s] = None /\ LineOK(s)
  BY DEF Begin, IInv, ProcessOK, CachedOK
<1>2. command[s].completer \in Completers
  BY <1>1, LineIsTyped
<1>3. \/ Answer(s, Empty, "nothing")
      \/ f # None /\ Answer(s, fixture, "fixture")
      \/ f = None /\ Goto(s, "hush") /\ UNCHANGED <<stat, lookup, answer>>
      \/ /\ f = None /\ path # None /\ file[path] # None
         /\ stat' = [stat EXCEPT ![s] = file[path].modified]
         /\ Goto(s, "read") /\ UNCHANGED <<lookup, answer>>
  BY DEF Begin
<1>4. RealOffers(s, Offer(command[s].completer, Empty, line[s], command[s].fits))
  BY <1>2, NothingOfEmpty DEF RealOffers
<1>5. CASE Answer(s, Empty, "nothing")
  <2>1. Empty.since = None
    BY DEF Empty, Catalog
  <2> QED BY <1>1, <1>4, <1>5, <2>1, AnswersOK
<1>6. CASE f # None /\ Answer(s, fixture, "fixture")
  <2>1. fixture.since = None
    BY DEF Empty, Catalog
  <2>2. RealOffers(s, Offer(command[s].completer, fixture, line[s], command[s].fits))
    <3>1. CASE Fixtures[f] = Torn
      BY <1>4, <3>1
    <3>2. CASE Fixtures[f] # Torn
      BY <1>6, <3>2 DEF RealOffers, Sources
    <3> QED BY <3>1, <3>2
  <2> HIDE DEF fixture
  <2> QED BY <1>1, <1>6, <2>1, <2>2, AnswersOK
<1>7. CASE f = None /\ Goto(s, "hush") /\ UNCHANGED <<stat, lookup, answer>>
  <2>1. pc'[s] = "hush" /\ cached'[s] = None
    BY <1>1, <1>7 DEF Goto, lookup, IInv, FunctionsInv
  <2> QED BY <1>1, <1>7, <2>1
          DEF ProcessOK, Labels, LineOK, LookupOK, ReadOK, CachedOK, LiveOK, FoundOK, AnswerOK
<1>8. CASE /\ f = None /\ path # None /\ file[path] # None
           /\ stat' = [stat EXCEPT ![s] = file[path].modified]
           /\ Goto(s, "read") /\ UNCHANGED <<lookup, answer>>
  <2>1. pc'[s] = "read" /\ cached'[s] = None /\ stat'[s] = file[path].modified
    BY <1>1, <1>8 DEF Goto, lookup, IInv, FunctionsInv
  <2>2. LineOK(s)' /\ LookupOK(s)' /\ ReadOK(s)'
    BY <1>1, <1>8, <2>1 DEF LineOK, LookupOK, ReadOK, CachePath
  <2> QED BY <2>1, <2>2 DEF ProcessOK, Labels, CachedOK, LiveOK, FoundOK, AnswerOK
<1> QED BY <1>3, <1>5, <1>6, <1>7, <1>8

LEMMA ReadCacheOK ==
  ASSUME NoneIsNoRecord, IInv, NEW s \in Shells, ReadCache(s)
  PROVE  ProcessOK(s)'
<1> DEFINE path == CachePath(line[s])
<1>1. /\ pc[s] = "read" /\ UNCHANGED <<world, clock, file, command, line, ever>>
      /\ LineOK(s) /\ LookupOK(s) /\ ReadOK(s) /\ ClockInv /\ WorldInv
  BY DEF ReadCache, IInv, ProcessOK
<1>2. line[s].context \in Contexts /\ command[s].completer \in Completers
  BY <1>1, LineIsTyped
<1>3. line[s].fixture = None /\ path # None /\ file[path] # None
  BY <1>1 DEF LookupOK, ReadOK
<1>4. path = line[s].context /\ path \in Contexts
  BY <1>2, <1>3 DEF CachePath
<1>5. FileOK(path)
  BY <1>3, <1>4 DEF IInv, FileInv
<1> HIDE DEF path
<1>6. PICK text \in {file[path].text} \cup {Torn} :
        IF text # Torn /\ Fresh(stat[s], Now) THEN Answer(s, text, "cache")
        ELSE /\ cached' = [cached EXCEPT ![s] = IF text = Torn THEN None ELSE text]
             /\ Goto(s, "hush") /\ UNCHANGED <<stat, began, during, found, answer>>
  BY DEF ReadCache, path
<1>7. text # Torn => /\ text = file[path].text /\ Real(text, ever[line[s].context])
                     /\ text.since \in Nat
                     /\ file[path].modified <= text.since + LiveTimeout
                     /\ file[path].modified \in Int
  BY <1>4, <1>5, <1>6 DEF FileOK
<1>8. CASE text # Torn /\ Fresh(stat[s], Now)
  <2>1. RealOffers(s, Offer(command[s].completer, text, line[s], command[s].fits))
    BY <1>1, <1>2, <1>3, <1>7, <1>8, RealCatalogOffers
  <2>2. text.since \in Nat /\ elapsed - text.since < Ttl + LiveTimeout + back
    <3>1. LiveTimeout \in Nat /\ Ttl \in Nat /\ Ttl > 0 /\ elapsed \in Nat /\ back \in Nat
      BY <1>1, CompletionAssumption DEF CompletionAssumption, ClockInv
    <3>2. CASE file[path].modified = stat[s]
      <4>1. elapsed - back < stat[s] \/ elapsed - back - stat[s] < Ttl
        BY <1>8 DEF Fresh, Now
      <4>2. stat[s] \in Int /\ stat[s] <= text.since + LiveTimeout /\ text.since \in Nat
        BY <1>7, <1>8, <3>2
      <4> QED BY <3>1, <4>1, <4>2
    <3>3. CASE New(file[path].text)
      BY <1>7, <1>8, <3>1, <3>3 DEF New
    <3> QED BY <1>1, <1>7, <1>8, <3>2, <3>3 DEF ReadOK, path
  <2>3. Answer(s, text, "cache")
    BY <1>6, <1>8
  <2> QED BY <1>1, <2>1, <2>2, <2>3, AnswersOK
<1>9. CASE ~(text # Torn /\ Fresh(stat[s], Now))
  <2>1. pc'[s] = "hush" /\ cached'[s] = IF text = Torn THEN None ELSE text
    BY <1>6, <1>9 DEF Goto, IInv, FunctionsInv
  <2>2. CachedOK(s)'
    BY <1>1, <1>7, <2>1 DEF CachedOK
  <2> QED BY <1>1, <2>1, <2>2
          DEF ProcessOK, Labels, LineOK, LookupOK, ReadOK, LiveOK, FoundOK, AnswerOK
<1> QED BY <1>8, <1>9

LEMMA HushOK ==
  ASSUME IInv, NEW s \in Shells, Hush(s)
  PROVE  ProcessOK(s)'
<1>1. /\ pc[s] = "hush" /\ UNCHANGED <<world, clock, file, command, line, cached, ever>>
      /\ LineOK(s) /\ LookupOK(s) /\ CachedOK(s) /\ ClockInv /\ WorldInv
  BY DEF Hush, IInv, ProcessOK
<1>2. line[s].context \in Contexts
  BY <1>1, LineIsTyped
<1>3. /\ pc'[s] \in {"connect", "live"} /\ began'[s] = elapsed
      /\ pc'[s] = "live" => during'[s] = {world[line[s].context]}
  BY DEF Hush, Connect, Ask, Goto, IInv, FunctionsInv
<1>4. LiveOK(s)'
  BY <1>1, <1>2, <1>3 DEF LiveOK, ClockInv, WorldInv, clock
<1>5. LineOK(s)' /\ LookupOK(s)' /\ CachedOK(s)'
  BY <1>1, <1>3 DEF LineOK, LookupOK, CachedOK
<1> QED BY <1>3, <1>4, <1>5 DEF ProcessOK, Labels, ReadOK, FoundOK, AnswerOK

\* The lists are asked for when the plugin has ended.
LEMMA PluginExitsOK ==
  ASSUME IInv, NEW s \in Shells, PluginExits(s)
  PROVE  ProcessOK(s)'
<1>1. /\ pc[s] = "connect"
      /\ UNCHANGED <<world, clock, file, command, line, cached, began, ever>>
      /\ LineOK(s) /\ LookupOK(s) /\ CachedOK(s) /\ LiveOK(s) /\ WorldInv
  BY DEF PluginExits, IInv, ProcessOK
<1>2. line[s].context \in Contexts
  BY <1>1, LineIsTyped
<1>3. pc'[s] = "live" /\ during'[s] = {world[line[s].context]}
  BY DEF PluginExits, Ask, Goto, IInv, FunctionsInv
<1>4. LiveOK(s)'
  BY <1>1, <1>2, <1>3 DEF LiveOK, WorldInv, clock
<1>5. LineOK(s)' /\ LookupOK(s)' /\ CachedOK(s)'
  BY <1>1, <1>3 DEF LineOK, LookupOK, CachedOK
<1> QED BY <1>3, <1>4, <1>5 DEF ProcessOK, Labels, ReadOK, FoundOK, AnswerOK

\* The three lists are of worlds the cluster has been since the lookup began.
LEMMA ListsAnswerOK ==
  ASSUME NoneIsNoRecord, IInv, NEW s \in Shells, ListsAnswer(s)
  PROVE  ProcessOK(s)'
<1>1. /\ pc[s] = "live" /\ UNCHANGED <<world, clock, file, command, line, ever>>
      /\ LineOK(s) /\ LookupOK(s) /\ LiveOK(s) /\ ClockInv /\ WorldInv
  BY DEF ListsAnswer, IInv, ProcessOK
<1>2. line[s].context \in Contexts /\ command[s].completer \in Completers
      /\ line[s].fixture = None
  BY <1>1, LineIsTyped DEF LookupOK
<1>3. PICK of \in [Kinds -> during[s]] :
        LET c == Catalog([k \in Kinds |-> of[k][k]], began[s])
        IN IF CachePath(line[s]) = None THEN Answer(s, c, "cluster")
           ELSE /\ found' = [found EXCEPT ![s] = c] /\ Goto(s, "open")
                /\ UNCHANGED <<stat, cached, began, during, answer>>
  BY DEF ListsAnswer
<1> DEFINE lists == [k \in Kinds |-> of[k][k]]
           c == Catalog(lists, began[s])
<1>4. c.lists = lists /\ c.since = began[s] /\ c # None
  BY DEF Catalog, NoneIsNoRecord
<1>5. Real(c, ever[line[s].context])
  BY <1>1, <1>4 DEF Real, LiveOK
<1>6. New(c)
  <2>1. elapsed - began[s] <= LiveTimeout
    BY DEF ListsAnswer
  <2> QED BY <1>1, <1>4, <2>1, CompletionAssumption DEF New, LiveOK, ClockInv, CompletionAssumption
<1> HIDE DEF c
<1>7. CASE Answer(s, c, "cluster")
  <2>1. RealOffers(s, Offer(command[s].completer, c, line[s], command[s].fits))
    BY <1>1, <1>2, <1>5, RealCatalogOffers
  <2>2. c.since \in Nat /\ elapsed - c.since < Ttl + LiveTimeout + back
    BY <1>1, <1>6, CompletionAssumption DEF New, ClockInv, CompletionAssumption
  <2> QED BY <1>1, <1>7, <2>1, <2>2, AnswersOK
<1>8. CASE CachePath(line[s]) # None /\ found' = [found EXCEPT ![s] = c] /\ Goto(s, "open")
  <2>1. pc'[s] = "open" /\ found'[s] = c
    BY <1>8 DEF Goto, IInv, FunctionsInv
  <2>2. FoundOK(s)'
    BY <1>1, <1>4, <1>5, <1>6, <1>8, <2>1 DEF FoundOK, New, CachePath, clock
  <2>3. LineOK(s)' /\ LookupOK(s)'
    BY <1>1, <2>1 DEF LineOK, LookupOK
  <2> QED BY <2>1, <2>2, <2>3 DEF ProcessOK, Labels, ReadOK, CachedOK, LiveOK, AnswerOK
<1> QED BY <1>3, <1>7, <1>8 DEF c

LEMMA GiveUpOK ==
  ASSUME NoneIsNoRecord, IInv, NEW s \in Shells, LookupFails(s) \/ TimesOut(s)
  PROVE  ProcessOK(s)'
<1> DEFINE c == IF cached[s] = None THEN Empty ELSE cached[s]
<1>1. /\ pc[s] = "live" /\ UNCHANGED <<world, clock, file, command, line, ever>>
      /\ LineOK(s) /\ LookupOK(s) /\ CachedOK(s) /\ WorldInv
      /\ Answer(s, c, "stale")
  BY DEF LookupFails, TimesOut, GiveUp, IInv, ProcessOK
<1>2. line[s].context \in Contexts /\ command[s].completer \in Completers
      /\ line[s].fixture = None
  BY <1>1, LineIsTyped DEF LookupOK
<1>3. RealOffers(s, Offer(command[s].completer, c, line[s], command[s].fits))
  <2>1. CASE cached[s] = None
    BY <1>2, <2>1, NothingOfEmpty DEF RealOffers
  <2>2. CASE cached[s] # None
    <3>1. Real(c, ever[line[s].context])
      BY <1>1, <2>2 DEF CachedOK
    <3> HIDE DEF c
    <3> QED BY <1>1, <1>2, <3>1, RealCatalogOffers
  <2> QED BY <2>1, <2>2
<1> HIDE DEF c
<1> QED BY <1>1, <1>3, AnswersOK

LEMMA WriteAnswersOK ==
  ASSUME NoneIsNoRecord, IInv, NEW s \in Shells, pc[s] \in {"open", "write"},
         Answer(s, found[s], "cluster"), UNCHANGED <<world, clock, command, line, ever>>
  PROVE  ProcessOK(s)'
<1>1. LineOK(s) /\ LookupOK(s) /\ FoundOK(s) /\ WorldInv /\ ClockInv
  BY DEF IInv, ProcessOK
<1>2. line[s].context \in Contexts /\ command[s].completer \in Completers
      /\ line[s].fixture = None
  BY <1>1, LineIsTyped DEF LookupOK
<1>3. Real(found[s], ever[line[s].context]) /\ New(found[s])
  BY <1>1 DEF FoundOK
<1>4. RealOffers(s, Offer(command[s].completer, found[s], line[s], command[s].fits))
  BY <1>1, <1>2, <1>3, RealCatalogOffers
<1>5. found[s].since \in Nat /\ elapsed - found[s].since < Ttl + LiveTimeout + back
  BY <1>1, <1>3, CompletionAssumption DEF New, ClockInv, CompletionAssumption
<1> QED BY <1>4, <1>5, AnswersOK

LEMMA KilledOK ==
  ASSUME IInv, NEW s \in Shells, Killed(s)
  PROVE  ProcessOK(s)'
<1>1. pc'[s] = "idle" /\ cached'[s] = None
  BY DEF Killed, Goto, Forget, IInv, FunctionsInv
<1> QED BY <1>1
        DEF ProcessOK, Labels, LineOK, LookupOK, ReadOK, CachedOK, LiveOK, FoundOK, AnswerOK

LEMMA QuietStepOK ==
  ASSUME NoneIsNoRecord, IInv, NEW s \in Shells, QuietStep(s)
  PROVE  \A t \in Shells : ProcessOK(t)'
<1>1. ProcessOK(s)'
  <2>1. ASSUME NEW c \in CommandLines, Press(s, c) PROVE ProcessOK(s)'
    BY <2>1, PressOK
  <2>2. CASE WriteFails(s)
    BY <2>2, WriteAnswersOK DEF WriteFails
  <2> QED BY <2>1, <2>2, BeginOK, ReadCacheOK, HushOK, PluginExitsOK, ListsAnswerOK, GiveUpOK,
             KilledOK DEF QuietStep
<1>2. \A t \in Shells \ {s} : ProcessOK(t)'
  BY QuietStepsRest, OthersRest
<1> QED BY <1>1, <1>2

-----------------------------------------------------------------------------
(* The steps that write the file, and those of the rest of the world.      *)

\* What is put into a file is torn, or was just asked for.
LEMMA PutOK ==
  ASSUME NoneIsNoRecord, IInv, NEW s \in Shells, pc[s] \in {"open", "write"},
         CachePath(line[s]) # None, NEW text, NEW size, Put(CachePath(line[s]), text, size),
         text = Torn \/ (text = found[s] /\ size = Size(text)), UNCHANGED <<clock, ever>>
  PROVE  /\ FileInv' /\ DOMAIN file' = DOMAIN file
         /\ \A t \in Shells : ReadOK(t) /\ LineOK(t) /\ Rests(t) => ReadOK(t)'
<1> DEFINE path == CachePath(line[s])
           new == [text |-> text, size |-> size, modified |-> Now]
<1>1. LineOK(s) /\ FoundOK(s) /\ ClockInv /\ DOMAIN file = Contexts /\ FileInv
  BY DEF IInv, ProcessOK, FunctionsInv
<1>2. path = line[s].context /\ path \in Contexts
  BY <1>1, LineIsTyped DEF CachePath
<1>3. file' = [file EXCEPT ![path] = new] /\ new # None
  BY DEF Put, NoneIsNoRecord
<1>4. /\ new.text = Torn \/ /\ new.text = found[s] /\ new.size = Size(new.text)
                            /\ Real(new.text, ever[path]) /\ New(new.text)
      /\ new.modified = elapsed - back
  BY <1>1, <1>2 DEF FoundOK, Now
<1> HIDE DEF path, new
<1>5. ASSUME NEW c \in Contexts
      PROVE  file'[c] = None \/ FileOK(c)'
  <2>1. CASE c = path
    <3>1. file'[c] = new
      BY <1>1, <1>2, <1>3, <2>1
    <3>2. new.modified \in Int /\ new.modified <= elapsed
      BY <1>1, <1>4 DEF ClockInv
    <3>3. New(new.text) => /\ new.text.since \in Nat /\ new.text.since <= elapsed
                           /\ new.modified <= new.text.since + LiveTimeout
      BY <1>1, <1>4, CompletionAssumption DEF ClockInv, New, CompletionAssumption
    <3> QED BY <1>4, <2>1, <3>1, <3>2, <3>3 DEF FileOK, clock
  <2>2. CASE c # path
    <3>1. file'[c] = file[c]
      BY <1>1, <1>3, <2>2
    <3> QED BY <1>1, <3>1 DEF FileInv, FileOK, clock
  <2> QED BY <2>1, <2>2
<1>6. ASSUME NEW t \in Shells, ReadOK(t), LineOK(t), Rests(t)
      PROVE  ReadOK(t)'
  <2> DEFINE theirs == CachePath(line[t])
  <2> SUFFICES ASSUME pc[t] = "read"
               PROVE  /\ theirs # None /\ file'[theirs] # None
                      /\ \/ file'[theirs].modified = stat[t]
                         \/ file'[theirs].text = Torn
                         \/ New(file'[theirs].text)
    BY <1>6 DEF ReadOK, Rests, CachePath, New, clock
  <2>1. theirs # None /\ theirs \in Contexts
    BY <1>6, LineIsTyped DEF ReadOK, CachePath
  <2> HIDE DEF theirs
  <2>2. CASE theirs = path
    <3>1. file'[theirs] = new
      BY <1>1, <1>2, <1>3, <2>2
    <3> QED BY <1>3, <1>4, <2>1, <3>1
  <2>3. CASE theirs # path
    <3>1. file'[theirs] = file[theirs]
      BY <1>1, <1>3, <2>1, <2>3
    <3> QED BY <1>6, <2>1, <3>1 DEF ReadOK, theirs
  <2> QED BY <2>2, <2>3
<1> QED BY <1>1, <1>3, <1>5, <1>6 DEF FileInv

LEMMA FileStepOK ==
  ASSUME NoneIsNoRecord, IInv, NEW s \in Shells, OpenCache(s) \/ WriteCache(s)
  PROVE  FileInv' /\ DOMAIN file' = DOMAIN file /\ \A t \in Shells : ProcessOK(t)'
<1>1. /\ pc[s] \in {"open", "write"} /\ UNCHANGED <<world, clock, command, line, ever>>
      /\ \A t \in Shells \ {s} : Same(t)
  BY DEF OpenCache, WriteCache, Answer, Forget, Goto, Same, Rests, lookup, IInv, FunctionsInv
<1>2. CachePath(line[s]) # None
  BY <1>1 DEF IInv, ProcessOK, FoundOK
<1>3. PICK text, size : /\ Put(CachePath(line[s]), text, size)
                        /\ text = Torn \/ (text = found[s] /\ size = Size(text))
  BY DEF OpenCache, WriteCache
<1>4. FileInv' /\ DOMAIN file' = DOMAIN file
      /\ \A t \in Shells : ReadOK(t) /\ LineOK(t) /\ Rests(t) => ReadOK(t)'
  BY <1>1, <1>2, <1>3, PutOK
<1>5. ASSUME NEW t \in Shells \ {s}
      PROVE  ProcessOK(t)'
  <2>1. Same(t) /\ ProcessOK(t) /\ FunctionsInv /\ ClockInv
    BY <1>1 DEF IInv
  <2>2. ReadOK(t)'
    BY <1>4, <2>1 DEF Same, ProcessOK
  <2>3. LiveOK(t)'
    BY <1>1, <2>1 DEF ProcessOK, LiveOK, Same, Rests, clock
  <2> QED BY <1>1, <2>1, <2>2, <2>3, RestingKept DEF Same, ClockInv, clock
<1>6. ProcessOK(s)'
  <2>1. CASE OpenCache(s)
    <3>1. pc'[s] = "write" /\ UNCHANGED <<lookup, clock, command, line, ever>>
      BY <2>1 DEF OpenCache, Goto, IInv, FunctionsInv
    <3>2. pc[s] = "open" /\ LineOK(s) /\ LookupOK(s) /\ FoundOK(s)
      BY <2>1 DEF OpenCache, IInv, ProcessOK
    <3>3. LineOK(s)' /\ LookupOK(s)' /\ FoundOK(s)'
      BY <3>1, <3>2 DEF LineOK, LookupOK, FoundOK, New, CachePath, lookup, clock
    <3> QED BY <3>1, <3>3 DEF ProcessOK, Labels, ReadOK, CachedOK, LiveOK, AnswerOK
  <2>2. CASE WriteCache(s)
    BY <1>1, <2>2, WriteAnswersOK DEF WriteCache
  <2> QED BY <2>1, <2>2
<1> QED BY <1>4, <1>5, <1>6

LEMMA TickOK ==
  ASSUME IInv, Tick
  PROVE  FileInv' /\ ClockInv' /\ \A t \in Shells : ProcessOK(t)'
<1>1. /\ elapsed' = elapsed + 1 /\ UNCHANGED <<world, back, file, process, ever>>
      /\ \A s \in Shells : \/ pc[s] \in {"idle", "done", "connect"}
                           \/ pc[s] = "live" /\ elapsed - began[s] < LiveTimeout
  BY DEF Tick
<1>2. elapsed \in Nat /\ back \in Nat /\ FunctionsInv /\ ClockInv
  BY DEF IInv, ClockInv
<1>3. ClockInv'
  BY <1>1, <1>2 DEF ClockInv
<1>4. FileInv'
  <2> SUFFICES ASSUME NEW c \in Contexts, file[c] # None
               PROVE  FileOK(c)'
    BY <1>1 DEF FileInv
  <2>1. FileOK(c)
    BY DEF IInv, FileInv
  <2> QED BY <1>1, <1>2, <2>1 DEF FileOK
<1>5. ASSUME NEW t \in Shells
      PROVE  ProcessOK(t)'
  <2>1. Same(t) /\ ProcessOK(t)
    BY <1>1 DEF Same, Rests, process, lookup, IInv
  <2>2. pc[t] \notin {"read", "open", "write"}
    BY <1>1
  <2>3. ReadOK(t)'
    BY <2>1, <2>2 DEF ReadOK, Same, Rests
  <2>4. LiveOK(t)'
    BY <1>1, <1>2, <2>1 DEF ProcessOK, LiveOK, Same, Rests
  <2> QED BY <1>1, <1>2, <2>1, <2>2, <2>3, <2>4, RestingKept DEF Same
<1> QED BY <1>3, <1>4, <1>5

LEMMA SetClockBackOK ==
  ASSUME IInv, SetClockBack
  PROVE  FileInv' /\ ClockInv' /\ \A t \in Shells : ProcessOK(t)'
<1>1. back' = back + 1 /\ UNCHANGED <<world, elapsed, file, process, ever>>
  BY DEF SetClockBack
<1>2. elapsed \in Nat /\ back \in Nat /\ FunctionsInv /\ ClockInv
  BY DEF IInv, ClockInv
<1>3. ClockInv'
  BY <1>1, <1>2 DEF ClockInv
<1>4. FileInv'
  BY <1>1 DEF IInv, FileInv, FileOK
<1>5. ASSUME NEW t \in Shells
      PROVE  ProcessOK(t)'
  <2>1. Same(t) /\ ProcessOK(t)
    BY <1>1 DEF Same, Rests, process, lookup, IInv
  <2>2. ReadOK(t)' /\ LiveOK(t)'
    BY <1>1, <2>1 DEF ProcessOK, ReadOK, LiveOK, Same, Rests, CachePath, New
  <2>3. back' \in Nat /\ back <= back'
    BY <1>1, <1>2
  <2> QED BY <1>1, <1>2, <2>1, <2>2, <2>3, RestingKept DEF Same
<1> QED BY <1>3, <1>4, <1>5

LEMMA ClusterChangesOK ==
  ASSUME IInv, NEW c \in Contexts, ClusterChanges(c)
  PROVE  FileInv' /\ WorldInv' /\ \A t \in Shells : ProcessOK(t)'
<1>1. PICK w \in Worlds :
        /\ world' = [world EXCEPT ![c] = w] /\ ever' = [ever EXCEPT ![c] = @ \cup {w}]
        /\ during' = [s \in Shells |-> IF pc[s] = "live" /\ line[s].context = c
                                       THEN during[s] \cup {w} ELSE during[s]]
  BY DEF ClusterChanges
<1>2. UNCHANGED <<clock, file, pc, command, line, stat, cached, began, found, answer>>
  BY DEF ClusterChanges
<1>3. FunctionsInv /\ ClockInv /\ WorldInv /\ FileInv
  BY DEF IInv
<1>4. \A x \in Contexts : ever'[x] = IF x = c THEN ever[x] \cup {w} ELSE ever[x]
  BY <1>1, <1>3 DEF FunctionsInv
<1>5. WorldInv'
  BY <1>1, <1>3, <1>4 DEF WorldInv, FunctionsInv
<1>6. FileInv'
  <2> SUFFICES ASSUME NEW x \in Contexts, file[x] # None
               PROVE  FileOK(x)'
    BY <1>2 DEF FileInv
  <2>1. FileOK(x)
    BY <1>3 DEF FileInv
  <2>2. Real(file[x].text, ever[x]) => Real(file[x].text, ever'[x])
    BY <1>4, RealOfMore
  <2> QED BY <1>2, <2>1, <2>2 DEF FileOK, clock
<1>7. ASSUME NEW t \in Shells
      PROVE  ProcessOK(t)'
  <2>1. Rests(t) /\ ProcessOK(t)
    BY <1>2 DEF Rests, IInv
  <2>2. ReadOK(t)'
    BY <1>2, <2>1 DEF ProcessOK, ReadOK, Rests, CachePath, New, clock
  <2>3. LiveOK(t)'
    <3> SUFFICES ASSUME pc[t] = "live"
                 PROVE  during'[t] \subseteq ever'[line[t].context]
      BY <1>2, <2>1 DEF ProcessOK, LiveOK, Rests, clock
    <3>1. line[t].context \in Contexts /\ during[t] \subseteq ever[line[t].context]
      BY <2>1, LineIsTyped DEF ProcessOK, LiveOK
    <3>2. during'[t] \subseteq during[t] \cup (IF line[t].context = c THEN {w} ELSE {})
      BY <1>1
    <3>3. ever'[line[t].context] = IF line[t].context = c THEN ever[line[t].context] \cup {w}
                                   ELSE ever[line[t].context]
      BY <1>4, <3>1
    <3> QED BY <3>1, <3>2, <3>3
  <2>4. \A x \in Contexts : ever[x] \subseteq ever'[x]
    BY <1>4
  <2>5. back' = back /\ elapsed' = elapsed /\ back \in Nat /\ back <= back
    BY <1>2, <1>3 DEF clock, ClockInv
  <2> QED BY <1>3, <2>1, <2>2, <2>3, <2>4, <2>5, RestingKept
<1> QED BY <1>5, <1>6, <1>7

-----------------------------------------------------------------------------
(***************************************************************************)
(* The scanner of the line.  Scan and FlattenSeq are recursive functions   *)
(* over the arguments: that each recursion has a solution, and that the    *)
(* two agree after every argument, is proved by the least counterexample.  *)
(***************************************************************************)
\* A set of naturals has a least element.
LEMMA LeastNat ==
  ASSUME NEW S \in SUBSET Nat, S # {}
  PROVE  \E m \in S : \A y \in S : m <= y
<1> DEFINE below(x) == {y \in S : y <= x}
           T == {below(x) : x \in S}
<1>1. ASSUME NEW x \in S PROVE below(x) \in FiniteSubsetsOf(Nat)
  <2>1. x \in Nat /\ \A z \in S : z \in Nat
    OBVIOUS
  <2>2. ASSUME NEW y \in S, y <= x PROVE y \in 0..x
    BY <2>1, <2>2
  <2>3. IsFiniteSet(0..x)
    BY <2>1, FS_Interval
  <2>4. below(x) \in SUBSET (0..x) /\ IsFiniteSet(0..x)
    BY <2>2, <2>3
  <2>5. IsFiniteSet(below(x))
    BY <2>4, FS_Subset
  <2> QED BY <2>5 DEF FiniteSubsetsOf
<1>2. T \subseteq FiniteSubsetsOf(Nat) /\ T # {}
  BY <1>1
<1>3. PICK B \in T : \A C \in T : <<C, B>> \notin StrictSubsetOrdering(Nat)
  <2> HIDE DEF T
  <2> QED BY <1>2, FS_StrictSubsetOrderingWellFounded, WFMin
<1>4. PICK x \in S : B = below(x)
  BY <1>3
<1>5. ASSUME NEW y \in S PROVE x <= y
  <2>1. x \in Nat /\ y \in Nat /\ \A z \in S : z \in Nat
    OBVIOUS
  <2> SUFFICES ASSUME y < x PROVE FALSE
    BY <2>1
  <2>2. x <= x /\ ~(x <= y)
    BY <2>1
  <2>3. ASSUME NEW z \in S, z <= y PROVE z <= x
    BY <2>1, <2>3
  <2>4. below(y) \subseteq below(x) /\ x \in below(x) /\ x \notin below(y)
    BY <2>2, <2>3
  <2>5. <<below(y), below(x)>> \in StrictSubsetOrdering(Nat)
    BY <2>4 DEF StrictSubsetOrdering
  <2> QED BY <1>3, <1>4, <2>5
<1> QED BY <1>5

\* The two recursions have a solution.
LEMMA ScanExists ==
  ASSUME NEW args, NEW n \in Nat, NEW start
  PROVE  \E f : f = [k \in 0..n |-> IF k = 0 THEN start ELSE Take(f[k - 1], args[k])]
<1> DEFINE Solved(j) == \E f : f = [k \in 0..j |-> IF k = 0 THEN start ELSE Take(f[k - 1], args[k])]
           bad == {j \in Nat : ~Solved(j)}
<1> HIDE DEF Solved
<1> SUFFICES ASSUME bad # {} PROVE FALSE
  BY DEF Solved
<1>1. PICK m \in bad : \A j \in bad : m <= j
  BY LeastNat
<1>2. m \in Nat /\ ~Solved(m) /\ \A j \in Nat : j < m => Solved(j)
  BY <1>1
<1> HIDE DEF bad
<1>3. m # 0
  <2> DEFINE f == [k \in 0..0 |-> start]
  <2>1. f = [k \in 0..0 |-> IF k = 0 THEN start ELSE Take(f[k - 1], args[k])]
    OBVIOUS
  <2> QED BY <1>2, <2>1 DEF Solved
<1>4. PICK f : f = [k \in 0..(m - 1) |-> IF k = 0 THEN start ELSE Take(f[k - 1], args[k])]
  <2>1. m - 1 \in Nat /\ m - 1 < m
    BY <1>2, <1>3
  <2> QED BY <1>2, <2>1 DEF Solved
<1> DEFINE g == [k \in 0..m |-> IF k = 0 THEN start ELSE Take(f[k - 1], args[k])]
<1>5. \A k \in 0..(m - 1) : g[k] = f[k]
  <2> SUFFICES ASSUME NEW k \in 0..(m - 1) PROVE g[k] = f[k]
    OBVIOUS
  <2>1. k \in 0..m
    BY <1>2
  <2>2. f[k] = IF k = 0 THEN start ELSE Take(f[k - 1], args[k])
    BY <1>4
  <2> QED BY <2>1, <2>2
<1>6. g = [k \in 0..m |-> IF k = 0 THEN start ELSE Take(g[k - 1], args[k])]
  <2>1. ASSUME NEW k \in 0..m, k # 0
        PROVE  k - 1 \in 0..(m - 1)
    BY <1>2, <2>1
  <2> QED BY <1>5, <2>1
<1> QED BY <1>2, <1>6 DEF Solved

LEMMA FlattenExists ==
  ASSUME NEW s, NEW n \in Nat
  PROVE  \E f : f = [i \in 1..n |-> IF i = 1 THEN s[i] ELSE f[i - 1] \o s[i]]
<1> DEFINE Solved(k) == \E f : f = [i \in 1..k |-> IF i = 1 THEN s[i] ELSE f[i - 1] \o s[i]]
           bad == {k \in Nat : ~Solved(k)}
<1> HIDE DEF Solved
<1> SUFFICES ASSUME bad # {} PROVE FALSE
  BY DEF Solved
<1>1. PICK m \in bad : \A k \in bad : m <= k
  BY LeastNat
<1>2. m \in Nat /\ ~Solved(m) /\ \A k \in Nat : k < m => Solved(k)
  BY <1>1
<1> HIDE DEF bad
<1>3. m # 0
  <2>1. 1..0 = {}
    OBVIOUS
  <2>2. << >> = [i \in 1..0 |-> IF i = 1 THEN s[i] ELSE << >>[i - 1] \o s[i]]
    BY <2>1
  <2> QED BY <1>2, <2>2 DEF Solved
<1>4. PICK f : f = [i \in 1..(m - 1) |-> IF i = 1 THEN s[i] ELSE f[i - 1] \o s[i]]
  <2>1. m - 1 \in Nat /\ m - 1 < m
    BY <1>2, <1>3
  <2> QED BY <1>2, <2>1 DEF Solved
<1> DEFINE g == [i \in 1..m |-> IF i = 1 THEN s[i] ELSE f[i - 1] \o s[i]]
<1>5. \A i \in 1..(m - 1) : g[i] = f[i]
  <2> SUFFICES ASSUME NEW i \in 1..(m - 1) PROVE g[i] = f[i]
    OBVIOUS
  <2>1. i \in 1..m
    BY <1>2
  <2>2. f[i] = IF i = 1 THEN s[i] ELSE f[i - 1] \o s[i]
    BY <1>4
  <2> QED BY <2>1, <2>2
<1>6. g = [i \in 1..m |-> IF i = 1 THEN s[i] ELSE g[i - 1] \o s[i]]
  <2>1. ASSUME NEW i \in 1..m, i # 1
        PROVE  i - 1 \in 1..(m - 1)
    BY <1>2, <2>1
  <2> QED BY <1>5, <2>1
<1> QED BY <1>2, <1>6 DEF Solved

\* One argument: what it does to the words, and whether the next is its value.
Started(acc) == DOMAIN acc = {"line", "flag"} /\ "words" \in DOMAIN acc.line
ValueFlag(arg) == arg.form = "flag" /\ arg.flag \in VALUE_FLAGS

LEMMA SetFlagKeepsWords ==
  ASSUME NEW l, "words" \in DOMAIN l, NEW flag, NEW value
  PROVE  "words" \in DOMAIN SetFlag(l, flag, value) /\ SetFlag(l, flag, value).words = l.words
<1>1. \/ SetFlag(l, flag, value) = l
      \/ SetFlag(l, flag, value) = [l EXCEPT !.namespace = value]
      \/ SetFlag(l, flag, value) = [l EXCEPT !.context = value]
      \/ SetFlag(l, flag, value) = [l EXCEPT !.fixture = value]
  BY DEF SetFlag
<1> QED BY <1>1

LEMMA TakeIs ==
  ASSUME NEW acc, Started(acc), NEW arg
  PROVE  /\ Started(Take(acc, arg))
         /\ acc.flag # None => /\ Take(acc, arg).line.words = acc.line.words
                               /\ Take(acc, arg).flag = None
         /\ acc.flag = None /\ arg.form = "word" =>
              /\ Take(acc, arg).line.words = Append(acc.line.words, arg.value)
              /\ Take(acc, arg).flag = None
         /\ acc.flag = None /\ arg.form # "word" =>
              /\ Take(acc, arg).line.words = acc.line.words
              /\ Take(acc, arg).flag = IF ValueFlag(arg) THEN arg.flag ELSE None
<1>1. CASE acc.flag # None
  <2>1. Take(acc, arg) = [line |-> SetFlag(acc.line, acc.flag, arg.value), flag |-> None]
    BY <1>1 DEF Take
  <2>2. "words" \in DOMAIN SetFlag(acc.line, acc.flag, arg.value)
        /\ SetFlag(acc.line, acc.flag, arg.value).words = acc.line.words
    BY SetFlagKeepsWords DEF Started
  <2> QED BY <1>1, <2>1, <2>2 DEF Started
<1>2. CASE acc.flag = None /\ arg.form \in {"eq", "-n"}
  <2>1. Take(acc, arg) = [acc EXCEPT !.line = SetFlag(@, arg.flag, arg.value)]
    BY <1>2 DEF Take
  <2>2. "words" \in DOMAIN SetFlag(acc.line, arg.flag, arg.value)
        /\ SetFlag(acc.line, arg.flag, arg.value).words = acc.line.words
    BY SetFlagKeepsWords DEF Started
  <2> QED BY <1>2, <2>1, <2>2 DEF Started, ValueFlag
<1>3. CASE acc.flag = None /\ ValueFlag(arg)
  <2>1. Take(acc, arg) = [acc EXCEPT !.flag = arg.flag]
    BY <1>3 DEF Take, ValueFlag
  <2> QED BY <1>3, <2>1 DEF Started, ValueFlag
<1>4. CASE acc.flag = None /\ arg.form = "word"
  <2>1. Take(acc, arg) = [acc EXCEPT !.line.words = Append(@, arg.value)]
    BY <1>4 DEF Take
  <2> QED BY <1>4, <2>1 DEF Started, ValueFlag
<1>5. CASE acc.flag = None /\ arg.form \notin {"eq", "-n", "word"} /\ ~ValueFlag(arg)
  <2>1. Take(acc, arg) = acc
    BY <1>5 DEF Take, ValueFlag
  <2> QED BY <1>5, <2>1
<1> QED BY <1>1, <1>2, <1>3, <1>4, <1>5

\* A piece more of a sequence.
LEMMA OneMore ==
  ASSUME NEW T, NEW w \in Seq(T), NEW v \in T
  PROVE  /\ Append(w, v) = w \o <<v>> /\ w \o <<v>> \in Seq(T)
         /\ w \o << >> = w
OBVIOUS

\* The words of a line that clap can parse are its positionals.
LEMMA WordsAreRight ==
  ASSUME NEW args, args \in Seq(ToSet(args)), ~Unknown(args),
         \A i \in DOMAIN args : ValueFlag(args[i]) =>
           /\ Valued(args, i)
           /\ i + 1 \in DOMAIN args => args[i + 1].form = "word"
  PROVE  Scan(args).words = Positionals(args)
<1> DEFINE n == Len(args)
           own(i) == args[i].form = "word" /\ ~Valued(args, i - 1)
           pieces == [i \in DOMAIN args |-> IF own(i) THEN <<args[i].value>> ELSE << >>]
           start == [line |-> NoLine, flag |-> None]
           after == CHOOSE f : f = [k \in 0..n |-> IF k = 0 THEN start ELSE Take(f[k - 1], args[k])]
           flatten == CHOOSE f : f = [i \in 1..n |-> IF i = 1 THEN pieces[i] ELSE f[i - 1] \o pieces[i]]
           T == {args[i].value : i \in DOMAIN args}
<1>1. n \in Nat /\ DOMAIN args = 1..n
  OBVIOUS
<1>2. Scan(args) = after[n].line
  BY DEF Scan
<1>3. after = [k \in 0..n |-> IF k = 0 THEN start ELSE Take(after[k - 1], args[k])]
  <2> HIDE DEF start
  <2> QED BY <1>1, ScanExists
<1>4. flatten = [i \in 1..n |-> IF i = 1 THEN pieces[i] ELSE flatten[i - 1] \o pieces[i]]
  <2> HIDE DEF pieces
  <2> QED BY <1>1, FlattenExists
<1>5. Positionals(args) = IF n = 0 THEN << >> ELSE flatten[n]
  <2>1. Positionals(args) = FlattenSeq(pieces)
    BY DEF Positionals
  <2>2. Len(pieces) = n /\ (n = 0 => pieces = << >>)
    BY <1>1
  <2> HIDE DEF pieces
  <2> QED BY <2>1, <2>2 DEF FlattenSeq
<1>6. ASSUME NEW i \in 1..n
      PROVE  /\ own(i) => pieces[i] = <<args[i].value>> /\ args[i].value \in T
             /\ ~own(i) => pieces[i] = << >>
  BY <1>1
<1>7. after[0] = start
  <2>1. 0 \in 0..n
    BY <1>1
  <2> HIDE DEF start, after
  <2> QED BY <1>3, <2>1
<1>8. ASSUME NEW k \in 1..n
      PROVE  after[k] = Take(after[k - 1], args[k])
  <2>1. k \in 0..n /\ k # 0
    BY <1>1
  <2> HIDE DEF start, after
  <2> QED BY <1>3, <2>1
<1>9. ASSUME NEW k \in 1..n
      PROVE  flatten[k] = IF k = 1 THEN pieces[k] ELSE flatten[k - 1] \o pieces[k]
  <2> HIDE DEF pieces, flatten
  <2> QED BY <1>4
<1>10. \A i \in DOMAIN args : Valued(args, i) <=> ValueFlag(args[i])
  <2> SUFFICES ASSUME NEW i \in DOMAIN args, Valued(args, i)
               PROVE  ValueFlag(args[i])
    OBVIOUS
  <2>1. args[i] \in ToSet(args)
    BY DEF ToSet
  <2> QED BY <2>1 DEF Valued, Unknown, ValueFlag
<1> DEFINE flat(k) == IF k = 0 THEN << >> ELSE flatten[k]
           Agree(k) == /\ Started(after[k])
                       /\ after[k].line.words = flat(k) /\ flat(k) \in Seq(T)
                       /\ after[k].flag # None <=> (k # 0 /\ ValueFlag(args[k]))
<1> HIDE DEF n, own, pieces, start, after, flatten, T
<1>11. Agree(0)
  BY <1>7 DEF start, NoLine, Started
<1>12. ASSUME NEW k \in 1..n, Agree(k - 1)
       PROVE  Agree(k)
  <2> DEFINE acc == after[k - 1]
             arg == args[k]
  <2>1. k \in Nat /\ k - 1 \in Nat /\ k # 0 /\ k \in DOMAIN args
    BY <1>1
  <2>2. flat(k) = flat(k - 1) \o pieces[k]
    <3>1. CASE k = 1
      <4>1. pieces[k] = << >> \/ pieces[k] = <<args[k].value>>
        BY <1>6
      <4>2. << >> \o pieces[k] = pieces[k]
        BY <4>1
      <4>3. k - 1 = 0
        BY <3>1
      <4>4. flat(k) = pieces[k]
        BY <1>9, <2>1, <3>1
      <4> QED BY <4>2, <4>3, <4>4
    <3>2. CASE k # 1
      <4>1. k - 1 # 0
        BY <2>1, <3>2
      <4>2. flatten[k] = flatten[k - 1] \o pieces[k]
        BY <1>9, <3>2
      <4> QED BY <2>1, <4>1, <4>2
    <3> QED BY <3>1, <3>2
  <2>3. acc.flag # None <=> Valued(args, k - 1)
    <3>1. CASE k = 1
      <4>1. k - 1 \notin DOMAIN args /\ k - 1 = 0
        BY <1>1, <3>1
      <4> QED BY <1>12, <4>1 DEF Valued
    <3>2. CASE k # 1
      <4>1. k - 1 \in DOMAIN args /\ k - 1 # 0
        BY <1>1, <3>2
      <4> QED BY <1>10, <1>12, <4>1
    <3> QED BY <3>1, <3>2
  <2>4. ASSUME Valued(args, k - 1) PROVE arg.form = "word"
    <3>1. k - 1 \in DOMAIN args
      BY <2>4 DEF Valued
    <3>2. (k - 1) + 1 = k
      BY <2>1
    <3> QED BY <1>10, <2>1, <2>4, <3>1, <3>2
  <2>5. after[k] = Take(acc, arg)
    BY <1>8
  <2>6. Started(acc) /\ acc.line.words = flat(k - 1) /\ flat(k - 1) \in Seq(T)
    BY <1>12
  <2>7. own(k) <=> arg.form = "word" /\ acc.flag = None
    BY <2>3 DEF own
  <2>8. None \notin VALUE_FLAGS
    BY NoneIsNoFlag
  <2>9. ValueFlag(arg) => arg.form # "word" /\ arg.flag # None
    BY <2>8 DEF ValueFlag
  <2> HIDE DEF acc, arg, flat
  <2>10. CASE own(k)
    <3>1. flat(k) = flat(k - 1) \o <<arg.value>> /\ arg.value \in T
      BY <1>6, <2>2, <2>10 DEF arg
    <3>2. Append(flat(k - 1), arg.value) = flat(k) /\ flat(k) \in Seq(T)
      BY <2>6, <3>1, OneMore
    <3>3. Started(Take(acc, arg)) /\ Take(acc, arg).flag = None
          /\ Take(acc, arg).line.words = Append(acc.line.words, arg.value)
      BY <2>6, <2>7, <2>10, TakeIs
    <3> QED BY <2>1, <2>5, <2>6, <2>7, <2>9, <2>10, <3>2, <3>3 DEF arg
  <2>11. CASE ~own(k)
    <3>1. flat(k) = flat(k - 1) /\ flat(k) \in Seq(T)
      <4>1. pieces[k] = << >>
        BY <1>6, <2>11
      <4>2. flat(k - 1) \o << >> = flat(k - 1)
        BY <2>6
      <4> QED BY <2>2, <2>6, <4>1, <4>2
    <3>2. /\ Started(Take(acc, arg))
          /\ Take(acc, arg).line.words = acc.line.words
          /\ Take(acc, arg).flag # None <=> ValueFlag(arg)
      <4>1. CASE acc.flag # None
        BY <2>3, <2>4, <2>6, <2>9, <4>1, TakeIs DEF arg
      <4>2. CASE acc.flag = None
        BY <2>6, <2>7, <2>9, <2>11, <4>2, TakeIs
      <4> QED BY <4>1, <4>2
    <3> QED BY <2>1, <2>5, <2>6, <3>1, <3>2 DEF arg
  <2> QED BY <2>10, <2>11
<1> HIDE DEF Agree
<1>13. \A k \in 0..n : Agree(k)
  <2> DEFINE bad == {k \in 0..n : ~Agree(k)}
  <2> SUFFICES ASSUME bad # {} PROVE FALSE
    OBVIOUS
  <2>1. bad \in SUBSET Nat
    BY <1>1
  <2>2. PICK k \in bad : \A j \in bad : k <= j
    <3> HIDE DEF bad
    <3> QED BY <2>1, LeastNat
  <2>3. k \in 1..n /\ ~Agree(k)
    BY <1>1, <1>11, <2>2
  <2>4. k - 1 \in 0..n /\ k - 1 \notin bad
    <3>1. k - 1 \in 0..n /\ ~(k <= k - 1)
      BY <1>1, <2>3
    <3> HIDE DEF bad
    <3> QED BY <2>2, <3>1
  <2> QED BY <1>12, <2>3, <2>4
<1>14. n \in 0..n
  BY <1>1
<1>15. after[n].line.words = flat(n)
  BY <1>13, <1>14 DEF Agree
<1> QED BY <1>2, <1>5, <1>15

-----------------------------------------------------------------------------
(* The rest of the invariant, and the theorems.                            *)

LEMMA FunctionsStep ==
  ASSUME FunctionsInv, Next
  PROVE  FunctionsInv'
<1> USE DEF FunctionsInv
<1>1. ASSUME NEW s \in Shells, NEW c \in CommandLines, Press(s, c)
      PROVE  FunctionsInv'
  BY <1>1 DEF Press, Goto, lookup, terminal
<1>2. ASSUME NEW s \in Shells, Begin(s) \/ ReadCache(s)
      PROVE  FunctionsInv'
  BY <1>2 DEF Begin, ReadCache, Answer, Forget, Goto, lookup, terminal
<1>3. ASSUME NEW s \in Shells, Hush(s) \/ PluginExits(s)
      PROVE  FunctionsInv'
  BY <1>3 DEF Hush, Connect, PluginExits, Ask, Goto
<1>4. ASSUME NEW s \in Shells, ListsAnswer(s) \/ LookupFails(s) \/ TimesOut(s)
      PROVE  FunctionsInv'
  <2>1. CASE ListsAnswer(s)
    BY <2>1 DEF ListsAnswer, Unhush, Answer, Forget, Goto
  <2>2. CASE LookupFails(s) \/ TimesOut(s)
    BY <2>2 DEF LookupFails, TimesOut, GiveUp, Unhush, Answer, Forget, Goto
  <2> QED BY <1>4, <2>1, <2>2
<1>5. ASSUME NEW s \in Shells, OpenCache(s) \/ WriteCache(s) \/ WriteFails(s)
      PROVE  FunctionsInv'
  BY <1>5 DEF OpenCache, WriteCache, WriteFails, Put, Answer, Forget, Goto, lookup, terminal
<1>6. ASSUME NEW s \in Shells, Killed(s)
      PROVE  FunctionsInv'
  BY <1>6 DEF Killed, Unhush, Forget, Goto
<1>7. CASE Tick \/ SetClockBack
  BY <1>7 DEF Tick, SetClockBack, process, lookup, terminal
<1>8. ASSUME NEW c \in Contexts, ClusterChanges(c)
      PROVE  FunctionsInv'
  BY <1>8 DEF ClusterChanges, terminal
<1> QED BY <1>1, <1>2, <1>3, <1>4, <1>5, <1>6, <1>7, <1>8 DEF Next, Step, Local

\* A plugin runs while the terminal is put aside, and outlives no lookup.
LEMMA TerminalStep ==
  ASSUME IInv, Next
  PROVE  TerminalIsKept'
<1> SUFFICES ASSUME NEW s \in Shells
             PROVE  /\ child'[s] # None => child'[s] \subseteq refused'[s]
                    /\ pc'[s] \notin {"connect", "live"} => nulled'[s] = {}
  BY DEF TerminalIsKept
<1>0. FunctionsInv /\ (child[s] # None => child[s] \subseteq refused[s])
      /\ (pc[s] \notin {"connect", "live"} => nulled[s] = {})
  BY DEF IInv, TerminalIsKept
<1> DEFINE Kept == /\ child'[s] # None => child'[s] \subseteq refused'[s]
                   /\ pc'[s] \notin {"connect", "live"} => nulled'[s] = {}
<1> USE <1>0 DEF FunctionsInv
<1>1. ASSUME NEW t \in Shells, NEW c \in CommandLines, Press(t, c)
      PROVE  Kept
  BY <1>1 DEF Press, Goto, terminal
<1>2. ASSUME NEW t \in Shells, Begin(t) \/ ReadCache(t)
      PROVE  Kept
  BY <1>2 DEF Begin, ReadCache, Answer, Goto, terminal
<1>3. ASSUME NEW t \in Shells, Hush(t) \/ PluginExits(t)
      PROVE  Kept
  BY <1>3 DEF Hush, Connect, PluginExits, Ask, Goto
<1>4. ASSUME NEW t \in Shells, ListsAnswer(t) \/ LookupFails(t) \/ TimesOut(t)
      PROVE  Kept
  <2>1. Unhush(t)
    BY <1>4 DEF ListsAnswer, LookupFails, TimesOut, GiveUp
  <2>2. \E label : pc' = [pc EXCEPT ![t] = label]
    BY <1>4 DEF ListsAnswer, LookupFails, TimesOut, GiveUp, Answer, Goto
  <2> QED BY <2>1, <2>2 DEF Unhush
<1>5. ASSUME NEW t \in Shells, OpenCache(t) \/ WriteCache(t) \/ WriteFails(t)
      PROVE  Kept
  BY <1>5 DEF OpenCache, WriteCache, WriteFails, Answer, Goto, terminal
<1>6. ASSUME NEW t \in Shells, Killed(t)
      PROVE  Kept
  BY <1>6 DEF Killed, Unhush, Goto
<1>7. CASE Tick \/ SetClockBack
  BY <1>7 DEF Tick, SetClockBack, process, terminal
<1>8. ASSUME NEW c \in Contexts, ClusterChanges(c)
      PROVE  Kept
  BY <1>8 DEF ClusterChanges, terminal
<1> QED BY <1>1, <1>2, <1>3, <1>4, <1>5, <1>6, <1>7, <1>8 DEF Next, Step, Local

LEMMA InitOK == Init => IInv
<1> SUFFICES ASSUME Init PROVE IInv
  OBVIOUS
<1> USE DEF Init
<1>1. FunctionsInv
  BY DEF FunctionsInv
<1>2. ClockInv /\ FileInv /\ TerminalIsKept
  BY DEF ClockInv, FileInv, TerminalIsKept
<1>3. WorldInv
  BY CompletionAssumption DEF WorldInv, CompletionAssumption
<1>4. \A s \in Shells : ProcessOK(s)
  BY DEF ProcessOK, Labels, LineOK, LookupOK, ReadOK, CachedOK, LiveOK, FoundOK, AnswerOK
<1> QED BY <1>1, <1>2, <1>3, <1>4 DEF IInv

LEMMA NextOK ==
  ASSUME NoneIsNoRecord, IInv, Next
  PROVE  IInv'
<1>1. FunctionsInv' /\ TerminalIsKept'
  BY FunctionsStep, TerminalStep DEF IInv
<1>2. ASSUME NEW s \in Shells, QuietStep(s)
      PROVE  ClockInv' /\ WorldInv' /\ FileInv' /\ \A t \in Shells : ProcessOK(t)'
  <2>1. UNCHANGED <<world, clock, file, ever>>
    BY <1>2, QuietStepsRest
  <2>2. ClockInv' /\ WorldInv' /\ FileInv'
    BY <2>1 DEF IInv, ClockInv, WorldInv, FileInv, FileOK, clock
  <2> QED BY <1>2, <2>2, QuietStepOK
<1>3. ASSUME NEW s \in Shells, OpenCache(s) \/ WriteCache(s)
      PROVE  ClockInv' /\ WorldInv' /\ FileInv' /\ \A t \in Shells : ProcessOK(t)'
  <2>1. UNCHANGED <<world, clock, ever>>
    BY <1>3 DEF OpenCache, WriteCache
  <2>2. ClockInv' /\ WorldInv'
    BY <2>1 DEF IInv, ClockInv, WorldInv, clock
  <2> QED BY <1>3, <2>2, FileStepOK
<1>4. CASE Tick \/ SetClockBack
  <2>1. UNCHANGED <<world, ever>>
    BY <1>4 DEF Tick, SetClockBack
  <2>2. WorldInv'
    BY <2>1 DEF IInv, WorldInv
  <2> QED BY <1>1, <1>4, <2>2, TickOK, SetClockBackOK DEF IInv
<1>5. ASSUME NEW c \in Contexts, ClusterChanges(c)
      PROVE  ClockInv' /\ WorldInv' /\ FileInv' /\ \A t \in Shells : ProcessOK(t)'
  <2>1. UNCHANGED clock
    BY <1>5 DEF ClusterChanges
  <2>2. ClockInv'
    BY <2>1 DEF IInv, ClockInv, clock
  <2> QED BY <1>5, <2>2, ClusterChangesOK
<1>6. ASSUME NEW s \in Shells, Step(s)
      PROVE  QuietStep(s) \/ OpenCache(s) \/ WriteCache(s)
  BY <1>6 DEF Step, Local, QuietStep
<1> QED BY <1>1, <1>2, <1>3, <1>4, <1>5, <1>6 DEF Next, IInv

LEMMA StepOK ==
  ASSUME NoneIsNoRecord, IInv, [Next]_vars
  PROVE  IInv'
<1>1. CASE UNCHANGED vars
  <2>1. UNCHANGED <<world, elapsed, back, file, pc, command, line, stat, cached, began,
                    during, found, nulled, child, answer, refused, ever>>
    BY <1>1 DEF vars, clock, process, lookup, terminal
  <2>2. FunctionsInv' /\ ClockInv' /\ WorldInv' /\ FileInv' /\ TerminalIsKept'
    BY <2>1 DEF IInv, FunctionsInv, ClockInv, WorldInv, FileInv, FileOK, TerminalIsKept
  <2>3. ASSUME NEW t \in Shells
        PROVE  ProcessOK(t)'
    <3>1. Same(t) /\ ProcessOK(t) /\ FunctionsInv /\ ClockInv
      BY <2>1 DEF Same, Rests, IInv
    <3>2. ReadOK(t)' /\ LiveOK(t)'
      BY <2>1, <3>1 DEF ProcessOK, ReadOK, LiveOK, CachePath, New
    <3>3. back' \in Nat /\ back <= back'
      BY <2>1, <3>1 DEF ClockInv
    <3> QED BY <2>1, <3>1, <3>2, <3>3, RestingKept DEF Same
  <2> QED BY <2>2, <2>3 DEF IInv
<1> QED BY <1>1, NextOK

LEMMA InvariantHolds ==
  ASSUME NoneIsNoRecord
  PROVE  Spec => []IInv
<1>1. Init => IInv
  BY InitOK
<1>2. IInv /\ [Next]_vars => IInv'
  BY StepOK
<1> QED BY <1>1, <1>2, PTL DEF Spec

\* A file that is not torn is as long as its catalog and dated no later than now,
\* a process that is done has its answer: whatever the processes that write the
\* one file do to each other (complete.rs:192-206, :300-325).
THEOREM CompletionTypeOKThm ==
  ASSUME NoneIsNoRecord
  PROVE  Spec => []CompletionTypeOK
<1>1. IInv => CompletionTypeOK
  <2> SUFFICES ASSUME IInv PROVE CompletionTypeOK
    OBVIOUS
  <2>1. \A c \in Contexts : file[c] # None =>
          /\ file[c].modified <= elapsed
          /\ file[c].text # Torn => file[c].size = Size(file[c].text)
    BY DEF IInv, FileInv, FileOK
  <2>2. \A s \in Shells : /\ pc[s] \in Labels
                          /\ (pc[s] = "done") => answer[s] # None
                          /\ pc[s] \in {"open", "write"} => found[s] # None
    BY DEF IInv, ProcessOK, AnswerOK, FoundOK
  <2> QED BY <2>1, <2>2 DEF CompletionTypeOK, Labels
<1> QED BY <1>1, InvariantHolds, PTL

\* A credential plugin has the terminal only where the system refused to redirect
\* it, and a process that is not looking up has its terminal: however the plugin
\* and the lookup end (complete.rs:209-293).
THEOREM TerminalIsKeptThm ==
  ASSUME NoneIsNoRecord
  PROVE  Spec => []TerminalIsKept
<1>1. IInv => TerminalIsKept
  BY DEF IInv
<1> QED BY <1>1, InvariantHolds, PTL

\* A name that is offered was in the cluster or the fixture the line is about, for
\* any worlds and whatever other shells do to the file (complete.rs:192-206, :300).
THEOREM NamesAreRealThm ==
  ASSUME NoneIsNoRecord
  PROVE  Spec => []NamesAreReal
<1>1. IInv => NamesAreReal
  BY DEF IInv, ProcessOK, AnswerOK, RealOffers, NamesAreReal
<1> QED BY <1>1, InvariantHolds, PTL

\* What is offered, unless the cluster gave nothing, was asked for less than
\* CACHE_TTL and one lookup ago, and longer only by what the wall clock was set
\* back: for any times (complete.rs:180, :300-325).
THEOREM NamesAreRecentThm ==
  ASSUME NoneIsNoRecord
  PROVE  Spec => []NamesAreRecent
<1>1. IInv => NamesAreRecent
  BY DEF IInv, ProcessOK, AnswerOK, NamesAreRecent
<1> QED BY <1>1, InvariantHolds, PTL

\* A Tab offers names of what the line is about: of the cluster or the fixture it
\* names, recent ones, and for the positional that is being typed.
THEOREM NamesAreHonestThm ==
  ASSUME NoneIsNoRecord, LinesParse
  PROVE  Spec => []NamesAreHonest
<1>1. IInv => WordsArePositionals
  <2> SUFFICES ASSUME IInv, NEW s \in Shells, pc[s] = "begin", ~Unknown(command[s].args)
               PROVE  line[s].words = Positionals(command[s].args)
    BY DEF WordsArePositionals
  <2> DEFINE args == command[s].args
  <2>1. command[s] \in CommandLines /\ line[s] = CurrentLine(command[s].args, command[s].env)
    BY DEF IInv, ProcessOK, LineOK
  <2>2. args \in Seq(ToSet(args))
    BY <2>1, CompletionAssumption DEF CompletionAssumption
  <2>3. \A i \in DOMAIN args : ValueFlag(args[i]) =>
          /\ Valued(args, i)
          /\ i + 1 \in DOMAIN args => args[i + 1].form = "word"
    BY <2>1 DEF LinesParse, ValueFlag
  <2>4. line[s].words = Scan(args).words
    BY <2>1 DEF CurrentLine
  <2> HIDE DEF args
  <2>5. Scan(args).words = Positionals(args)
    BY <2>2, <2>3, WordsAreRight DEF args
  <2> QED BY <2>4, <2>5 DEF args
<1>2. IInv => NamesAreReal /\ NamesAreRecent
  BY DEF IInv, ProcessOK, AnswerOK, RealOffers, NamesAreReal, NamesAreRecent
<1> QED BY <1>1, <1>2, InvariantHolds, PTL DEF NamesAreHonest
=============================================================================
