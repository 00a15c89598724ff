---------------------------- MODULE PluginManager ----------------------------
(***************************************************************************)
(* The plugins of the referee box: fawkes::PluginManager on top of its     *)
(* PluginLoader and the thread collector (libs/plugin/manager.cpp and      *)
(* loader.cpp).  A meta plugin is a name that the configuration maps to a  *)
(* list of plugins, meta plugins included, itself included.                *)
(*                                                                         *)
(* One thread calls the manager.  A step is the work on one name of a      *)
(* list; load() of a meta plugin calls itself, which the stack records.    *)
(* The mutex of the list of plugins is not recursive: the thread that      *)
(* locks it twice hangs.                                                   *)
(***************************************************************************)
EXTENDS Naturals, SequencesExt

CONSTANTS Plugins,          \* the names of plugins that have a module file
          Metas,            \* the names of meta plugins
          Config,           \* [Metas -> Seq(names)]: the lists of the configuration
          NoMeta,           \* the frame of a call that is not for a meta plugin
          Requests,         \* the lists load() is called with
          MayFailLoad,      \* plugins whose module or factory may fail
          MayFailInit,      \* plugins with a thread that may fail to initialise
          MayFailStart,     \* plugins with a thread that may fail to start
          MayVeto,          \* plugins with a thread that may refuse to be finalised
          MayFailFinalize   \* plugins with a thread whose finalize() may throw

Names == Plugins \cup Metas

ASSUME ConfigAssumption == /\ Config \in [Metas -> Seq(Names)]
                           /\ NoMeta \notin Names
                           /\ Requests \subseteq Seq(Names)

VARIABLES
  plugins,     \* PluginManager::plugins, in the order of loading
  open,        \* PluginLoader's name_plugin_map
  threads,     \* the thread list of every plugin object
  metas,       \* PluginManager::__meta_plugins
  locked,      \* the mutex of plugins was left locked
  stack,       \* the calls of load() in progress, outermost first
  op,          \* what the calling thread does
  announced    \* what a listener takes to be loaded

books == <<plugins, open, threads>>
vars == <<books, metas, locked, stack, op, announced>>

ThreadStates == {"none", "fresh", "running", "stopped", "broken"}
Frames == [meta : Metas \cup {NoMeta}, rest : Seq(Names)]

Loaded == Range(plugins)

TypeOK ==
  /\ plugins \in Seq(Plugins)
  /\ open \subseteq Plugins
  /\ threads \in [Plugins -> ThreadStates]
  /\ metas \subseteq Metas
  /\ locked \in BOOLEAN
  /\ stack \in Seq(Frames)
  /\ op \in {"idle", "loading", "throwing", "hung", "destroyed"}
  /\ announced \subseteq Names

Init ==
  /\ plugins = <<>>
  /\ open = {}
  /\ threads = [p \in Plugins |-> "none"]
  /\ metas = {}
  /\ locked = FALSE
  /\ stack = <<>>
  /\ op = "idle"
  /\ announced = {}

-----------------------------------------------------------------------------
(* load()                                                                  *)

Depth == Len(stack)
Todo == stack[Depth].rest
Loading == op = "loading" /\ Depth > 0 /\ Todo # <<>>
Name == Head(Todo)
(* The stack when the work on Name is done.                                *)
Advanced == [stack EXCEPT ![Depth].rest = Tail(@)]

Load(list) ==
  /\ op = "idle"
  /\ op' = "loading"
  /\ stack' = <<[meta |-> NoMeta, rest |-> list]>>
  /\ UNCHANGED <<books, metas, locked, announced>>

(* A name the configuration knows as a meta plugin is entered into         *)
(* __meta_plugins before its list is loaded, so that it is not expanded a  *)
(* second time within itself; an empty list is refused.                    *)
IsMeta(n) == n \in Metas \ metas

(* Mutant: the meta plugin is entered when its list is loaded.             *)
EnterMetaLate ==
  /\ Loading /\ IsMeta(Name)
  /\ IF Config[Name] = <<>>
     THEN op' = "throwing" /\ UNCHANGED <<metas, stack>>
     ELSE /\ stack' = Append(Advanced, [meta |-> Name, rest |-> Config[Name]])
          /\ UNCHANGED <<metas, op>>
  /\ UNCHANGED <<books, locked, announced>>

EnterMeta ==
  /\ Loading /\ IsMeta(Name)
  /\ IF Config[Name] = <<>>
     THEN op' = "throwing" /\ UNCHANGED <<metas, stack>>
     ELSE /\ metas' = metas \cup {Name}
          /\ stack' = Append(Advanced, [meta |-> Name, rest |-> Config[Name]])
          /\ UNCHANGED op
  /\ UNCHANGED <<books, locked, announced>>

(* The list of a meta plugin is loaded: it is announced.                   *)
LeaveMeta ==
  /\ op = "loading" /\ Depth > 1 /\ Todo = <<>>
  /\ announced' = announced \cup {stack[Depth].meta}
  /\ stack' = Front(stack)
  /\ UNCHANGED <<books, metas, locked, op>>

Return ==
  /\ op = "loading" /\ Depth = 1 /\ Todo = <<>>
  /\ op' = "idle" /\ stack' = <<>>
  /\ UNCHANGED <<books, metas, locked, announced>>

(* An exception passes the meta plugins under way, which are given up, and *)
(* leaves what is loaded in place.                                         *)
Unwind ==
  /\ op = "throwing"
  /\ metas' = metas \ {stack[Depth].meta}
  /\ stack' = Front(stack)
  /\ op' = IF Depth = 1 THEN "idle" ELSE op
  /\ UNCHANGED <<books, locked, announced>>

(* What load() does with an exception of a real plugin: it is dropped when *)
(* the name is that of a meta plugin, and passed on otherwise.             *)
Throw == IF Name \in metas THEN stack' = Advanced /\ UNCHANGED op
                           ELSE op' = "throwing" /\ UNCHANGED stack

IsReal(n) == ~IsMeta(n)

SkipLoaded ==
  /\ Loading /\ IsReal(Name) /\ Name \in Loaded
  /\ stack' = Advanced
  /\ UNCHANGED <<books, metas, locked, op, announced>>

(* PluginLoader::load: no such module, or no plugin object from it.        *)
RefuseOpen ==
  /\ Loading /\ IsReal(Name) /\ Name \notin Loaded \cup open
  /\ Name \in Plugins => Name \in MayFailLoad
  /\ Throw
  /\ UNCHANGED <<books, metas, locked, announced>>

(* The plugin is at hand, but plugins.lock() never returns.                *)
HangLoading ==
  /\ Loading /\ IsReal(Name) /\ Name \in Plugins \ Loaded
  /\ locked
  /\ open' = open \cup {Name}
  /\ threads' = IF Name \in open THEN threads ELSE [threads EXCEPT ![Name] = "fresh"]
  /\ op' = "hung"
  /\ UNCHANGED <<plugins, metas, locked, stack, announced>>

CanAdd == /\ Loading /\ IsReal(Name) /\ Name \in Plugins \ Loaded
          /\ ~locked

LoadPlugin ==
  /\ CanAdd
  /\ open' = open \cup {Name}
  /\ threads' = [threads EXCEPT ![Name] = "running"]
  /\ plugins' = Append(plugins, Name)
  /\ announced' = announced \cup {Name}
  /\ stack' = Advanced
  /\ UNCHANGED <<metas, locked, op>>

(* Mutant: the plugin that cannot be initialised stays open.               *)
FailInitOpen ==
  /\ CanAdd /\ Name \in MayFailInit
  /\ Throw
  /\ open' = open \cup {Name}
  /\ threads' = [threads EXCEPT ![Name] = "fresh"]
  /\ UNCHANGED <<plugins, metas, locked, announced>>

(* CannotInitializeThreadException: the plugin is closed again.            *)
FailInit ==
  /\ CanAdd /\ Name \in MayFailInit
  /\ Throw
  /\ open' = open \ {Name}
  /\ threads' = [threads EXCEPT ![Name] = "none"]
  /\ UNCHANGED <<plugins, metas, locked, announced>>

(* Any other exception of the collector, as of a thread that cannot be     *)
(* created, passes plugins.unlock() and the loader's unload().             *)
FailStart ==
  /\ CanAdd /\ Name \in MayFailStart
  /\ Throw
  /\ open' = open \cup {Name}
  /\ threads' = [threads EXCEPT ![Name] = "broken"]
  /\ locked' = TRUE
  /\ UNCHANGED <<plugins, metas, announced>>

-----------------------------------------------------------------------------
(* unload() and the destructor                                             *)

(* MutexLocker at the head of unload().                                    *)
HangUnloading ==
  /\ op = "idle" /\ locked
  /\ op' = "hung"
  /\ UNCHANGED <<books, metas, locked, stack, announced>>

(* The meta plugins whose list names n.                                    *)
Requiring(n) == {m \in metas : n \in Range(Config[m])}

(* plugins.erase(pit): the first plugin of that name.                      *)
Erase(n) ==
  \E k \in DOMAIN plugins :
    /\ plugins[k] = n /\ \A j \in 1..(k - 1) : plugins[j] # n
    /\ plugins' = RemoveAt(plugins, k)

(* Mutant: the meta plugins that required the plugin stay.                 *)
UnloadAlone(n) ==
  /\ op = "idle" /\ ~locked /\ n \in Loaded
  /\ threads[n] = "running"
  /\ threads' = [threads EXCEPT ![n] = "none"]
  /\ open' = open \ {n}
  /\ Erase(n)
  /\ announced' = announced \ {n}
  /\ UNCHANGED <<metas, locked, stack, op>>

Unload(n) ==
  /\ op = "idle" /\ ~locked /\ n \in Loaded
  /\ threads[n] = "running"
  /\ threads' = [threads EXCEPT ![n] = "none"]
  /\ open' = open \ {n}
  /\ Erase(n)
  /\ metas' = metas \ Requiring(n)
  /\ announced' = announced \ ({n} \cup Requiring(n))
  /\ UNCHANGED <<locked, stack, op>>

(* A thread refuses, or it fails to finalize: unload() throws with the     *)
(* plugin on the books.  Stopped threads cannot be removed any more.       *)
RefuseUnload(n) ==
  /\ op = "idle" /\ ~locked /\ n \in Loaded
  /\ \/ (n \in MayVeto \/ threads[n] = "stopped") /\ UNCHANGED threads
     \/ n \in MayFailFinalize /\ threads' = [threads EXCEPT ![n] = "stopped"]
  /\ UNCHANGED <<plugins, open, metas, locked, stack, op, announced>>

(* unload() of a meta plugin passes over the components that are meta      *)
(* plugins themselves; for the first other one, from the end, it calls     *)
(* unload(), which waits for the mutex its caller holds.                   *)
Passed(n) == n \notin Loaded /\ n \in metas

UnloadMeta(m) ==
  LET others == SelectSeq(Config[m], LAMBDA n : ~Passed(n)) IN
  /\ op = "idle" /\ ~locked /\ m \in metas \ Loaded
  /\ others # <<>>
  /\ metas' = metas \ {Last(others)}
  /\ op' = "hung"
  /\ UNCHANGED <<books, locked, stack, announced>>

(* The destructor takes no lock, forces the threads of every plugin to end *)
(* and closes them, last loaded first; exceptions are dropped.             *)
Destroy ==
  /\ op = "idle"
  /\ op' = "destroyed"
  /\ threads' = [p \in Plugins |-> IF p \in Loaded THEN "none" ELSE threads[p]]
  /\ open' = open \ Loaded
  /\ plugins' = <<>>
  /\ UNCHANGED <<metas, locked, stack, announced>>

-----------------------------------------------------------------------------
Next ==
  \/ \E list \in Requests : Load(list)
  \/ EnterMeta \/ LeaveMeta \/ Return \/ Unwind
  \/ SkipLoaded \/ RefuseOpen \/ HangLoading \/ LoadPlugin \/ FailInit \/ FailStart
  \/ HangUnloading
  \/ \E n \in Names : Unload(n) \/ RefuseUnload(n)
  \/ \E m \in Metas : UnloadMeta(m)
  \/ Destroy

Spec == Init /\ [][Next]_vars

-----------------------------------------------------------------------------
(* Properties                                                              *)

(* However meta plugins name each other or themselves, the recursion of    *)
(* load() (manager.cpp:300) expands each at most once, so it ends.         *)
ExpandedOnce ==
  \A i, j \in 2..Depth : i # j => stack[i].meta # stack[j].meta

(* Between two calls the manager's list, the loader's map and the thread   *)
(* collector agree on which plugins there are, after any sequence of loads *)
(* and unloads that fail anywhere (manager.cpp:322 and :364), unless a     *)
(* failed start has left the mutex locked.                                 *)
BooksAgree ==
  op = "idle" /\ ~locked =>
    /\ open = Loaded
    /\ \A p \in Plugins : threads[p] = "none" <=> p \notin Loaded
    /\ \A p \in Loaded : threads[p] \in {"running", "stopped"}
    /\ IsInjective(plugins)

(* is_loaded() asks the loader and __meta_plugins, not the list of plugins *)
(* that get_loaded_plugins() returns.                                      *)
IsLoaded(n) == n \in open \cup metas

(* Plugins that a failed start has left open and off the list.             *)
HalfLoaded == {p \in Plugins : threads[p] = "broken"}

(* What the listeners were told (manager.cpp:300, :328, :368 and :387)     *)
(* adds up to the list of plugins and to what is_loaded() answers, but for *)
(* a plugin left behind by a failed start, which is_loaded() alone takes   *)
(* for loaded (:333); and no meta plugin counts as loaded with one of its  *)
(* own plugins missing.                                                    *)
ListenersAgree ==
  op = "idle" =>
    /\ announced = Loaded \cup metas
    /\ \A n \in Names : IsLoaded(n) <=> n \in announced \cup HalfLoaded
    /\ \A m \in metas : Range(Config[m]) \cap Plugins \subseteq Loaded

-----------------------------------------------------------------------------
(* What makes them inductive                                               *)

(* A meta plugin whose list is being loaded is in __meta_plugins.          *)
OnStack == {stack[i].meta : i \in 2..Depth}

StackInv ==
  /\ op \in {"idle", "destroyed"} => stack = <<>>
  /\ op \in {"loading", "throwing"} => Depth > 0
  /\ Depth > 0 => stack[1].meta = NoMeta
  /\ OnStack \subseteq metas
  /\ ExpandedOnce

(* The books agree at every step, not only between calls.                  *)
BooksInv ==
  ~locked =>
    /\ open = Loaded
    /\ \A p \in Plugins : threads[p] = "none" <=> p \notin Loaded
    /\ \A p \in Loaded : threads[p] \in {"running", "stopped"}
    /\ IsInjective(plugins)

(* The loader has what is on the list and what a failed start left behind. *)
OpenInv == op # "hung" => open = Loaded \cup HalfLoaded

(* A meta plugin under way has not been announced, and what is missing of  *)
(* its list is still to be loaded.                                         *)
ListenersInv ==
  op \in {"idle", "loading", "throwing"} =>
    /\ announced = Loaded \cup (metas \ OnStack)
    /\ \A m \in metas \ OnStack : Range(Config[m]) \cap Plugins \subseteq Loaded
    /\ \A i \in 2..Depth :
         Range(Config[stack[i].meta]) \cap Plugins \subseteq Loaded \cup Range(stack[i].rest)

(* No meta plugin has the name of a module.  (load() takes such a name for *)
(* the meta plugin the first time and for the module after that.)          *)
DisjointNames == Plugins \cap Metas = {}
=============================================================================
