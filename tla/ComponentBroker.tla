--------------------------- MODULE ComponentBroker ---------------------------
(***************************************************************************)
(* The component broker of a process and the creators it asks:             *)
(* Y2ComponentBroker, Y2CCPlugin and Y2PluginComponent, Y2CCProgram,       *)
(* Y2CCStdio, Y2CCSerial, Y2CCWFM, Y2LanguageLoader and the levels of      *)
(* Y2PathSearch.                                                           *)
(*                                                                         *)
(* What a component does once it exists is left out, but for the program   *)
(* of a program component: the model may go on in the child, which asks    *)
(* its own broker for the component it was started for.  The files do not  *)
(* change.  Names in a chroot are left out, and names with a slash.        *)
(***************************************************************************)
EXTENDS Integers, Sequences, FiniteSets, SequencesExt

CONSTANTS
  Levels,        \* numberOfComponentLevels
  Plugins,       \* Plugins[f], a file libpy2<name>.so.2: [name, level, loads, y2cc], y2cc its creators
  Programs,      \* executable files: [name, level, server, own], own the creators linked to it
  Scripts,       \* files clients/<name>.ycp: [name, level, good]
  Modules,       \* namespaces that are YCP modules or begin with System::
  Language,      \* the creators of the loaded libpy2lang_*.so
  Exceptions,    \* what -n may say: [namespace, component]
  Names,         \* of components that are asked for
  MaxComponents, MaxCalls

VARIABLES
  creators,        \* creators[order], and of which library they are: lib
  stop_register, namespace_exceptions,
  loaded,          \* loaded[f]: how many dlopen have no dlclose
  components,      \* components[id]: [kind, name, ...], or kind "none"
  leaked,          \* handles of wrappers whose address is lost
  provided,        \* the libraries whose components were handed out for a namespace
  level,           \* Y2LEVEL, or the default level
  program,         \* the program this process runs, and what it was started for: [name, server]
  served,          \* the kind of component this process found for that
  calls

brokerVars ==
  <<creators, stop_register, namespace_exceptions, loaded, components, leaked, provided, level, program, served, calls>>

Orders == 0..4
Ids == 1..MaxComponents
Files == DOMAIN Plugins
None == [kind |-> "none"]
NoFile == "none"

(* registerComponentCreator for the creators of a library, in order        *)
(* MUTANT: registration goes on while plugins are loaded.                  *)
RegistersAlways(lists, new, stopped) ==
  [o \in Orders |-> lists[o] \o SelectSeq(new, LAMBDA c : c.order = o)]
registerComponentCreator(lists, new, stopped) ==
  [o \in Orders |-> lists[o] \o SelectSeq(new, LAMBDA c : c.order = o /\ (~stopped \/ c.force))]

Creator(kind, order, server, names) ==
  [kind |-> kind, order |-> order, server |-> server, names |-> names, namespaces |-> {}, force |-> FALSE, lib |-> "main"]

(* The global creators of liby2 and wfm, BUILTIN to EXTERNAL_PROGRAM       *)
Y2CCStdio == <<Creator("builtin", 0, FALSE, {"stdio"}), Creator("builtin", 0, TRUE, {"stdio"}),
               Creator("builtin", 0, FALSE, {"stderr", "testsuite"}), Creator("builtin", 0, TRUE, {"stderr", "testsuite"})>>
Y2CCSerial == <<Creator("builtin", 0, TRUE, {"serial:"}), Creator("builtin", 0, FALSE, {"serial:"})>>
Y2CCPlugin == <<Creator("plugin", 1, TRUE, {}), Creator("plugin", 1, FALSE, {})>>
Y2CCWFM == <<Creator("wfm", 2, FALSE, {})>>
Y2CCProgram == <<Creator("program", 3, TRUE, {}), Creator("program", 3, FALSE, {})>>

(* What is registered when main begins                                     *)
Linked(own) ==
  registerComponentCreator([o \in Orders |-> <<>>],
    Y2CCStdio \o Y2CCSerial \o Y2CCPlugin \o Y2CCWFM \o Y2CCProgram \o own \o Language, FALSE)

Start(own, lvl) ==
  [creators |-> Linked(own), level |-> lvl, loaded |-> [f \in Files |-> 0],
   components |-> [i \in Ids |-> None], leaked |-> [f \in Files |-> 0]]

defaultComponentLevel == Levels - 1
Init ==
  LET start == Start(<<>>, defaultComponentLevel)
  IN /\ creators = start.creators /\ level = start.level /\ loaded = start.loaded
     /\ components = start.components /\ leaked = start.leaked /\ provided = {}
     /\ stop_register = FALSE
     /\ namespace_exceptions \in {{}} \cup {{e} : e \in Exceptions}
     /\ program = [name |-> "y2base", server |-> FALSE] /\ served = "none"
     /\ calls = 0

-----------------------------------------------------------------------------
(* The creators: createInLevel                                             *)

(* Y2CCPlugin: some plugins have another name than their components.       *)
PluginName(name) ==
  CASE name = "stderr" -> "stdio" [] name = "serial:" -> "serial" [] OTHER -> name

findy2plugin(name, lvl) ==
  LET found == {f \in Files : Plugins[f].name = name /\ Plugins[f].level = lvl}
  IN IF found = {} THEN NoFile ELSE CHOOSE f \in found : TRUE
findy2exe(name, server, lvl) == {p \in Programs : p.name = name /\ p.server = server /\ p.level = lvl}
findy2(name, lvl) == {s \in Scripts : s.name = name /\ s.level = lvl}

createInLevel(c, name, lvl) ==
  CASE c.kind = "builtin" -> lvl = level /\ name \in c.names
    [] c.kind = "plugin" -> name # "remote" /\ findy2plugin(PluginName(name), lvl) # NoFile
    [] c.kind = "wfm" -> name = "wfm" \/ findy2(name, lvl) # {}
    [] c.kind = "program" -> findy2exe(name, c.server, lvl) # {}

(* createComponent: levels, then orders, then the order of registration    *)
Before(x, y) ==
  \/ x[1] < y[1]
  \/ x[1] = y[1] /\ x[2] < y[2]
  \/ x[1] = y[1] /\ x[2] = y[2] /\ x[3] <= y[3]
Found(name, server) ==
  {x \in UNION {{lvl} \X {o} \X DOMAIN creators[o] : lvl \in 0..Levels - 1, o \in Orders} :
     /\ creators[x[2]][x[3]].server = server
     /\ createInLevel(creators[x[2]][x[3]], name, x[1])}
First(name, server) == CHOOSE x \in Found(name, server) : \A y \in Found(name, server) : Before(x, y)

(* Y2PluginComponent::loadPlugin                                           *)
Creates(f, name, server) ==
  Plugins[f].loads /\ \E i \in DOMAIN Plugins[f].y2cc : Plugins[f].y2cc[i].server = server /\ name \in Plugins[f].y2cc[i].names
Provides(f, ns) == Plugins[f].loads /\ Plugins[f].y2cc # <<>> /\ ns \in Plugins[f].y2cc[1].namespaces

(* n times dlopen: the first runs the constructors of the library          *)
dlopen(f, n) ==
  /\ loaded' = [loaded EXCEPT ![f] = @ + IF Plugins[f].loads THEN n ELSE 0]
  /\ creators' = IF Plugins[f].loads /\ loaded[f] = 0 /\ n > 0
                 THEN registerComponentCreator(creators, Plugins[f].y2cc, TRUE) ELSE creators

Wrapper(f, name, server) ==
  [kind |-> "plugin", name |-> name, server |-> server, file |-> f,
   handle |-> Plugins[f].loads, comp |-> Creates(f, name, server), kept |-> FALSE]
Other(kind, name, server, lvl) ==
  [kind |-> kind, name |-> name, server |-> server, level |-> lvl, kept |-> FALSE]

(* What First(name, server) makes; a script that does not parse gives an   *)
(* error component, and the search ends there.                             *)
Made(name, server) ==
  LET x == First(name, server)
      c == creators[x[2]][x[3]]
  IN CASE c.kind = "plugin" -> Wrapper(findy2plugin(PluginName(name), x[1]), name, server)
       [] c.kind = "wfm" -> Other(IF \E s \in findy2(name, x[1]) : ~s.good THEN "error" ELSE "wfm", name, server, x[1])
       [] OTHER -> Other(c.kind, name, server, x[1])

FreeIds == {i \in Ids : components[i].kind = "none"}
FreeId == CHOOSE i \in FreeIds : \A j \in FreeIds : i <= j

createComponent(name, server, kept) ==
  LET made == Made(name, server)
  IN /\ stop_register' = TRUE
     /\ components' = [components EXCEPT ![FreeId] = [made EXCEPT !.kept = kept]]
     /\ IF made.kind = "plugin" THEN dlopen(made.file, 1) ELSE UNCHANGED <<loaded, creators>>
     /\ served' = IF <<name, server>> = <<program.name, program.server>> /\ served = "none" THEN made.kind ELSE served

-----------------------------------------------------------------------------
(* The calls of main, Import, SCRSubAgent and Y2WFMComponent               *)
Call == calls < MaxCalls /\ calls' = calls + 1 /\ UNCHANGED <<level, program>>

Create(name, server) ==
  /\ Call /\ FreeIds # {}
  /\ IF Found(name, server) # {}
     THEN createComponent(name, server, FALSE)
     ELSE stop_register' = TRUE /\ UNCHANGED <<components, loaded, creators, served>>
  /\ UNCHANGED <<namespace_exceptions, leaked, provided>>
createServer(name) == Create(name, TRUE)
createClient(name) == Create(name, FALSE)

(* Y2CCPlugin::provideNamespace takes the first level that has the file.   *)
NamespaceFile(ns) ==
  LET found == {f \in Files : Plugins[f].name = ns}
  IN IF found = {} THEN NoFile ELSE CHOOSE f \in found : \A g \in found : Plugins[f].level <= Plugins[g].level
provideNamespace(c, ns) ==
  CASE c.kind = "builtin" -> ns \in c.namespaces
    [] c.kind = "plugin" -> NamespaceFile(ns) # NoFile /\ Provides(NamespaceFile(ns), ns)
    [] c.kind = "wfm" -> ns \in Modules
    [] c.kind = "program" -> FALSE

AllCreators == creators[0] \o creators[1] \o creators[2] \o creators[3] \o creators[4]

(* The creators are asked in turn; each plugin creator that is asked loads *)
(* the library for a wrapper that nobody deletes.                          *)
ProvidedByCreators(ns) ==
  LET all == AllCreators
      yes == {i \in DOMAIN all : provideNamespace(all[i], ns)}
      asked == {i \in DOMAIN all : \A j \in yes : i <= j}
      wrappers == Cardinality({i \in asked : all[i].kind = "plugin"})
      file == NamespaceFile(ns)
      opened == file # NoFile /\ wrappers > 0
  IN /\ stop_register' = TRUE
     /\ IF opened
        THEN /\ dlopen(file, wrappers)
             /\ leaked' = [leaked EXCEPT ![file] = @ + IF Plugins[file].loads THEN wrappers ELSE 0]
        ELSE UNCHANGED <<loaded, creators, leaked>>
     /\ provided' = IF \E i \in yes : i \in asked /\ all[i].kind = "plugin" THEN provided \cup {file} ELSE provided
     /\ UNCHANGED <<components, served>>

getNamespaceComponent(ns) ==
  /\ Call /\ FreeIds # {}
  /\ LET named == {e.component : e \in {x \in namespace_exceptions : x.namespace = ns}}
     IN \/ \E name \in named :
             /\ Found(name, TRUE) \cup Found(name, FALSE) # {}
             /\ createComponent(name, Found(name, TRUE) # {}, TRUE)
             /\ UNCHANGED <<leaked, provided>>
        \/ /\ \A name \in named : Found(name, TRUE) \cup Found(name, FALSE) = {}
           /\ ProvidedByCreators(ns)
  /\ UNCHANGED namespace_exceptions

(* Y2PluginComponent's evaluate, import, getSCRAgent and doActualWork load *)
(* the plugin again when result has unloaded it.                           *)
evaluate(i) ==
  /\ Call
  /\ components[i].kind = "plugin" /\ ~components[i].handle
  /\ components' = [components EXCEPT ![i] = Wrapper(components[i].file, components[i].name, components[i].server)]
  /\ dlopen(components[i].file, 1)
  /\ UNCHANGED <<stop_register, namespace_exceptions, leaked, provided, served>>

dlclose(c) == loaded' = IF c.kind = "plugin" /\ c.handle THEN [loaded EXCEPT ![c.file] = @ - 1] ELSE loaded

result(i) ==
  /\ components[i].kind = "plugin"
  /\ components[i].handle \/ components[i].comp
  /\ components' = [components EXCEPT ![i].handle = FALSE, ![i].comp = FALSE]
  /\ dlclose(components[i])
  /\ UNCHANGED <<creators, stop_register, namespace_exceptions, leaked, provided, level, program, served, calls>>

(* The owner of a component deletes it, Import never does; of the WFM      *)
(* component, a static instance, this is the end of its use.               *)
Delete(i) ==
  /\ components[i].kind # "none" /\ ~components[i].kept
  /\ components' = [components EXCEPT ![i] = None]
  /\ dlclose(components[i])
  /\ UNCHANGED <<creators, stop_register, namespace_exceptions, leaked, provided, level, program, served, calls>>

(* launchExternalProgram: the child has Y2LEVEL from its component, and    *)
(* main of the child asks for the component by the same name.              *)
launchExternalProgram(i) ==
  LET c == components[i]
  IN /\ calls < MaxCalls /\ calls' = calls + 1
     /\ c.kind = "program"
     /\ \E p \in findy2exe(c.name, c.server, c.level) :
          LET start == Start(p.own, c.level)
          IN /\ creators' = start.creators /\ level' = start.level /\ loaded' = start.loaded
             /\ components' = start.components /\ leaked' = start.leaked /\ provided' = {}
             /\ stop_register' = FALSE /\ namespace_exceptions' = {}
             /\ program' = [name |-> p.name, server |-> p.server] /\ served' = "none"

(* main asks for the namespace UI before anything else.                    *)
Begin == ~stop_register /\ getNamespaceComponent("UI")

Next ==
  \/ Begin
  \/ /\ stop_register
     /\ \/ \E name \in Names : createServer(name) \/ createClient(name) \/ getNamespaceComponent(name)
        \/ \E i \in Ids : evaluate(i) \/ result(i) \/ Delete(i) \/ launchExternalProgram(i)

-----------------------------------------------------------------------------
TypeOK ==
  /\ stop_register \in BOOLEAN /\ loaded \in [Files -> Nat] /\ leaked \in [Files -> Nat]
  /\ level \in 0..Levels - 1 /\ provided \subseteq Files /\ calls \in 0..MaxCalls
  /\ namespace_exceptions \subseteq Exceptions
  /\ \A i \in Ids : components[i].kind \in {"none", "builtin", "plugin", "wfm", "program", "error"}

(* No creator in the lists of the broker and no component in use is part   *)
(* of a library that is not loaded any more: registration has stopped      *)
(* before the first plugin is loaded, and the library of a creator that    *)
(* registers itself all the same is never unloaded (loadPlugin: "Otherwise *)
(* [...] unloading would lead to a crash").  Every handle is accounted     *)
(* for: the plugins in use are loaded once per wrapper.                    *)
NothingUnloadedIsUsed ==
  /\ \A o \in Orders : \A k \in DOMAIN creators[o] : creators[o][k].lib \in Files => loaded[creators[o][k].lib] > 0
  /\ \A f \in provided : loaded[f] > 0
  /\ \A f \in Files :
       loaded[f] = leaked[f] + Cardinality({i \in Ids : components[i].kind = "plugin" /\ components[i].file = f /\ components[i].handle})
  /\ \A i \in Ids : components[i].kind = "plugin" /\ components[i].comp => components[i].handle

(* A program that was started for a component makes that component itself: *)
(* whatever plugins, scripts and programs of that name the levels have, it *)
(* does not start a program in turn (currentComponentLevel,                *)
(* Y2ComponentCreator::createInLevel, Y2LEVEL in launchExternalProgram).   *)
ProgramsServeThemselves == program.name # "y2base" => served \in {"none", "builtin"}
=============================================================================
