------------------------------ MODULE Adapters ------------------------------
(***************************************************************************)
(* The adapter registry (crates/forge-daemon/src/adapters/registry.rs): it *)
(* is loaded once, at its first use, and again by POST /adapters/reload.    *)
(* A load lists the adapters directory and then reads file after file,     *)
(* outside the registry's lock, while people edit the files; the result is *)
(* swapped in at the end.  Creating a task, saving a project's settings and *)
(* starting a task look at the registry as it is at that moment: a start    *)
(* looks twice, before and after it has probed the agent's binary.         *)
(***************************************************************************)
EXTENDS Manifests

CONSTANTS
    Files,     \* how many files the directory may hold, in the order of their names
    Text,      \* what a file may say: a name for every manifest
    Manifest,  \* [Text -> what it says, or NotToml]
    BuiltIn,   \* the texts compiled into the daemon, a sequence
    Blob,      \* the settings a project may be given: [id -> [key -> value]]
    Task,      \* the tasks people may create: [adapter, id, title, prompt]
    Reloader,  \* requests to reload that may overlap
    Absent, Unreadable,  \* a name without a file; a file that cannot be read
    NotAnObject,         \* what somebody gives in place of an adapter's settings
    NoRegistry, NoStart, NoCommand,
    MaxEdits   \* how often a file is written, removed or made unreadable

ASSUME FilesAssumption == Files \in Nat /\ MaxEdits \in Nat
ASSUME TextAssumption ==
    /\ DOMAIN Manifest = Text
    /\ {Absent, Unreadable} \cap Text = {}
    /\ BuiltIn \in Seq(Text)
    /\ \A text \in Text : Manifest[text] \in Manifests \cup {NotToml}
\* The two manifests the daemon ships with are sound, and have ids of their own.
ASSUME BuiltInAssumption ==
    /\ \A i \in DOMAIN BuiltIn : Parses(Manifest[BuiltIn[i]])
    /\ \A i, j \in DOMAIN BuiltIn :
           Manifest[BuiltIn[i]].id = Manifest[BuiltIn[j]].id => i = j
\* A project starts without settings; those it is given are JSON values by key.
Values(v) == \A key \in DOMAIN v : v[key] \in [type : STRING, text : Texts]
ASSUME BlobAssumption ==
    /\ <<>> \in Blob
    /\ \A b \in Blob : \A id \in DOMAIN b : b[id] = NotAnObject \/ Values(b[id])
ASSUME TaskAssumption == Task \subseteq [adapter : STRING, id : STRING, title : Texts, prompt : Texts]

File == 1 .. Files
FirstUse == "first use"         \* OnceLock::get_or_init
Loader == Reloader \cup {FirstUse}

VARIABLES
    dir,       \* the adapters directory: what every file says
    edits,     \* how often it was changed
    registry,  \* NoRegistry, or what was loaded, with the files and edits it saw
    loader,    \* the loads under way
    tasks,     \* the tasks in the store
    blob,      \* the project's adapter settings
    start,     \* the start under way: its task, the settings it read, and whether
               \* it has found an adapter to probe
    launched   \* the last command line given to the session manager, until the next start

registryVars == <<dir, edits, registry, loader, tasks, blob, start, launched>>

\* Loaded: adapters by text and file, and errors by file.  Built-ins have file 0.
Id(entry) == Manifest[entry.text].id
BuiltIns == [i \in DOMAIN BuiltIn |-> [text |-> BuiltIn[i], source |-> 0]]
Entry == [text : Text, source : 0 .. Files]
Reason == {"cannot read it", "invalid", "already loaded"}
LoadError == [source : File, detail : Reason]
Loaded == [adapters : Seq(Entry), errors : Seq(LoadError), listed : SUBSET File, asOf : 0 .. MaxEdits]
Idle == [todo |-> {}, fresh |-> NoRegistry]

RegistryTypeOK ==
    /\ dir \in [File -> Text \cup {Absent, Unreadable}]
    /\ edits \in 0 .. MaxEdits
    /\ registry \in Loaded \cup {NoRegistry}
    /\ loader \in [Loader -> [todo : SUBSET File, fresh : Loaded \cup {NoRegistry}]]
    /\ tasks \subseteq Task
    /\ blob \in Blob
    /\ start \in [task : tasks, blob : Blob, found : BOOLEAN] \cup {NoStart}
    /\ launched # NoCommand =>
           launched.task \in tasks /\ launched.entry \in Entry /\ launched.blob \in Blob

RegistryInit ==
    /\ dir \in [File -> Text \cup {Absent}]
    /\ edits = 0
    /\ registry = NoRegistry
    /\ loader = [l \in Loader |-> Idle]
    /\ tasks = {}
    /\ blob = <<>>
    /\ start = NoStart
    /\ launched = NoCommand
-----------------------------------------------------------------------------
(***************************************************************************)
(* Loading: the built-ins, then the files that were listed, in the order   *)
(* of their names.                                                         *)
(***************************************************************************)
Present == {f \in File : dir[f] # Absent}

\* What the system answers when it is asked for the directory: an entry that
\* cannot be read is left out (flatten), and a directory that cannot be listed, or
\* not even be found, is one without files.
Listings == SUBSET Present

List(l) ==
    /\ loader[l] = Idle
    /\ l = FirstUse => registry = NoRegistry
    /\ \E found \in Listings :
           loader' = [loader EXCEPT ![l] =
               [todo  |-> found,
                fresh |-> [adapters |-> BuiltIns, errors |-> <<>>, listed |-> found, asOf |-> edits]]]
    /\ UNCHANGED <<dir, edits, registry, tasks, blob, start, launched>>

Refuse(loaded, f, why) ==
    [loaded EXCEPT !.errors = Append(@, [source |-> f, detail |-> why])]

\* A plausible defect: a file whose id is taken is skipped without a word.
LoadFile_SkipsDuplicates(loaded, f) ==
    CASE dir[f] \in {Absent, Unreadable} -> Refuse(loaded, f, "cannot read it")
      [] dir[f] \in Text /\ ~ Parses(Manifest[dir[f]]) -> Refuse(loaded, f, "invalid")
      [] OTHER ->
           IF \E had \in ToSet(loaded.adapters) : Id(had) = Manifest[dir[f]].id
           THEN loaded
           ELSE [loaded EXCEPT !.adapters = Append(@, [text |-> dir[f], source |-> f])]

\* What one file adds to what is loaded already.
LoadFile(loaded, f) ==
    CASE dir[f] \in {Absent, Unreadable} -> Refuse(loaded, f, "cannot read it")
      [] dir[f] \in Text /\ ~ Parses(Manifest[dir[f]]) -> Refuse(loaded, f, "invalid")
      [] OTHER ->
           IF \E had \in ToSet(loaded.adapters) : Id(had) = Manifest[dir[f]].id
           THEN Refuse(loaded, f, "already loaded")
           ELSE [loaded EXCEPT !.adapters = Append(@, [text |-> dir[f], source |-> f])]

\* A plausible defect: files are read in an order that is not that of their names.
ReadFile_Unsorted(l) ==
    /\ loader[l].todo # {}
    /\ LET f == Max(loader[l].todo)
       IN  loader' = [loader EXCEPT ![l] = [todo |-> @.todo \ {f}, fresh |-> LoadFile(@.fresh, f)]]
    /\ UNCHANGED <<dir, edits, registry, tasks, blob, start, launched>>

\* The paths are sorted, so that the least is read next.
ReadFile(l) ==
    /\ loader[l].todo # {}
    /\ LET f == Min(loader[l].todo)
       IN  loader' = [loader EXCEPT ![l] = [todo |-> @.todo \ {f}, fresh |-> LoadFile(@.fresh, f)]]
    /\ UNCHANGED <<dir, edits, registry, tasks, blob, start, launched>>

\* A reload may find that the first load has yet to be made, and waits for it.
Swap(l) ==
    /\ loader[l] # Idle /\ loader[l].todo = {}
    /\ l # FirstUse => registry # NoRegistry
    /\ registry' = loader[l].fresh
    /\ loader' = [loader EXCEPT ![l] = Idle]
    /\ UNCHANGED <<dir, edits, tasks, blob, start, launched>>
-----------------------------------------------------------------------------
(***************************************************************************)
(* Its users.  Each of them waits while the first load is under way.       *)
(***************************************************************************)
Called(id) == {e \in ToSet(registry.adapters) : Id(e) = id}

\* POST /tasks: a task names an adapter that is loaded.
Create(t) ==
    /\ registry # NoRegistry
    /\ Called(t.adapter) # {}
    /\ tasks' = tasks \cup {t}
    /\ UNCHANGED <<dir, edits, registry, loader, blob, start, launched>>

(***************************************************************************)
(* PATCH /projects/:id, or the settings a project is registered with: they *)
(* are held against the manifests loaded now, and kept untouched where no  *)
(* manifest speaks of them.  The blob replaces the one before.             *)
(***************************************************************************)
\* settings::parse: whatever adapter they are for, settings are an object.
WellFormed(b) == \A id \in DOMAIN b : b[id] # NotAnObject

ValidBlob(b) ==
    \A e \in ToSet(registry.adapters) :
        Id(e) \in DOMAIN b => AcceptsValues(Manifest[e.text], b[Id(e)])

SaveSettings(b) ==
    /\ registry # NoRegistry
    /\ WellFormed(b) /\ ValidBlob(b)
    /\ blob' = b
    /\ UNCHANGED <<dir, edits, registry, loader, tasks, start, launched>>

\* start: the task and its project are read, and then the session manager asked
\* whether it can run anything.  One start at a time: two of them share nothing but
\* what they read.
Begin(t) ==
    /\ t \in tasks /\ start = NoStart
    /\ start' = [task |-> t, blob |-> blob, found |-> FALSE]
    /\ launched' = NoCommand
    /\ UNCHANGED <<dir, edits, registry, loader, tasks, blob>>

\* require_agent: the adapter is looked up, and its binary probed.
Probe ==
    /\ start # NoStart /\ ~ start.found
    /\ registry # NoRegistry
    /\ Called(start.task.adapter) # {}
    /\ start' = [start EXCEPT !.found = TRUE]
    /\ UNCHANGED <<dir, edits, registry, loader, tasks, blob, launched>>

\* Nothing can be run, the binary does not answer, or the adapter is not loaded.
Unavailable ==
    /\ start # NoStart
    /\ start' = NoStart
    /\ UNCHANGED <<dir, edits, registry, loader, tasks, blob, launched>>

ValuesFor(b, id) == IF id \in DOMAIN b THEN b[id] ELSE <<>>

\* The adapter is looked up again, and the settings are those read at first.
Launch ==
    /\ start # NoStart /\ start.found
    /\ registry # NoRegistry
    /\ \E e \in Called(start.task.adapter) :
           launched' = [task |-> start.task, entry |-> e, blob |-> start.blob,
               argv |-> LaunchCommand(Manifest[e.text],
                            ValuesFor(start.blob, start.task.adapter), start.task)]
    /\ start' = NoStart
    /\ UNCHANGED <<dir, edits, registry, loader, tasks, blob>>
-----------------------------------------------------------------------------
\* Somebody writes a file, removes it or takes away the right to read it.
Edit(f, text) ==
    /\ edits < MaxEdits
    /\ text # dir[f]
    /\ dir' = [dir EXCEPT ![f] = text]
    /\ edits' = edits + 1
    /\ UNCHANGED <<registry, loader, tasks, blob, start, launched>>

\* The daemon ends.
DaemonEnds ==
    /\ registry' = NoRegistry
    /\ loader' = [l \in Loader |-> Idle]
    /\ start' = NoStart /\ launched' = NoCommand
    /\ UNCHANGED <<dir, edits, tasks, blob>>

RegistryNext ==
    \/ \E l \in Loader : List(l) \/ ReadFile(l) \/ Swap(l)
    \/ \E t \in Task : Create(t) \/ Begin(t)
    \/ Probe \/ Unavailable \/ Launch
    \/ \E b \in Blob : SaveSettings(b)
    \/ \E f \in File, text \in Text \cup {Absent, Unreadable} : Edit(f, text)
    \/ DaemonEnds

RegistrySpec == RegistryInit /\ [][RegistryNext]_registryVars
-----------------------------------------------------------------------------
(***************************************************************************)
(* Properties                                                              *)
(***************************************************************************)

\* Where the adapters and the errors of a load come from; Served, Failed: which
\* of the files it has listed.
Origin(loaded, i) == loaded.adapters[i].source
FromFile(loaded) == DOMAIN loaded.adapters \ DOMAIN BuiltIn
Served(loaded) == {Origin(loaded, i) : i \in FromFile(loaded)}
Failed(loaded) == {loaded.errors[i].source : i \in DOMAIN loaded.errors}

\* Nothing a load listed is passed over in silence: every file is an adapter or
\* an error, once, also when it was changed or removed while the load read it;
\* the built-ins come first, and no two adapters answer to one id, so that a
\* file never takes over a built-in's or another file's (registry.rs, load_dir).
BuiltInsFirst(loaded) ==
    \A i \in DOMAIN BuiltIn : i \in DOMAIN loaded.adapters /\ loaded.adapters[i] = BuiltIns[i]
EachOnce(loaded) ==
    /\ Served(loaded) \cap Failed(loaded) = {}
    /\ \A i, j \in FromFile(loaded) : Origin(loaded, i) = Origin(loaded, j) => i = j
    /\ \A i, j \in DOMAIN loaded.errors : loaded.errors[i].source = loaded.errors[j].source => i = j
OneId(loaded) ==
    \A i, j \in DOMAIN loaded.adapters : Id(loaded.adapters[i]) = Id(loaded.adapters[j]) => i = j
NothingIsHidden ==
    registry # NoRegistry =>
        /\ BuiltInsFirst(registry)
        /\ Served(registry) \cup Failed(registry) = registry.listed
        /\ EachOnce(registry)
        /\ OneId(registry)

\* When nothing was edited since a load listed the directory, the registry is
\* what the listed files say, whatever was edited, loaded and swapped before, in
\* the order of their names: among listed files that name one id, the first sound
\* one by name serves it.  A file that the listing left out, all of them when the
\* directory could not be listed, is neither served nor reported (load_dir).
Sound(f) == dir[f] \in Text /\ Parses(Manifest[dir[f]])
Wins(f, listed) ==
    /\ Sound(f)
    /\ \A b \in ToSet(BuiltIn) : Manifest[b].id # Manifest[dir[f]].id
    /\ \A g \in listed : g < f /\ Sound(g) => Manifest[dir[g]].id # Manifest[dir[f]].id
InOrder(loaded) ==
    \A i, j \in FromFile(loaded) : i < j => Origin(loaded, i) < Origin(loaded, j)
AsWritten(loaded) ==
    /\ \A i \in FromFile(loaded) : loaded.adapters[i].text = dir[Origin(loaded, i)]
    /\ \A i \in DOMAIN loaded.errors :
           loaded.errors[i].detail = "already loaded" <=> Sound(loaded.errors[i].source)

RegistryIsDirectory ==
    registry # NoRegistry /\ registry.asOf = edits =>
        /\ BuiltInsFirst(registry) /\ InOrder(registry) /\ AsWritten(registry)
        /\ registry.listed \subseteq Present
        /\ Served(registry) = {f \in registry.listed : Wins(f, registry.listed)}
        /\ Failed(registry) = registry.listed \ Served(registry)

\* A template with its placeholders replaced where they stand in the template,
\* never in what replaced another, and everything else left as it is.
Holes(t) == {i \in 1 .. Len(t) - 2 :
                t[i] = "{" /\ t[i + 2] = "}" /\ <<t[i + 1]>> \in PLACEHOLDERS}
Filled(t, value, task) ==
    FlattenSeq([i \in DOMAIN t |->
        CASE i \in Holes(t) -> Substitute(<<t[i + 1]>>, value, task)
          [] i - 1 \in Holes(t) \/ i - 2 \in Holes(t) -> <<>>
          [] OTHER -> <<t[i]>>])

\* The words of a text: its longest runs without white space.
WordAt(text, i) ==
    SubSeq(text, i, Max({j \in i .. Len(text) : Space \notin ToSet(SubSeq(text, i, j))}))
Words(text) ==
    FlattenSeq([i \in DOMAIN text |->
        IF text[i] # Space /\ (i = 1 \/ text[i - 1] = Space) THEN <<WordAt(text, i)>> ELSE <<>>])

Declares(s, v) ==
    \/ <<s.kind, v.type>> \in {<<"text", "string">>, <<"args", "string">>, <<"number", "number">>}
    \/ s.kind = "flag" /\ v.type = "bool" /\ v.text = <<"true">>

FilledAll(templates, value, task) ==
    [i \in DOMAIN templates |-> Filled(templates[i], value, task)]
Adds(s, values, task) ==
    IF s.key \in DOMAIN values /\ Declares(s, values[s.key])
    THEN CASE s.kind = "args" -> Words(values[s.key].text)
           [] s.kind = "flag" -> FilledAll(s.args, <<>>, task)
           [] OTHER -> FilledAll(s.args, values[s.key].text, task)
    ELSE <<>>
Declared(m, values, task) ==
    <<m.binary>>
    \o FilledAll(m.launch_args, <<>>, task)
    \o FlattenSeq([i \in DOMAIN m.settings |-> Adds(m.settings[i], values, task)])
    \o IF IsBlank(task.prompt) THEN <<>> ELSE <<task.prompt>>

\* A task is started with the command line the manifest of its own adapter
\* declares, and no other: a sound manifest, the built-in where the id is a
\* built-in's, with the values of the declared kinds in their places as they
\* were saved, though they may have been saved under another manifest or under
\* none, and with the prompt last and as one element (Adapter::launch_command).
LaunchIsDeclared ==
    launched # NoCommand =>
        LET t == launched.task
            e == launched.entry
            m == Manifest[e.text]
        IN  /\ m.id = t.adapter /\ Parses(m)
            /\ (\E b \in ToSet(BuiltIn) : Manifest[b].id = t.adapter) => e \in ToSet(BuiltIns)
            /\ launched.argv = Declared(m, ValuesFor(launched.blob, t.adapter), t)
-----------------------------------------------------------------------------
(***************************************************************************)
(* Why it holds: the inductive invariant                                   *)
(***************************************************************************)

\* A load has gone through the files below those it has yet to read, whatever
\* became of them meanwhile.
LoadOK(loaded, todo) ==
    /\ todo \subseteq loaded.listed
    /\ \A f \in loaded.listed \ todo, g \in todo : f < g
    /\ BuiltInsFirst(loaded) /\ OneId(loaded) /\ InOrder(loaded)
    /\ \A i \in DOMAIN loaded.adapters : Parses(Manifest[loaded.adapters[i].text])
    /\ Served(loaded) \cup Failed(loaded) = loaded.listed \ todo
    /\ Served(loaded) \cap Failed(loaded) = {}
    /\ \A i, j \in DOMAIN loaded.errors :
           i < j => loaded.errors[i].source < loaded.errors[j].source

\* And while nobody has edited the directory, it says what the directory says of
\* them: every sound one is served, or refused because its id is.
AsOfOK(loaded, todo) ==
    /\ loaded.asOf <= edits
    /\ loaded.asOf = edits =>
        /\ loaded.listed \subseteq Present
        /\ AsWritten(loaded)
        /\ \A f \in loaded.listed \ todo :
            /\ f \in Served(loaded) <=> Wins(f, loaded.listed)
            /\ Sound(f) => \E i \in DOMAIN loaded.adapters :
                               Id(loaded.adapters[i]) = Manifest[dir[f]].id

LoadsOK ==
    /\ registry # NoRegistry => LoadOK(registry, {}) /\ AsOfOK(registry, {})
    /\ \A l \in Loader : loader[l] # Idle =>
           /\ loader[l].fresh \in Loaded
           /\ LoadOK(loader[l].fresh, loader[l].todo)
           /\ AsOfOK(loader[l].fresh, loader[l].todo)

\* What is started is one of the adapters of a registry, and the settings it is
\* started with were once accepted.
LaunchOK ==
    /\ WellFormed(blob)
    /\ start # NoStart => WellFormed(start.blob)
    /\ launched # NoCommand =>
        LET t == launched.task
            m == Manifest[launched.entry.text]
        IN  /\ WellFormed(launched.blob)
            /\ m.id = t.adapter /\ Parses(m)
            /\ (\E b \in ToSet(BuiltIn) : Manifest[b].id = t.adapter) =>
                   launched.entry \in ToSet(BuiltIns)
            /\ launched.argv = LaunchCommand(m, ValuesFor(launched.blob, t.adapter), t)

RegistryIInv == RegistryTypeOK /\ LoadsOK /\ LaunchOK
=============================================================================
