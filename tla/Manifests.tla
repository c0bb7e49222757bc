----------------------------- MODULE Manifests -----------------------------
(***************************************************************************)
(* What an adapter's manifest says, when it is refused, and the command    *)
(* line it makes of a task and a project's settings                        *)
(* (crates/forge-daemon/src/adapters/{manifest,mod,settings}.rs).          *)
(*                                                                         *)
(* Text is a sequence of tokens: the braces "{" and "}", white space " ",  *)
(* and words.  A command line is a sequence of texts, one per argv element. *)
(***************************************************************************)
EXTENDS Naturals, SequencesExt, FiniteSetsExt

CONSTANTS
    Paths,        \* binaries that hold a slash or two dots
    UnusableKeys, \* key names tmux could take for something else
    NotToml       \* a file that is no manifest at all

(***************************************************************************)
(* A manifest has version, id, name, binary, status (the marker sets, each *)
(* the markers it holds), keys (every key of answers and of submit_keys),   *)
(* launch_args and settings, a sequence of [key, kind, args].               *)
(***************************************************************************)
MANIFEST_VERSION == 1
SettingKind == {"text", "number", "flag", "args"}
Texts == Seq(STRING)
Setting == [key : STRING, kind : SettingKind, args : Seq(Texts)]
Manifests == [version : Nat, id : STRING, name : Texts, binary : Texts,
    status : Seq(SUBSET STRING), keys : SUBSET STRING,
    launch_args : Seq(Texts), settings : Seq(Setting)]
Space == " "
TooLong == "longer than MAX_MARKER"

\* What a template may ask for.
PLACEHOLDERS == {<<"value">>, <<"prompt">>, <<"task_id">>, <<"task_title">>}

(***************************************************************************)
(* A text is gone through from place to place: at place i something is     *)
(* added to what was gathered so far, and the loop goes on at goesOn[i].    *)
(***************************************************************************)
Gather(adds, goesOn) ==
    LET gathered[i \in 1 .. Len(adds) + 1] ==
            IF i \in DOMAIN adds THEN adds[i] \o gathered[goesOn[i]] ELSE <<>>
    IN  gathered[1]

\* str::find, from a place on; the place after the end where there is none.
Find(text, i, token) == Min({j \in i .. Len(text) : text[j] = token} \cup {Len(text) + 1})

\* The {name} met next.  A brace that nothing closes is a literal one.
Opens(text, i) == Find(text, i, "{")
Closes(text, i) == Find(text, Opens(text, i), "}")
NameAt(text, i) == SubSeq(text, Opens(text, i) + 1, Closes(text, i) - 1)
AfterName(text) ==
    [i \in DOMAIN text |-> IF Closes(text, i) > Len(text) THEN Len(text) + 1 ELSE Closes(text, i) + 1]

\* Every {name} of a template is a placeholder.
CheckPlaceholders(template) ==
    LET name  == [i \in DOMAIN template |->
            IF Closes(template, i) > Len(template) THEN <<>> ELSE <<NameAt(template, i)>>]
    IN  ToSet(Gather(name, AfterName(template))) \subseteq PLACEHOLDERS

IsBlank(text) == ToSet(text) \subseteq {Space}

\* Manifest::validate, on a manifest that parsed.
Valid(m) ==
    /\ m.version = MANIFEST_VERSION
    /\ ~ IsBlank(m.name)
    /\ ~ IsBlank(m.binary)
    /\ m.binary \notin Paths
    /\ m.status # <<>>
    /\ \A set \in ToSet(m.status) : Space \notin set /\ TooLong \notin set
    /\ \A i, j \in DOMAIN m.settings : m.settings[i].key = m.settings[j].key => i = j
    /\ \A s \in ToSet(m.settings) : \A t \in ToSet(s.args) : CheckPlaceholders(t)
    /\ \A t \in ToSet(m.launch_args) : CheckPlaceholders(t)
    /\ m.keys \cap UnusableKeys = {}

\* manifest::parse
Parses(m) == m # NotToml /\ Valid(m)
-----------------------------------------------------------------------------
(***************************************************************************)
(* The command line.  A task has adapter, id, title and prompt; the values *)
(* of a project's settings are [type, text] under their keys.              *)
(***************************************************************************)
Substitute(name, value, task) ==
    CASE name \in {<<"value">>, <<"prompt">>} -> value
      [] name = <<"task_id">> -> <<task.id>>
      [] name = <<"task_title">> -> task.title
      [] OTHER -> <<"{">> \o name \o <<"}">>

\* A plausible defect: one replacement after the other, each in what the last one left.
HoleOf(name, text, i) == i \in 1 .. Len(text) - 2 /\ SubSeq(text, i, i + 2) = <<"{", name, "}">>
Replaced(name, with, text) ==
    FlattenSeq([i \in DOMAIN text |->
        CASE HoleOf(name, text, i) -> with
          [] HoleOf(name, text, i - 1) \/ HoleOf(name, text, i - 2) -> <<>>
          [] OTHER -> <<text[i]>>])
Fill_InTurn(template, value, task) ==
    LET valued == Replaced("value", value, template)
    IN  Replaced("task_title", task.title, Replaced("task_id", <<task.id>>, valued))

\* One pass: what a value brings along is not looked at again.
Fill(template, value, task) ==
    LET filled == [i \in DOMAIN template |->
            IF Closes(template, i) > Len(template) THEN SubSeq(template, i, Len(template))
            ELSE SubSeq(template, i, Opens(template, i) - 1)
                 \o Substitute(NameAt(template, i), value, task)]
    IN  Gather(filled, AfterName(template))

\* str::split_whitespace
SplitWhitespace(text) ==
    LET end(i) == Find(text, i, Space)
        word   == [i \in DOMAIN text |->
            IF text[i] = Space THEN <<>> ELSE << SubSeq(text, i, end(i) - 1) >>]
        goesOn == [i \in DOMAIN text |-> IF text[i] = Space THEN i + 1 ELSE end(i)]
    IN  Gather(word, goesOn)

\* Whether a value is of the kind its setting declares (settings::matches_kind).
MatchesKind(kind, value) ==
    \/ kind \in {"text", "args"} /\ value.type = "string"
    \/ kind = "number" /\ value.type = "number"
    \/ kind = "flag" /\ value.type = "bool"

\* What one setting adds to the command line; a value of another kind, nothing.
SettingArgs(setting, values, task) ==
    LET value  == values[setting.key]
        filled == IF setting.kind = "flag" THEN <<>> ELSE value.text
    IN  IF \/ setting.key \notin DOMAIN values
           \/ ~ MatchesKind(setting.kind, value)
           \/ setting.kind = "flag" /\ value.text # <<"true">>
        THEN <<>>
        ELSE IF setting.kind = "args" THEN SplitWhitespace(value.text)
        ELSE [i \in DOMAIN setting.args |-> Fill(setting.args[i], filled, task)]

LaunchArgs(m, values, task) ==
    FlattenSeq([i \in DOMAIN m.settings |-> SettingArgs(m.settings[i], values, task)])

\* Binary, declared arguments, settings, and the prompt as the last element.
LaunchCommand(m, values, task) ==
    <<m.binary>>
    \o [i \in DOMAIN m.launch_args |-> Fill(m.launch_args[i], <<>>, task)]
    \o LaunchArgs(m, values, task)
    \o IF IsBlank(task.prompt) THEN <<>> ELSE <<task.prompt>>

IsScalar(value) == value.type \in {"string", "number", "bool"}

(***************************************************************************)
(* settings::validate of the values kept for one loaded adapter: scalars,  *)
(* and of the declared kind where the manifest declares the key.            *)
(***************************************************************************)
AcceptsValues(m, values) ==
    \A key \in DOMAIN values :
        /\ IsScalar(values[key])
        /\ \A s \in ToSet(m.settings) :
               s.key = key => MatchesKind(s.kind, values[key])
=============================================================================
