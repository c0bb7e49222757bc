---------------------------- MODULE MCAdapters ----------------------------
(* A built-in that a file may copy, two manifests of one id, one of another *)
(* and one that is refused; a project's settings that suit one manifest of *)
(* the id and not the other.                                               *)
EXTENDS Adapters

M(id, binary, version, launch, settings) ==
    [version |-> version, id |-> id, name |-> <<id>>, binary |-> binary,
     status |-> <<{"marker"}>>, keys |-> {"Enter"},
     launch_args |-> launch, settings |-> settings]
S(key, kind, args) == [key |-> key, kind |-> kind, args |-> args]
Value == <<"{", "value", "}">>

MCManifest ==
    "claude" :> M("claude-code", <<"claude">>, 1, <<>>, <<S("model", "text", <<<<"--model">>, Value>>)>>)
 @@ "aider"  :> M("aider", <<"aider">>, 1,
                  <<<<"--task=", "{", "task_id", "}", "{">>>>,
                  <<S("model", "text", <<<<"m=">> \o Value \o <<"{", "task_title", "}">>>>),
                    S("extra", "args", <<>>)>>)
 @@ "fork"   :> M("aider", <<"fork">>, 1, <<>>,
                  <<S("model", "flag", <<<<"--best">> \o Value>>), S("extra", "number", <<Value>>)>>)
 @@ "zed"    :> M("zed", <<"zed">>, 1, <<>>, <<>>)
 @@ "typo"   :> M("aider", <<"aider">>, 1, <<<<"{", "{", "moddel", "}">>>>, <<>>)
MCText == DOMAIN MCManifest

MCBuiltIn == <<"claude">>

V(type, text) == [type |-> type, text |-> text]
MCBlob == {<<>>, "gone" :> NotAnObject,
    "aider" :> ("model" :> V("string", <<"{", "task_title", "}">>)
             @@ "extra" :> V("string", <<" ", "-x", " ", "{", "value", "}">>))}

MCTask == {
    [adapter |-> "aider", id |-> "1", title |-> <<"fix", " ", "{", "value", "}">>, prompt |-> <<"--help", " ", "me">>]}
=============================================================================
