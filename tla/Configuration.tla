----------------------------- MODULE Configuration -----------------------------
(* claw-config: loading a configuration file with its includes (loader.rs).  *)
(* A file is a value: an object with its keys and its $include if it has     *)
(* one, an array, a variable of the environment, or another scalar; None if  *)
(* it does not parse.  Variables are replaced in the text of the file, so    *)
(* that what a variable holds is parsed where it stands: env says what it    *)
(* becomes between quotes and outside of them, None being an error there     *)
(* (what it holds does not reach beyond its place).                          *)
EXTENDS Options, Naturals, Sequences, FiniteSets, SequencesExt

CONSTANTS Join(_, _),  \* the path that a directory and an include name
          Parent(_)    \* the directory of a path

Object(include, keys) == [kind |-> "object", include |-> include, keys |-> keys]

Array(items) == [kind |-> "array", items |-> items]

Scalar(text) == [kind |-> "scalar", text |-> text]

Variable(name, quoted) == [kind |-> "variable", name |-> name, quoted |-> quoted]
Holds(quoted, bare) == [quoted |-> quoted, bare |-> bare]

EmptyMap == [k \in {} |-> None]

\* A value and everything in it.
RECURSIVE Parts(_)
Parts(value) ==
    {value} \cup CASE value.kind = "object" -> UNION {Parts(value.keys[k]) : k \in DOMAIN value.keys}
                   [] value.kind = "array"  -> UNION {Parts(value.items[i]) : i \in DOMAIN value.items}
                   [] OTHER                 -> {}
Variables(value) == {v \in Parts(value) : v.kind = "variable"}
IncludesIn(value) == {v.include : v \in {w \in Parts(value) : w.kind = "object"}} \ {None}

--------------------------------------------------------------------------------
(* Loading *)

\* What a step of loading returns: its value, the issues it notes, and the
\* error that ends the loading, if any.
Result(value, issues, error) == [value |-> value, issues |-> issues, error |-> error]

\* A variable that is not set becomes the empty text, which is no value.
InPlace(variable, env) ==
    IF env[variable.name] = None THEN IF variable.quoted THEN Scalar("") ELSE None
    ELSE IF variable.quoted THEN env[variable.name].quoted ELSE env[variable.name].bare

RECURSIVE Placed(_, _)
Placed(value, env) ==
    CASE value.kind = "variable" -> InPlace(value, env)
      [] value.kind = "object"   -> [value EXCEPT !.keys = [k \in DOMAIN @ |-> Placed(@[k], env)]]
      [] value.kind = "array"    -> [value EXCEPT !.items = [i \in DOMAIN @ |-> Placed(@[i], env)]]
      [] OTHER                   -> value

\* What the file is once its variables are replaced, and those that are not set.
SubstituteEnvVars(file, env) ==
    IF file = None \/ \E v \in Variables(file) : InPlace(v, env) = None THEN None ELSE Placed(file, env)
NotSet(file, env) == {<<v.name>> : v \in {w \in Variables(file) : env[w.name] = None}}

\* Objects are merged, what else is in source replaces what is in target.
RECURSIVE DeepMerge(_, _)
DeepMerge(target, source) ==
    IF target.kind = "object" /\ source.kind = "object"
    THEN Object(IF source.include # None THEN source.include ELSE target.include,
                [k \in DOMAIN target.keys \cup DOMAIN source.keys |->
                    IF k \notin DOMAIN source.keys THEN target.keys[k]
                    ELSE IF k \notin DOMAIN target.keys THEN source.keys[k]
                    ELSE DeepMerge(target.keys[k], source.keys[k])])
    ELSE source

LoadAndParseFile(files, env, path) ==
    LET parsed == SubstituteEnvVars(files[path], env)
    IN IF path \notin DOMAIN files THEN Result(None, {}, "unreadable")
       ELSE IF parsed = None THEN Result(None, {}, "unparsable")
       ELSE Result(parsed, NotSet(files[path], env), None)

\* The members of an object or array are resolved one after the other, until
\* one fails; done says how far it got.
ResolveMembers(members, Resolve(_)) ==
    LET ran == FoldLeft(LAMBDA acc, i :
                   IF acc.error # None THEN acc
                   ELSE LET r == Resolve(members[i])
                        IN Result([acc.value EXCEPT ![i] = r.value], acc.issues \cup r.issues, r.error),
                   Result(members, {}, None), SetToSeq(DOMAIN members))
    IN ran

WithoutInclude(object) == [object EXCEPT !.include = None]

\* The file an object includes is resolved in its own directory and merged
\* over the object; then the object's members are resolved.  What is included
\* and is no object is dropped, one that cannot be loaded only noted.
RECURSIVE ResolveIncludes(_, _, _, _, _)
ResolveIncludes(files, env, value, dir, seen) ==
    LET Members(object, issues) ==
            LET r == ResolveMembers(object.keys, LAMBDA v : ResolveIncludes(files, env, v, dir, seen))
            IN Result([object EXCEPT !.keys = r.value], issues \cup r.issues, r.error)
        plain    == WithoutInclude(value)
        path     == Join(dir, value.include)
        loaded   == LoadAndParseFile(files, env, path)
        inner    == ResolveIncludes(files, env, loaded.value, Parent(path), seen \cup {path})
        merged   == DeepMerge(plain, inner.value)
    IN CASE value.kind = "array" ->
              LET r == ResolveMembers(value.items, LAMBDA v : ResolveIncludes(files, env, v, dir, seen))
              IN Result(Array(r.value), r.issues, r.error)
         [] value.kind # "object" -> Result(value, {}, None)
         [] value.kind = "object" /\ value.include = None -> Members(value, {})
         [] OTHER ->
              IF value.include = "not_a_text" THEN Result(value, {}, "invalid_include")
              ELSE IF path \in seen THEN Result(value, {}, "circular")
              ELSE IF loaded.error # None THEN Members(plain, {path})
              ELSE IF inner.error # None THEN inner
              ELSE Members(IF merged.kind = "object" THEN merged ELSE plain,
                           inner.issues \cup loaded.issues)

\* A file that does not exist gives the default configuration.
ReadConfigFileSnapshot(files, env, path) ==
    LET loaded == LoadAndParseFile(files, env, path)
        r == ResolveIncludes(files, env, loaded.value, Parent(path), {path})
    IN CASE loaded.error = "unreadable" -> Result(Object(None, EmptyMap), {path}, None)
         [] loaded.error = "unparsable" -> loaded
         [] OTHER -> [r EXCEPT !.issues = @ \cup loaded.issues]

--------------------------------------------------------------------------------
(* Properties *)

Edges(files, env, path) ==
    LET loaded == LoadAndParseFile(files, env, path)
    IN IF loaded.error # None THEN {}
       ELSE {Join(Parent(path), include) : include \in IncludesIn(loaded.value) \ {"not_a_text"}}

RECURSIVE ReachedFrom(_, _, _)
ReachedFrom(files, env, paths) ==
    LET more == paths \cup UNION {Edges(files, env, p) : p \in paths}
    IN IF more = paths THEN paths ELSE ReachedFrom(files, env, more)

\* Loading ends, with a configuration that has no include left, or with an
\* error that the files justify: a cycle is reported only when there is one,
\* though a file may be included in many places, and though a variable may hold
\* an include itself; a variable that is not set, outside of quotes, is an error
\* of its file.
IncludesResolve(files, env, path) ==
    LET r     == ReadConfigFileSnapshot(files, env, path)
        cycle == \E p \in ReachedFrom(files, env, {path}) :
                     p \in ReachedFrom(files, env, Edges(files, env, p))
    IN /\ r.error = None => IncludesIn(r.value) = {}
       /\ r.error = "circular" => cycle
       /\ ~cycle => r.error # "circular"
       /\ r.error = None => \A v \in Parts(r.value) : v # None /\ v.kind # "variable"
================================================================================
