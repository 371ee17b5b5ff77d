------------------------------ MODULE Settings ------------------------------
(***************************************************************************)
(* load_infra_settings() (config/loader.py): the environment laid over the *)
(* settings file.  The nested dictionaries of the code are here one        *)
(* function, from the path of each entry to what it is: a dictionary, or a *)
(* value.  Variables that hold a JSON object are left out.                 *)
(***************************************************************************)
EXTENDS Naturals, Sequences, FiniteSets, SequencesExt

CONSTANTS
  Paths,        \* the paths of settings, sequences of keys
  MaxEntries,   \* bound on the entries of the file
  MaxVariables  \* bound on the variables in the environment

VARIABLES
  file,         \* the content of the file
  environ,      \* the paths of the variables of os.environ that have been read
  settings,     \* the result of _read_env_settings()
  data,         \* the result of _deep_merge()
  merged        \* it has returned

settingsVars == <<file, environ, settings, data, merged>>

Dict == [kind |-> "dictionary"]
FileValue == [kind |-> "file"]
Variable(i) == [kind |-> "variable", number |-> i]

Empty == [p \in {} |-> Dict]

Init == file = Empty /\ environ = << >> /\ settings = Empty /\ data = Empty /\ merged = FALSE

\* A path and those of the dictionaries around it.
Above(path) == {SubSeq(path, 1, n) : n \in 1 .. Len(path)}

\* The file may hold anything, empty sections included.
WriteFile ==
  /\ environ = << >> /\ ~merged /\ Cardinality(DOMAIN file) < MaxEntries
  /\ \E p \in Paths \ DOMAIN file, entry \in {Dict, FileValue} :
       /\ \A q \in Above(p) \ {p} : q \in DOMAIN file /\ file[q] = Dict
       /\ file' = [q \in DOMAIN file \cup {p} |-> IF q = p THEN entry ELSE file[q]]
  /\ UNCHANGED <<environ, settings, data, merged>>

-----------------------------------------------------------------------------

\* _set_nested(): values on the way become dictionaries, and what was below the path goes.
SetNested(tree, path, value) ==
  [q \in {r \in DOMAIN tree : ~IsPrefix(path, r)} \cup Above(path) |->
     IF q = path THEN value ELSE IF q \in Above(path) THEN Dict ELSE tree[q]]

\* Paths come in the order of os.environ, and more than once if names differ in case only.
ReadVariable ==
  /\ ~merged /\ Len(environ) < MaxVariables
  /\ \E p \in Paths :
       /\ environ' = Append(environ, p)
       /\ settings' = SetNested(settings, p, Variable(Len(environ) + 1))
  /\ UNCHANGED <<file, data, merged>>

\* target[key] = value, unless both are dictionaries: those are merged
Replaced(target, source, path) ==
  path \in DOMAIN source /\ ~(path \in DOMAIN target /\ target[path] = Dict /\ source[path] = Dict)

\* Mutant: what was below a key that is replaced stays.
DeepMergeKeeps(target, source) ==
  [p \in DOMAIN target \cup DOMAIN source |-> IF p \in DOMAIN source THEN source[p] ELSE target[p]]

DeepMerge(target, source) ==
  LET kept == {p \in DOMAIN target : \A q \in Above(p) : ~Replaced(target, source, q)} IN
  [p \in kept \cup DOMAIN source |-> IF p \in DOMAIN source THEN source[p] ELSE target[p]]

Merge ==
  /\ ~merged
  /\ data' = DeepMerge(file, settings)
  /\ merged' = TRUE
  /\ UNCHANGED <<file, environ, settings>>

Next == WriteFile \/ ReadVariable \/ Merge

Spec == Init /\ [][Next]_settingsVars

-----------------------------------------------------------------------------

Values(tree) == {<<p, tree[p]>> : p \in {q \in DOMAIN tree : tree[q] # Dict}}

\* Settings of which one is, or would be, inside the other.
Clash(p, q) == IsPrefix(p, q) \/ IsPrefix(q, p)

\* Of variables that exclude each other the last one stays.
Stays(i) == \A j \in DOMAIN environ : j > i => ~Clash(environ[i], environ[j])

Lasting == {i \in DOMAIN environ : Stays(i)}

\* The environment wins, setting by setting: one from the file stays unless the environment
\* sets it, something below it or something above it.
EnvironmentWins ==
  merged =>
    Values(data) =
      {<<environ[i], Variable(i)>> : i \in Lasting} \cup
      {<<p, file[p]>> : p \in {q \in DOMAIN file :
         file[q] # Dict /\ \A i \in Lasting : ~Clash(q, environ[i])}}
=============================================================================
