-------------------------- MODULE EmbeddedScripts --------------------------
(***************************************************************************)
(* scripts/check_no_embedded_scripts.py: the programs still written inside *)
(* tasks, units and roles' files, counted per category and file, and the   *)
(* ratchet over scripts/embedded_scripts_baseline.json.  What a file holds *)
(* is a set of occurrences, each of a kind and in a place.                 *)
(***************************************************************************)
EXTENDS Naturals, FiniteSets

CONSTANTS
    Files,         \* under roles/ and playbooks/: [path, archived, payload, suffix, program, config]
    Occurrences    \* [kind, place, n]

Kinds == {"shell", "script", "raw", "argv", "written", "inline", "console", "pipe"}
Places == {"code", "comment", "name"}   \* where in the file: a task's name, a comment line
Categories ==
    {"shell_tasks", "script_module", "raw_module", "inline_interpreters",
     "script_files", "console_programs", "pipe_lookups"}

ASSUME ScriptsAssumption ==
    /\ Files \subseteq [path : STRING, archived : BOOLEAN, payload : BOOLEAN,
                        suffix : {"yml", "j2", "other"}, program : BOOLEAN, config : BOOLEAN]
    /\ Occurrences \subseteq [kind : Kinds, place : Places, n : Nat]
    /\ IsFiniteSet(Occurrences)

(* _yaml_files: task files are neither a role's payload nor archived.      *)
TaskFile(f) == ~f.archived /\ ~f.payload /\ f.suffix = "yml"
TextFile(f) == ~f.archived /\ f.suffix \in {"yml", "j2"}
(* A program shipped by a role, its own configuration (APP_CONFIG) aside.  *)
Shipped(f) == ~f.archived /\ f.payload /\ f.program /\ ~f.config

(* _tasks: a comment is no task; what is parsed is not read as text.       *)
InTasks(f, held, kind) ==
    IF TaskFile(f) THEN Cardinality({o \in held : o.kind = kind /\ o.place = "code"}) ELSE 0
InText(f, held, kind, places) ==
    IF TextFile(f) THEN Cardinality({o \in held : o.kind = kind /\ o.place \in places}) ELSE 0

(* scan: what each category counts in file f holding the occurrences held. *)
Count(category, f, held) ==
    CASE category = "shell_tasks"         -> InTasks(f, held, "shell")
      [] category = "script_module"       -> InTasks(f, held, "script")
      [] category = "raw_module"          -> InTasks(f, held, "raw")
      [] category = "inline_interpreters" -> InTasks(f, held, "argv")
                                             + InText(f, held, "inline", {"code", "name"})
      [] category = "script_files"        -> InTasks(f, held, "written")
                                             + (IF Shipped(f) /\ held # {} THEN 1 ELSE 0)
      [] category = "console_programs"    -> InText(f, held, "console", {"code"})
      [] category = "pipe_lookups"        -> InText(f, held, "pipe", {"code"})

Scan(code) == [c \in Categories |-> [f \in Files |-> Count(c, f, code[f])]]

(* ratchet: what rose, and whether anything fell, file by file.            *)
Rose(found, baseline) == \E c \in Categories, f \in Files : found[c][f] > baseline[c][f]
(* As if a count that fell were let through.                               *)
NeverFell(found, baseline) == FALSE
Fell(found, baseline) == \E c \in Categories, f \in Files : found[c][f] < baseline[c][f]
==============================================================================
