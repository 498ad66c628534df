--------------------------- MODULE InventoryGuard ---------------------------
(***************************************************************************)
(* scripts/check_inventory_removed_vars.py: a change may not take a        *)
(* variable out of an environment's inventory while roles or playbooks     *)
(* name it.  An inventory file is the names at its top level, or sealed    *)
(* (encrypted, or no YAML), and then has none.                             *)
(***************************************************************************)
CONSTANTS
    VarsFiles,   \* under group_vars, host_vars: [env, path]
    Names        \* variables

Content == [names : SUBSET Names, sealed : BOOLEAN]

NamesIn(content) == IF content.sealed THEN {} ELSE content.names
Envs == {f.env : f \in VarsFiles}
(* As if each file were compared with itself.                              *)
NamesAnywhere(inventory, env) == UNION {NamesIn(inventory[f]) : f \in VarsFiles}
NamesByEnv(inventory, env) == UNION {NamesIn(inventory[f]) : f \in {g \in VarsFiles : g.env = env}}

Removed(base, now) ==
    {x \in Envs \X Names : x[2] \in NamesByEnv(base, x[1]) \ NamesByEnv(now, x[1])}

(* check: removed, still read by a file, and not listed with a reason.     *)
Problems(base, now, reads, accepted) ==
    {x \in Removed(base, now) : x[2] \in reads \ accepted}
==============================================================================
