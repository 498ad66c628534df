-------------------------- MODULE MCChangeGates ----------------------------
(* Two pull requests over a small tree, and inspections of small graphs.   *)
EXTENDS ChangeGates

File(path, archived, payload, suffix, program) ==
    [path |-> path, archived |-> archived, payload |-> payload, suffix |-> suffix,
     program |-> program, config |-> FALSE]
TaskYml == File("tasks", FALSE, FALSE, "yml", FALSE)
UnitJ2 == File("unit", FALSE, TRUE, "j2", TRUE)
SomeFiles == {TaskYml, UnitJ2}
Held(kind, place, n) == [kind |-> kind, place |-> place, n |-> n]
SomeOccurrences == {Held("shell", "code", 1), Held("shell", "code", 2), Held("inline", "name", 1)}

Prod(path) == [env |-> "prod", path |-> path]
SomeVarsFiles == {Prod("all"), Prod("web"), [env |-> "test", path |-> "all"]}

Role(reads, refs, contained) ==
    [reads |-> reads, gathers |-> FALSE, refs |-> refs, meta |-> {}, writes |-> {},
     people |-> FALSE, contained |-> contained]
Play(roles) == [exists |-> TRUE, facts |-> FALSE, data |-> FALSE, roles |-> roles]
Svc(name, role, playbook) == [name |-> name, role |-> role, playbook |-> playbook]
Web == Svc("web", "web", "web.yml")
Mail == Svc("mail", "mail", "mail.yml")
BothServices == {Web, Mail}

Tree ==
    [code |-> [f \in SomeFiles |-> IF f = TaskYml THEN {Held("shell", "code", 1)} ELSE {}],
     baseline |-> [k \in Categories |-> [f \in SomeFiles |->
                       IF k = "shell_tasks" /\ f = TaskYml THEN 1 ELSE 0]],
     inventory |-> [f \in SomeVarsFiles |-> [names |-> {"v"}, sealed |-> FALSE]],
     reads |-> {"v"}, accepted |-> {},
     roles |-> [r \in {"web", "mail", "cert"} |->
                   CASE r = "cert" -> Role(FALSE, << >>, FALSE)
                     [] r = "web"  -> Role(FALSE, <<"cert">>, TRUE)
                     [] r = "mail" -> Role(FALSE, <<"web", "cert">>, TRUE)],
     plays |-> [p \in {"web.yml", "mail.yml"} |-> Play(<<IF p = "web.yml" THEN "web" ELSE "mail">>)],
     listed |-> <<Mail, Web>>, held |-> {"web"}]
SomeRoleEdits ==
    {<<"cert", Role(TRUE, << >>, FALSE)>>, <<"web", Role(FALSE, <<"mail">>, TRUE)>>,
     <<"mail", Role(FALSE, <<"cert">>, FALSE)>>}
SomePlaybookEdits == {<<"web.yml", [Play(<<"web">>) EXCEPT !.facts = TRUE]>>}

Names3 == {"a", "b", "c"}
Graph(edges) == [r \in Names3 |-> {x \in Names3 : <<r, x>> \in edges}]
SomeTrees ==
    {[refs |-> Graph(edges),
      uses |-> [p \in Plays |-> IF p = "svc" THEN {"a"} ELSE IF p = "old" THEN {"c"} ELSE {}],
      imports |-> [p \in Plays |-> IF p = "site" THEN {"svc"} ELSE {}]] :
     edges \in {{<<"a", "b">>, <<"b", "a">>, <<"c", "a">>}, {<<"a", "b">>, <<"b", "c">>},
                {<<"a", "b">>, <<"c", "b">>, <<"c", "c">>}}}
SomeDiffs ==
    [committed : {{}, {"b"}, {"c"}, {"svc"}, {"b", "old"}}, moved : {{}, {"a"}}, dirty : {{}, {"b"}, {"site"}}]
==============================================================================
