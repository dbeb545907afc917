-------------------------- MODULE MCPluginRegistry --------------------------
(* Instances of PluginRegistry for TLC. *)
EXTENDS PluginRegistry

Login == <<"identity", "login">>
MCMethods == {<<"identity">>, Login}

All == [path |-> <<"identity">>, wild |-> TRUE]
Exact(n) == [path |-> n, wild |-> FALSE]
Slot(name, phases, policy) == [name |-> name, phases |-> phases, policy |-> policy]

Plain(i) == [id |-> i, priority |-> 3 - i, methods |-> {}, slots |-> <<>>,
             needs |-> {}, hosts |-> {}, package |-> NoPackage]
Package(i, methods, events) ==
  [NewPackage(i) EXCEPT !.methods = methods, !.events = events, !.caps = {"cap"},
                        !.labels = {"v1"}]

\* The shapes a manifest may take: who claims what, and where it says so.
Shapes(i) ==
  { [Plain(i) EXCEPT !.slots = <<Slot("auth.session", {"Exec"}, "SingleOwner")>>],
    [Plain(i) EXCEPT !.slots = <<Slot("auth.session", {"Before", "Exec"}, "Pipeline"),
                                 Slot("vpn.connect", {"Exec"}, "SingleOwner")>>],
    [Plain(i) EXCEPT !.slots = <<Slot("vpn.connect", {"Exec", "After"}, "BestEffort"),
                                 Slot("vpn.connect", {"After"}, "Broadcast")>>],
    [Plain(i) EXCEPT !.slots = <<Slot("vpn.connect", {}, "Pipeline")>>],
    [Plain(i) EXCEPT !.methods = {All}, !.needs = {"cap"}],
    [Plain(i) EXCEPT !.methods = {All, Exact(Login)}],
    [Plain(i) EXCEPT !.methods = {Exact(Login)}, !.package = Package(i, {}, {"changed"})],
    [Plain(i) EXCEPT !.package = Package(i, {Login}, {}), !.hosts = {"hub.example"}],
    [Plain(i) EXCEPT !.methods = {All}, !.package = Package(i, {<<"identity">>}, {"changed"})],
    [Plain(i) EXCEPT !.package = [Package(i, {Login}, {}) EXCEPT !.twice = TRUE]],
    [Plain(i) EXCEPT !.package = [Package(i, {}, {}) EXCEPT !.labels = {"v 1"}]],
    [Plain(i) EXCEPT !.package = [Package(i, {Login}, {}) EXCEPT !.silent = TRUE]],
    [Plain(i) EXCEPT !.package = [Package(i, {}, {"changed"}) EXCEPT !.component = "invalid"]],
    [Plain(i) EXCEPT !.package = [Package(i, {}, {"changed"}) EXCEPT !.component = "valid"]],
    [Plain(i) EXCEPT !.package = Package(3 - i, {Login}, {})],
    [Plain(i) EXCEPT !.hosts = {"*.example"}],
    [Plain(i) EXCEPT !.hosts = {"not a host"}] }

MCManifests == UNION { Shapes(i) : i \in Ids }

\* A third plugin that claims its slot in its package.
Declares(i) ==
  [Plain(i) EXCEPT !.package =
     [Package(i, {}, {}) EXCEPT !.slots = {Slot("auth.session", {"Exec"}, "SingleOwner")}]]
MCManifestsDeclared == MCManifests \cup { Declares(i) : i \in Ids }
=============================================================================
