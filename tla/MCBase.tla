------------------------------- MODULE MCBase -------------------------------
(* An instance of Base: dev installs a package of its own and, when forced, a *)
(* newer release of one of the base; the base is rebuilt, with and without    *)
(* --force; alpine is another system, init_glibc the bootstrap.               *)
EXTENDS Base

Pkgs == {"glibc", "bash", "jq"}
Set == <<"glibc", "bash">>
Envs == {"dev", "alpine", "init_glibc"}

For(root, pkgs, force) ==
  [root |-> root, pkgs |-> pkgs, force |-> force, init |-> FALSE, sep |-> FALSE]
Jobs ==
  {For("dev", <<"jq">>, FALSE), For("dev", <<"bash">>, TRUE),
   For("base", Set, FALSE), For("base", Set, TRUE), For("base", <<>>, FALSE),
   [For("alpine", <<"jq">>, FALSE) EXCEPT !.sep = TRUE],
   [For("init_glibc", <<"glibc">>, FALSE) EXCEPT !.init = TRUE]}

(* Only bash gets a new recipe, and one that comes before the base is in     *)
(* place; it goes to one root.  From then to the next make clean_tmp no run   *)
(* is forced, none has left a finished base half changed, and neither the     *)
(* bootstrap nor a newer glibc has been installed.                            *)
OneRecipe ==
  /\ behind \subseteq {"bash"}
  /\ behind # {} \/ went["bash"] # "base" =>
       /\ ~job.force /\ ~interrupted
       /\ tree["init_glibc"]["glibc"] = None
       /\ tree["alpine"]["bash"] = None \/ tree["dev"]["bash"] = None
       /\ latest["glibc"] = 0
  /\ behind # {} /\ ok /\ at = "idle" => went["bash"] # "base"
=============================================================================
