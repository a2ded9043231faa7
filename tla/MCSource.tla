------------------------------ MODULE MCSource ------------------------------
(* An instance of Source: two versions of gcc that share a file, as in the      *)
(* recipes of the repository, one package of alpine, a go module, and two     *)
(* commits of one git repository.                                             *)
EXTENDS Source, TLC

CONSTANTS p1, p2

Progs == {"gcc", "firefox", "fzf", "fbpdf"}
Recipes == {"gcc-10", "gcc-11", "firefox-edge", "fzf-1", "fbpdf-old", "fbpdf-new"}
Files == {"gcc10", "gcc11", "mpfr", "index", "apk", "mod"}
Commits == {"old", "new"}

ProgMap ==
  "gcc-10" :> "gcc" @@ "gcc-11" :> "gcc" @@ "firefox-edge" :> "firefox" @@ "fzf-1" :> "fzf" @@
  "fbpdf-old" :> "fbpdf" @@ "fbpdf-new" :> "fbpdf"
TypeMap ==
  "gcc-10" :> "tar" @@ "gcc-11" :> "tar" @@ "firefox-edge" :> "alpine" @@ "fzf-1" :> "go-mod" @@
  "fbpdf-old" :> "git" @@ "fbpdf-new" :> "git"
UrlMap ==
  "gcc-10" :> <<"gcc10", "mpfr">> @@ "gcc-11" :> <<"gcc11", "mpfr">> @@
  "firefox-edge" :> <<"index", "apk">> @@ "fzf-1" :> <<"mod">> @@ "fbpdf-old" :> <<>> @@ "fbpdf-new" :> <<>>
CommitMap ==
  [k \in Recipes |-> IF k = "fbpdf-old" THEN {"old"} ELSE IF k = "fbpdf-new" THEN {"new"} ELSE {}]

Procs == {p1, p2}
AllSets ==
  p1 :> {<<"gcc-10">>, <<"firefox-edge">>, <<"fzf-1">>, <<"fbpdf-old">>, <<"fbpdf-new">>} @@
  p2 :> {<<"gcc-11">>, <<"firefox-edge">>, <<"fzf-1">>, <<"fbpdf-new">>}

ASSUME UseAssumption == NoFileTwice

(* The directories of programs are independent: one is used at a time.        *)
Used1(g) == (\E f \in File : Exists(g, f)) \/ clone[g] # Missing
OneProg == \A g, h \in Prog : Used1(g) /\ Used1(h) => g = h
=============================================================================
