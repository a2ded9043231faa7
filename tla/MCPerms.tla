------------------------------ MODULE MCPerms -------------------------------
(* An instance of Perms with the rules of cfg/sys/etc/perms that matter, and  *)
(* some that the perms files of packages could hold.                          *)
EXTENDS Perms, TLC

Bin == <<"bin">>
Su == <<"bin", "su">>
Sh == <<"bin", "sh">>
Busybox == <<"bin", "busybox">>
Key == <<"home", "x", "key">>
Mpv == <<"cnt", "rootfs", "mpv">>
MpvSh == Mpv \o <<"bin", "sh">>
Log == <<"var", "log">>
LogKey == Log \o <<"key">>
Wtmp == Log \o <<"wtmp">>
VarXx == <<"var", "xx">>

\* who installs, when not root
Xx == <<"xx", "xx">>
File(o, m) == [type |-> "file", owner |-> o, mode |-> [bits |-> m, setid |-> FALSE]]
SetId(o, m) == [type |-> "file", owner |-> o, mode |-> [bits |-> m, setid |-> TRUE]]
Directory(o) == [type |-> "dir", owner |-> o, mode |-> [bits |-> "0700", setid |-> FALSE]]
Link(p) == [type |-> "link", to |-> p]

Tree ==
  <<>> :> Directory(RootOwner) @@ Bin :> Directory(Xx) @@ Su :> SetId(Xx, "0755") @@
  Sh :> Link(Busybox) @@ Busybox :> File(Xx, "0755") @@ <<"cnt">> :> Directory(Xx) @@
  <<"cnt", "rootfs">> :> Directory(Xx) @@ Mpv :> Directory(Xx) @@
  Mpv \o Bin :> Directory(Xx) @@ MpvSh :> File(Xx, "0700") @@
  <<"home">> :> Directory(Xx) @@ <<"home", "x">> :> Directory(Xx) @@ Key :> File(Xx, "0600") @@
  <<"proc">> :> Directory(RootOwner) @@ <<"proc", "x">> :> File(RootOwner, "0600") @@
  <<"var">> :> Directory(Xx) @@ Log :> Directory(Xx) @@
  Wtmp :> File(Xx, "0600") @@ VarXx :> Directory(Xx)
Order ==
  <<Dot, <<>>, Bin, Busybox, Sh, Su, <<"cnt">>, <<"cnt", "rootfs">>, Mpv, Mpv \o Bin, MpvSh,
    <<"home">>, <<"home", "x">>, Key, <<"proc">>, <<"proc", "x">>, <<"var">>, Log, LogKey, Wtmp, VarXx>>

L(kind, rec, path, val) == [kind |-> kind, rec |-> rec, cnt |-> FALSE, path |-> path, val |-> val]
C(kind, rec, path, val) == [L(kind, rec, path, val) EXCEPT !.cnt = TRUE]
M(bits) == [bits |-> bits, setid |-> FALSE]
S(bits) == [bits |-> bits, setid |-> TRUE]

System == <<L("d", TRUE, Bin, M("0755")), L("f", TRUE, Bin, M("0755")), L("f", FALSE, Su, S("0755")),
            L("owner", FALSE, Su, <<"root", "lxc">>), L("d", FALSE, <<"home", "x">>, M("0700")),
            L("owner", TRUE, <<"home", "x">>, <<"x", "x">>), C("d", TRUE, Bin, M("0755")), C("f", TRUE, Bin, M("0755")),
            L("d", TRUE, <<"var">>, M("0755")), L("d", FALSE, Log, M("0750")), L("f", TRUE, Log, M("0640")),
            L("owner", TRUE, Log, <<"root", "log">>)>>
Empty == System \o <<L("d", FALSE, VarXx, M("0700")), C("f", FALSE, Bin \o <<"sh">>, M("0700"))>>
LastTwice == <<L("d", TRUE, Bin, M("0755")), L("d", TRUE, <<"var">>, M("0755")), L("f", TRUE, <<"var">>, M("0644"))>>
\* users and groups that are not known
Unknown == <<L("owner", FALSE, Su, <<"dhcpcd", "lxc">>), L("owner", FALSE, <<"home">>, <<"x", "dhcpcd">>),
             L("f", FALSE, Su, S("0755")), L("f", FALSE, Busybox, M("0755")),
             L("d", TRUE, <<"home">>, M("0755")), L("f", TRUE, <<"home">>, M("0600"))>>
Twice == System \o <<L("f", FALSE, Mpv \o Bin, M("0700")), C("f", FALSE, Bin, M("0755"))>>
One == <<L("d", TRUE, Bin, M("0755"))>>
Whole == <<L("d", TRUE, <<>>, M("0755")), L("d", TRUE, Log, M("0750")), L("f", TRUE, Log, M("0640")),
           L("f", FALSE, Busybox, M("0755")), L("owner", FALSE, <<"var">>, <<"root", "log">>)>>
Wrong == <<L("bad", FALSE, Bin, M("0755"))>>

\* the root is a directory: the tools of a new system
Home == <<L("d", TRUE, <<"x">>, M("0755")), L("f", FALSE, <<"x", "key">>, M("0644")), L("f", TRUE, <<"x">>, M("0644")),
          L("owner", TRUE, <<"x">>, <<"x", "x">>)>>
HomeRoot == <<L("d", TRUE, <<>>, M("0755")), L("owner", FALSE, <<"x">>, <<"x", "x">>)>>

At(dir, s) == [root |-> dir, lines |-> s]
AllSystems ==
  {At(<<>>, s) : s \in {System, Empty, LastTwice, Unknown, Twice, One, Whole, Wrong}}
  \cup {At(<<"home">>, s) : s \in {Home, HomeRoot}}
OneSystem == {At(<<>>, System)}
\* also a link that becomes a program, and a program that becomes a link to a file that may not be there
Puts == {<<Su, SetId(Xx, "0755")>>, <<LogKey, File(Xx, "0600")>>,
         <<Sh, File(Xx, "0700")>>, <<MpvSh, Link(LogKey)>>}
Passwd == {"root", "x"}
Group == {"root", "lxc", "log", "x"}
VolatileDirs == {<<"proc">>}
=============================================================================
