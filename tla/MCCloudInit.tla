----------------------------- MODULE MCCloudInit ------------------------------
(* Values of the constants of CloudInit for TLC.                             *)
EXTENDS CloudInit

CONSTANTS k1, k2

\* Contents: a line, an indented one below, an indented one on top that the others
\* reach or do not, blank lines around.
L(n, t) == [indent |-> n, text |-> t]
OneLine == <<L(0, "x")>>
Indented == <<L(1, "y"), L(2, "x"), L(1, "x")>>
Outdented == <<L(1, "y"), L(0, "x")>>
SomeContents ==
  {OneLine, <<L(0, "y"), L(1, "x")>>, Indented, Outdented,
   <<L(0, ""), L(0, "x"), L(2, ""), L(0, "")>>}

CritPath == "/var/lib/crit/config.yaml"
TheCritFile ==
  [path |-> CritPath, owner |-> "root:root", permissions |-> "0640",
   encoding |-> "base64", content |-> <<L(0, "crit")>>]

PlainFile(p, c) ==
  [path |-> p, owner |-> None, permissions |-> None, encoding |-> None, content |-> c]
FileLists ==
  {<<>>} \cup {<<PlainFile("/a", c)>> : c \in SomeContents}
  \cup {<<PlainFile(p, OneLine), [PlainFile("/a", c) EXCEPT !.owner = "root:root"]>> :
          p \in {"/a", CritPath}, c \in SomeContents}

FromSecret(k, y, p) ==
  [secret |-> k, key |-> y, path |-> p, owner |-> None, permissions |-> "0600",
   encoding |-> None]
SecretLists ==
  {<<>>, <<FromSecret(k1, "u", "/a")>>,
   <<FromSecret(k1, "u", "/a"), FromSecret(k1, "v", "/a")>>,
   <<FromSecret(k1, "u", "/a"), FromSecret(k2, "u", "/a"), FromSecret(k1, "v", "/b")>>,
   <<FromSecret(k2, "v", CritPath), FromSecret(k1, "u", "/b")>>}

\* Either Secret has both keys, or one of them is missing in k1.
SomeSources ==
  {[k \in {k1, k2} |-> [y \in {"u", "v"} |->
      IF k = k1 /\ y = gone THEN None ELSE <<L(0, "s"), L(i, y)>>]] :
    gone \in {"", "u", "v"}, i \in {0, 1}}

User(n) ==
  [a \in ToSet(Attributes) \cup {"name", "keys"} |->
     IF a = "name" THEN n ELSE IF a = "keys" THEN <<>> ELSE None]
UserLists ==
  {<<>>,
   <<[User("ann") EXCEPT !.inactive = "false", !.gecos = "Ann"], User("bob")>>,
   <<[User("ann") EXCEPT !.inactive = "true"],
     [User("bob") EXCEPT !.keys = <<"p", "q">>, !.lock_passwd = "false"]>>}

SomeValues ==
  {None, "", "x", "y", "u", "v", "s", "crit", "/a", "/b", CritPath, "root:root", "0600",
   "0640", "base64", "ann", "bob", "Ann", "true", "false", "p", "q", "c1", "c2", "c3", "n1", "n2",
   k1, k2}

SomeSpecs ==
  [files : FileLists, secrets : SecretLists, users : UserLists,
   pre : {<<>>, <<"c1", "c2">>}, post : {<<"c3">>},
   ntp : {None} \cup [servers : {<<"n1", "n2">>}, enabled : {None, "true", "false"}]]

(* What the code does with the three things ReadsBack leaves out.            *)

\* A flag that is given as false is written as true (cloudinit.go:50 and 75).
ASSUME FalseBecomesTrue ==
  /\ ValueOf(NTPLines([servers |-> <<"n1">>, enabled |-> "false"]), "enabled") = "true"
  /\ ValueOf(UserLines([User("ann") EXCEPT !.inactive = "false"]), "inactive") = "true"

\* A content whose leading line is indented is read without that indentation
\* (cloudinit.go:43 and 114-118).
ASSUME IndentationIsLost ==
  ReadFile(FileLines(PlainFile("/a", <<L(1, "x")>>))).content = OneLine

\* If a later line is less deep, the document is no YAML.
ASSUME DocumentIsSpoilt ==
  ReadFile(FileLines(PlainFile("/a", Outdented))).content = Malformed

================================================================================
