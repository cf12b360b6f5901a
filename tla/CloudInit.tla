------------------------------ MODULE CloudInit ------------------------------
(***************************************************************************)
(* What the Config controller does between reading a Config and creating   *)
(* the bootstrap Secret (ConfigController's Render): it gathers the files, *)
(* visiting the source Secrets in the order of a Go map, renders them and  *)
(* the rest of the Spec with util/cloudinit, and the new machine reads the *)
(* document as YAML.                                                       *)
(*                                                                         *)
(* The document is a sequence of lines, the data atoms. A file's content   *)
(* is a sequence of lines too, each with its own indentation.              *)
(***************************************************************************)
EXTENDS Naturals, FiniteSets, SequencesExt

CONSTANTS
  Value,    \* the texts, names and options that may be given, None among them
  Specs,    \* the ConfigSpecs of a run
  Sources,  \* what the source Secrets of a run may hold
  None,     \* an empty string, a nil pointer, a key that a Secret does not have
  CritFile  \* the file /var/lib/crit/config.yaml

\* The lines of a file, and the types of api/v1alpha1/config_types.go.
Contents == Seq([indent : Nat, text : Value])

File ==
  [path : Value, owner : Value, permissions : Value, encoding : Value, content : Contents]

SecretFile ==
  [secret : Value, key : Value, path : Value, owner : Value, permissions : Value,
   encoding : Value]

\* The pointers of User, in the order of the template.
Attributes == <<"passwd", "gecos", "groups", "homedir", "inactive", "lock_passwd",
                "shell", "primary_group", "sudo">>

UserFields == ToSet(Attributes) \cup {"name", "keys"}

IsUser(u) ==
  /\ u = [a \in UserFields |-> u[a]]
  /\ u.keys \in Seq(Value) /\ \A a \in UserFields \ {"keys"} : u[a] \in Value

IsSpec(s) ==
  /\ s.files \in Seq(File) /\ s.secrets \in Seq(SecretFile)
  /\ s.pre \in Seq(Value) /\ s.post \in Seq(Value)
  /\ s.users \in Seq(ToSet(s.users)) /\ \A u \in ToSet(s.users) : IsUser(u)
  /\ s.ntp # None => s.ntp.enabled \in Value /\ s.ntp.servers \in Seq(Value)

ASSUME SpecsAssumption == \A s \in Specs : IsSpec(s)

ASSUME SourcesAssumption ==
  \A t \in Sources, s \in Specs : \A i \in DOMAIN s.secrets :
    t[s.secrets[i].secret][s.secrets[i].key] \in {None} \cup Contents

ASSUME CritFileAssumption == CritFile \in File

VARIABLES
  spec,     \* the Spec that is rendered
  source,   \* the source Secrets: source[secret][key], content or None
  todo,     \* the SecretFiles still to be visited, as positions in the Spec
  visited,  \* the Secret whose SecretFiles are being visited, None between two
  files,    \* the files gathered so far
  document  \* the rendered document, empty until then

vars == <<spec, source, todo, visited, files, document>>

--------------------------------------------------------------------------------
(* The files (Reconcile).                                                  *)

Init ==
  /\ spec \in Specs /\ source \in Sources
  /\ todo = DOMAIN spec.secrets /\ visited = None
  /\ files = Append(spec.files, CritFile)
  /\ document = <<>>

Content(s) == source[s.secret][s.key]

FileOf(s) ==
  [path |-> s.path, owner |-> s.owner, permissions |-> s.permissions,
   encoding |-> s.encoding, content |-> Content(s)]

SameSecret(i, j) == spec.secrets[i].secret = spec.secrets[j].secret

\* The SecretFiles of a Secret come in the order of the Spec.
IsNext(i) == \A j \in todo : SameSecret(i, j) => i <= j

\* Mutant of VisitFile: a key that does not exist ends the visit of its Secret.
VisitFileBreaks(i) ==
  LET s == spec.secrets[i]
  IN /\ i \in todo /\ IsNext(i)
     /\ visited \in {None, s.secret}
     /\ todo' = IF Content(s) = None THEN {j \in todo : ~SameSecret(i, j)} ELSE todo \ {i}
     /\ visited' = IF \E j \in todo' : SameSecret(i, j) THEN s.secret ELSE None
     /\ files' = IF Content(s) = None THEN files ELSE Append(files, FileOf(s))
     /\ UNCHANGED <<spec, source, document>>

\* One turn of the loop over a Secret's SecretFiles: a key that does not exist is
\* logged and skipped. The Secrets come in the order of a Go map: any.
VisitFile(i) ==
  LET s == spec.secrets[i]
  IN /\ i \in todo /\ IsNext(i)
     /\ visited \in {None, s.secret}
     /\ todo' = todo \ {i}
     /\ visited' = IF \E j \in todo' : SameSecret(i, j) THEN s.secret ELSE None
     /\ files' = IF Content(s) = None THEN files ELSE Append(files, FileOf(s))
     /\ UNCHANGED <<spec, source, document>>

--------------------------------------------------------------------------------
(* The templates.                                                          *)

Line(indent, key, val) == [indent |-> indent, key |-> key, val |-> val]

Lines(indent, key, vals) == [i \in DOMAIN vals |-> Line(indent, key, vals[i])]

\* An {{ if }} around the line: an empty string and a nil pointer are false, any
\* other pointer is true, whatever it points to.
Optional(indent, key, val) == IF val = None THEN <<>> ELSE <<Line(indent, key, val)>>

Flag(indent, key, val) == IF val = None THEN <<>> ELSE <<Line(indent, key, "true")>>

\* Mutant of Indent: the first line only.
IndentFirst(n, content) ==
  [i \in DOMAIN content |->
     Line(IF i = 1 THEN n + content[i].indent ELSE content[i].indent, "text", content[i].text)]

\* Every line of a content, deeper by n.
Indent(n, content) ==
  [i \in DOMAIN content |-> Line(n + content[i].indent, "text", content[i].text)]

FileLines(f) ==
  <<Line(0, "- path", f.path)>>
  \o Optional(4, "encoding", f.encoding) \o Optional(4, "owner", f.owner)
  \o Optional(4, "permissions", f.permissions)
  \o <<Line(4, "content", "|")>> \o Indent(6, f.content)

CritUp == "crit up"

Commands(s) == s.pre \o <<CritUp>> \o s.post

NTPLines(ntp) ==
  IF ntp = None THEN <<>>
  ELSE <<Line(0, "ntp", "")>> \o Flag(2, "enabled", ntp.enabled)
       \o <<Line(2, "servers", "")>> \o Lines(4, "-", ntp.servers)

UserLines(u) ==
  <<Line(2, "- name", u.name)>>
  \o FlattenSeq([i \in DOMAIN Attributes |->
       LET a == Attributes[i]
       IN IF a = "inactive" THEN Flag(4, a, u[a]) ELSE Optional(4, a, u[a])])
  \o IF u.keys = <<>> THEN <<>>
     ELSE <<Line(4, "ssh_authorized_keys", "")>> \o Lines(6, "-", u.keys)

Each(LinesOf(_), s) == FlattenSeq([i \in DOMAIN s |-> LinesOf(s[i])])

\* CreateMessage makes the document the only part of a MIME message.
Write ==
  /\ todo = {} /\ document = <<>>
  /\ document' =
       <<Line(0, "write_files", "")>> \o Each(FileLines, files)
       \o <<Line(0, "runcmd", "")>> \o Lines(2, "-", Commands(spec))
       \o NTPLines(spec.ntp)
       \o IF spec.users = <<>> THEN <<>>
          ELSE <<Line(0, "users", "")>> \o Each(UserLines, spec.users)
  /\ UNCHANGED <<spec, source, todo, visited, files>>

Next == Write \/ \E i \in todo : VisitFile(i)

Spec == Init /\ [][Next]_vars /\ WF_vars(Next)

--------------------------------------------------------------------------------
(* The machine reads the document as YAML.                                 *)

\* The n-th of the positions at.
Nth(at, n) == CHOOSE i \in at : Cardinality({j \in at : j <= i}) = n

\* The lines of s from position i on, up to the next of the positions at.
Part(s, at, i) ==
  LET later == {j \in at : j > i}
  IN SubSeq(s, i, IF later = {} THEN Len(s) ELSE Min(later) - 1)

Keyed(s, key) == {i \in DOMAIN s : s[i].key = key}

\* The lines with a key, and the parts that each begin with one.
Select(s, key) ==
  LET at == Keyed(s, key) IN [n \in 1..Cardinality(at) |-> s[Nth(at, n)]]

Items(s, key) ==
  LET at == Keyed(s, key) IN [n \in 1..Cardinality(at) |-> Part(s, at, Nth(at, n))]

\* The part under a key of the top level, if it is there.
Section(d, key) ==
  LET top == {i \in DOMAIN d : d[i].indent = 0 /\ d[i].key \notin {"- path", "text"}}
      at == top \cap Keyed(d, key)
  IN IF at = {} THEN <<>> ELSE Part(d, top, Min(at))

ValuesOf(s, key) == LET found == Select(s, key) IN [i \in DOMAIN found |-> found[i].val]

ValueOf(s, key) == LET at == Keyed(s, key) IN IF at = {} THEN None ELSE s[Max(at)].val

\* Empty lines at the end of a block are not part of it.
Trim(content) ==
  LET kept == {i \in DOMAIN content : content[i].text # "" \/ content[i].indent > 0}
  IN IF kept = {} THEN <<>> ELSE SubSeq(content, 1, Max(kept))

\* A block is as deep as its first line that is not blank; if a blank line before
\* that one is deeper, or a later one less deep, it is no YAML.
Malformed == <<None>>

ReadContent(block) ==
  LET solid == {i \in DOMAIN block : block[i].val # ""}
      depth == block[Min(solid)].indent
      deeper(n) == IF n > depth THEN n - depth ELSE 0
  IN IF solid = {} THEN <<>>
     ELSE IF \/ \E i \in solid : block[i].indent < depth
             \/ \E i \in DOMAIN block : i < Min(solid) /\ block[i].indent > depth
     THEN Malformed
     ELSE Trim([i \in DOMAIN block |->
                 [indent |-> deeper(block[i].indent), text |-> block[i].val]])

ReadFile(item) ==
  [path |-> ValueOf(item, "- path"), owner |-> ValueOf(item, "owner"),
   permissions |-> ValueOf(item, "permissions"), encoding |-> ValueOf(item, "encoding"),
   content |-> ReadContent(Select(item, "text"))]

ReadFiles(d) ==
  LET items == Items(Section(d, "write_files"), "- path")
  IN [i \in DOMAIN items |-> ReadFile(items[i])]

ReadUsers(d) ==
  LET items == Items(Section(d, "users"), "- name")
  IN [i \in DOMAIN items |->
        [a \in UserFields |->
           CASE a = "name" -> ValueOf(items[i], "- name")
             [] a = "keys" -> ValuesOf(items[i], "-")
             [] OTHER -> ValueOf(items[i], a)]]

--------------------------------------------------------------------------------
\* Up to the first line that is not blank, no line is indented.
Plain(content) ==
  \A i \in DOMAIN content :
    (\A j \in DOMAIN content : j < i => content[j].text = "") => content[i].indent = 0

\* The first line that is not blank.
Leads(c, i) == c[i].text # "" /\ \A j \in DOMAIN c : j < i => c[j].text = ""

\* What can be a block of YAML: no blank line before the leading one is deeper, and no
\* line after it less deep, blank ones apart.
IsBlock(c) ==
  \/ Plain(c) /\ \A i \in DOMAIN c : c[i].text = ""
  \/ \E i \in DOMAIN c :
       /\ Leads(c, i)
       /\ \A j \in DOMAIN c : j < i => c[j].indent <= c[i].indent
       /\ \A j \in DOMAIN c : c[j].text # "" => c[i].indent <= c[j].indent

\* A content of which every line has lost d of its indentation.
Less(d, c) ==
  [j \in DOMAIN c |-> [indent |-> IF c[j].indent > d THEN c[j].indent - d ELSE 0,
                       text |-> c[j].text]]

\* What is read has the lines of the content, each as deep as the content has it with
\* respect to the others; to the letter, if nothing up to the leading line is indented.
SameText(read, c) ==
  \E d \in {0} \cup {c[j].indent : j \in DOMAIN c} :
    (Plain(c) => d = 0) /\ read = Trim(Less(d, c))

SameFile(read, f) ==
  read = [f EXCEPT !.content = read.content] /\ SameText(read.content, f.content)

\* A flag that is not given, or given as true.
NotFalse(flag) == flag \in {None, "true"}

SameUser(read, u) ==
  \A a \in UserFields : (a = "inactive" => NotFalse(u[a])) => read[a] = u[a]

\* If the contents can be blocks of YAML, the document has the files that were
\* gathered, in their order, with the attributes they were given and their text but
\* for empty lines at the end; the commands around "crit up"; the NTP servers; the
\* users, each with its own attributes; and a flag that is not given, or given as
\* true, is read so. Three things a Config may ask for are outside of it, because the
\* code does not do them (they are evaluated in MCCloudInit): a flag that is given as
\* false, the indentation of a leading line, and a content that is less deep further
\* down, which spoils the document.
ReadsBack ==
  LET ntp == Section(document, "ntp")
      read == ReadFiles(document)
      users == ReadUsers(document)
  IN document # <<>> /\ (\A i \in DOMAIN files : IsBlock(files[i].content))
     => /\ DOMAIN read = DOMAIN files
        /\ \A i \in DOMAIN files : SameFile(read[i], files[i])
        /\ ValuesOf(Section(document, "runcmd"), "-") = Commands(spec)
        /\ ntp = <<>> <=> spec.ntp = None
        /\ spec.ntp # None =>
             /\ NotFalse(spec.ntp.enabled) => ValueOf(ntp, "enabled") = spec.ntp.enabled
             /\ ValuesOf(ntp, "-") = spec.ntp.servers
        /\ DOMAIN users = DOMAIN spec.users
        /\ \A i \in DOMAIN spec.users : SameUser(users[i], spec.users[i])

At(s, p) == {i \in DOMAIN s : s[i].path = p}

\* The last file with a path stays.
Final(s, p) == s[Max(At(s, p))].content

\* The SecretFiles with a path whose key exists; and those of them that nothing of
\* the same Secret replaces.
Given(p) == {i \in At(spec.secrets, p) : Content(spec.secrets[i]) # None}

LastGiven(p) == {i \in Given(p) : \A j \in Given(p) : SameSecret(i, j) => j <= i}

Paths ==
  {files[i].path : i \in DOMAIN files} \cup {spec.files[i].path : i \in DOMAIN spec.files}
  \cup {CritFile.path} \cup {spec.secrets[i].path : i \in DOMAIN spec.secrets}

\* On the disk of the machine a path has what the last SecretFile with that path and
\* an existing key holds, in the order of the Spec among those of one Secret, and
\* in any order among Secrets; otherwise the crit configuration, if it is its
\* path; otherwise what the Spec says. Nothing else is written.
DiskAsRequested ==
  document # <<>> =>
    \A p \in Paths :
      LET written == At(files, p) # {}
      IN CASE Given(p) # {} ->
                written /\ \E i \in LastGiven(p) : Final(files, p) = Content(spec.secrets[i])
           [] Given(p) = {} /\ p = CritFile.path ->
                written /\ Final(files, p) = CritFile.content
           [] Given(p) = {} /\ p # CritFile.path /\ At(spec.files, p) # {} ->
                written /\ Final(files, p) = Final(spec.files, p)
           [] OTHER -> ~written

================================================================================
