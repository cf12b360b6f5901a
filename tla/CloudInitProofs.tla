--------------------------- MODULE CloudInitProofs ---------------------------
(* What the disk of a new machine gets, for any Spec and any source Secrets,  *)
(* visited in any order, and what it reads in the document: first the files   *)
(* that were gathered, then the document, from its lines to its files and     *)
(* users, and from these to its sections.                                    *)
EXTENDS CloudInit, FiniteSetTheorems, SequenceTheorems, WellFoundedInduction, TLAPS

\* The last of finitely many positions.
LEMMA MaxIsLast ==
  ASSUME NEW n \in Nat, NEW I, I \subseteq 1..n, I # {}
  PROVE  Max(I) \in I /\ \A i \in I : i <= Max(I)
<1> DEFINE T == {n - i : i \in I}
<1>1. T \subseteq Nat /\ T # {}
  OBVIOUS
<1>2. PICK t \in T : \A u \in T : <<u, t>> \notin OpToRel(<, Nat)
  BY <1>1, WFMin, NatLessThanWellFounded
<1>3. PICK i \in I : t = n - i
  BY <1>2
<1>4. ASSUME NEW j \in I PROVE j <= i
  <2>1. n - j \in T /\ ~(n - j < t)
    BY <1>1, <1>2 DEF OpToRel
  <2> QED BY <1>3, <1>4, <2>1
<1>5. \E x \in I : \A y \in I : x >= y
  BY <1>4
<1> QED BY <1>5 DEF Max

\* The one that is last is the last.
LEMMA LastIsMax ==
  ASSUME NEW n \in Nat, NEW I, I \subseteq 1..n, NEW i \in I, \A j \in I : j <= i
  PROVE  Max(I) = i
<1> DEFINE x == Max(I)
<1>1. x \in I /\ \A j \in I : j <= x
  BY MaxIsLast
<1> HIDE DEF x
<1>2. x \in Int /\ i \in Int /\ x <= i /\ i <= x
  BY <1>1
<1>3. x = i
  BY <1>2
<1> QED BY <1>3 DEF x

--------------------------------------------------------------------------------
Present(i) == Content(spec.secrets[i]) # None

\* What may be gathered.
Gatherable ==
  ToSet(spec.files) \cup {CritFile} \cup {FileOf(spec.secrets[i]) : i \in DOMAIN spec.secrets}

Done == DOMAIN spec.secrets \ todo

\* The files of the Spec, then the crit configuration; what follows them comes from
\* the SecretFiles that were visited.
First == Len(spec.files) + 1

Ordered ==
  /\ First <= Len(files)
  /\ \A j \in 1..Len(spec.files) : files[j] = spec.files[j]
  /\ files[First] = CritFile

From(i, j) == i \in Done /\ Present(i) /\ files[j] = FileOf(spec.secrets[i])

\* A file that is last for its path comes from a SecretFile that is last for it.
IsLast(j) == \A k \in DOMAIN files : k > j => files[k].path # files[j].path

LastOne(i) ==
  \A k \in Done : Present(k) /\ SameSecret(k, i) /\ spec.secrets[k].path = spec.secrets[i].path
                    => k <= i

Gathered ==
  /\ \A j \in DOMAIN files : j > First => \E i \in Done : From(i, j)
  /\ \A i \in Done : Present(i) => \E j \in DOMAIN files : j > First /\ From(i, j)
  /\ \A j \in DOMAIN files : j > First /\ IsLast(j) => \E i \in Done : From(i, j) /\ LastOne(i)

\* Within a Secret what was visited comes before what was not.
InOrder == \A i \in Done, j \in todo : SameSecret(i, j) => i < j

GatherInv ==
  /\ spec \in Specs /\ todo \subseteq DOMAIN spec.secrets
  /\ document # <<>> => todo = {}
  /\ files \in Seq(Gatherable)
  /\ Ordered /\ Gathered /\ InOrder

\* The sequences of a Spec.
LEMMA SpecType ==
  ASSUME spec \in Specs
  PROVE  /\ Len(spec.files) \in Nat /\ DOMAIN spec.files = 1..Len(spec.files)
         /\ \A j \in 1..Len(spec.files) : spec.files[j] \in Gatherable
         /\ Len(spec.secrets) \in Nat /\ DOMAIN spec.secrets = 1..Len(spec.secrets)
         /\ spec.files \in Seq(Gatherable)
<1>1. spec.files \in Seq(File) /\ spec.secrets \in Seq(SecretFile)
  BY SpecsAssumption DEF IsSpec
<1>2. /\ Len(spec.files) \in Nat /\ DOMAIN spec.files = 1..Len(spec.files)
      /\ Len(spec.secrets) \in Nat /\ DOMAIN spec.secrets = 1..Len(spec.secrets)
      /\ spec.files \in [1..Len(spec.files) -> ToSet(spec.files)]
  BY <1>1 DEF ToSet
<1>3. ToSet(spec.files) \subseteq Gatherable
  BY DEF Gatherable
<1>4. spec.files \in [1..Len(spec.files) -> Gatherable]
  BY <1>2, <1>3
<1>5. spec.files \in Seq(Gatherable)
  BY <1>2, <1>4, SeqDef
<1> QED BY <1>2, <1>4, <1>5

LEMMA GatherInvInit == Init => GatherInv
<1> SUFFICES ASSUME Init PROVE GatherInv
  OBVIOUS
<1>1. /\ spec \in Specs /\ todo = DOMAIN spec.secrets /\ Done = {}
      /\ files = Append(spec.files, CritFile) /\ document = <<>>
  BY DEF Init, Done
<1>2. CritFile \in Gatherable
  BY DEF Gatherable
<1>3. files \in Seq(Gatherable) /\ Len(files) = First
  BY <1>1, <1>2, SpecType DEF First
<1>4. Ordered
  BY <1>1, <1>3, SpecType DEF Ordered, First
<1>5. Gathered /\ InOrder
  BY <1>1, <1>3, SpecType DEF Gathered, InOrder, First
<1> QED BY <1>1, <1>3, <1>4, <1>5 DEF GatherInv

\* A turn of the loop.
LEMMA VisitStep ==
  ASSUME GatherInv, NEW i \in todo, VisitFile(i)
  PROVE  GatherInv'
<1> DEFINE s == spec.secrets[i]
           f == FileOf(s)
<1> USE DEF GatherInv
<1>1. /\ i \in DOMAIN spec.secrets /\ IsNext(i)
      /\ todo' = todo \ {i} /\ UNCHANGED <<spec, source, document>>
      /\ files' = IF Content(s) = None THEN files ELSE Append(files, f)
  BY DEF VisitFile
<1>2. /\ Done' = Done \cup {i} /\ i \notin Done
      /\ First' = First /\ First \in Nat
      /\ Gatherable' = Gatherable /\ f \in Gatherable
  <2>1. Done' = Done \cup {i} /\ i \notin Done
    BY <1>1 DEF Done
  <2>2. First' = First /\ First \in Nat
    BY <1>1, SpecType DEF First
  <2>3. Gatherable' = Gatherable
    BY <1>1 DEF Gatherable, FileOf, Content
  <2>4. f \in Gatherable
    BY <1>1 DEF Gatherable
  <2> QED BY <2>1, <2>2, <2>3, <2>4
<1>3. InOrder'
  BY <1>1, <1>2, SpecType DEF InOrder, SameSecret, IsNext
<1>4. document' # <<>> => todo' = {}
  BY <1>1
<1>5. f.path = s.path
  BY DEF FileOf
<1>6. ASSUME NEW k \in Done, SameSecret(k, i) PROVE k < i
  BY <1>6 DEF InOrder
<1>7. CASE Content(s) = None
  <2>1. files' = files /\ ~Present(i)
    BY <1>1, <1>7 DEF Present
  <2>2. Ordered' /\ files' \in Seq(Gatherable')
    BY <1>1, <1>2, <2>1 DEF Ordered
  <2>3. /\ \A k : Present(k)' = Present(k)
        /\ \A k : FileOf(spec.secrets[k])' = FileOf(spec.secrets[k])
    BY <1>1 DEF Present, FileOf, Content
  <2>4. ASSUME NEW k, NEW j, From(k, j) PROVE From(k, j)'
    BY <1>2, <2>1, <2>3, <2>4 DEF From
  <2>5. ASSUME NEW k \in Done, LastOne(k) PROVE LastOne(k)'
    BY <1>1, <1>2, <2>1, <2>3, <2>5 DEF LastOne, SameSecret
  <2>6. \A j \in DOMAIN files' : IsLast(j)' = IsLast(j)
    BY <2>1 DEF IsLast
  <2>7. Gathered'
    BY <1>2, <2>1, <2>3, <2>4, <2>5, <2>6 DEF Gathered
  <2> QED BY <1>1, <1>3, <1>4, <2>2, <2>7
<1>8. CASE Content(s) # None
  <2>0. PICK n \in Nat : n = Len(files)
    OBVIOUS
  <2>1. /\ files' = Append(files, f) /\ Present(i)
        /\ DOMAIN files = 1..n
    BY <1>1, <1>8, <2>0 DEF Present
  <2>2. /\ files' \in Seq(Gatherable') /\ Len(files') = n + 1 /\ DOMAIN files' = 1..(n + 1)
        /\ \A j \in 1..n : files'[j] = files[j]
        /\ files'[n + 1] = f
    BY <1>2, <2>0, <2>1
  <2>3. Ordered'
    BY <1>1, <1>2, <2>0, <2>1, <2>2, SpecType DEF Ordered, First
  <2>4. n + 1 > First
    BY <1>2, <2>0 DEF Ordered
  <2>5. /\ \A k : Present(k)' = Present(k)
        /\ \A k : FileOf(spec.secrets[k])' = FileOf(spec.secrets[k])
    BY <1>1 DEF Present, FileOf, Content
  <2>6. From(i, n + 1)'
    BY <1>1, <1>2, <2>1, <2>2, <2>5 DEF From
  <2>7. ASSUME NEW k \in Done, NEW j \in 1..n, From(k, j) PROVE From(k, j)'
    BY <1>2, <2>2, <2>5, <2>7 DEF From
  <2>8. \A j \in DOMAIN files' : j > First' => \E k \in Done' : From(k, j)'
    BY <1>2, <2>1, <2>2, <2>6, <2>7 DEF Gathered
  <2>9. \A k \in Done' : Present(k)' => \E j \in DOMAIN files' : j > First' /\ From(k, j)'
    BY <1>2, <2>1, <2>2, <2>4, <2>5, <2>6, <2>7 DEF Gathered
  <2>10. ASSUME NEW j \in DOMAIN files', j > First', IsLast(j)'
         PROVE  \E k \in Done' : From(k, j)' /\ LastOne(k)'
    <3>1. CASE j = n + 1
      <4>1. LastOne(i)'
        <5>1. ASSUME NEW k \in Done', SameSecret(k, i)' PROVE k <= i
          <6>1. SameSecret(k, i) /\ k \in Int /\ i \in Int
            BY <1>1, <1>2, <5>1, SpecType DEF SameSecret, Done
          <6> QED BY <1>2, <1>6, <6>1
        <5> QED BY <5>1 DEF LastOne
      <4> QED BY <1>2, <2>6, <3>1, <4>1
    <3>2. CASE j \in 1..n
      <4>1. IsLast(j) /\ files[j].path # s.path
        BY <1>5, <2>1, <2>2, <2>10, <3>2 DEF IsLast
      <4>2. PICK k \in Done : From(k, j) /\ LastOne(k)
        BY <1>2, <2>1, <2>10, <3>2, <4>1 DEF Gathered
      <4>3. spec.secrets[k].path # s.path
        BY <4>1, <4>2 DEF From, FileOf
      <4>4. LastOne(k)'
        BY <1>1, <1>2, <2>5, <4>2, <4>3 DEF LastOne, SameSecret
      <4> QED BY <1>2, <2>7, <3>2, <4>2, <4>4
    <3> QED BY <2>2, <3>1, <3>2
  <2> QED BY <1>1, <1>3, <1>4, <2>2, <2>3, <2>8, <2>9, <2>10 DEF Gathered
<1> QED BY <1>7, <1>8

LEMMA GatherInvStep == GatherInv /\ [Next]_vars => GatherInv'
<1> SUFFICES ASSUME GatherInv, [Next]_vars PROVE GatherInv'
  OBVIOUS
<1>1. ASSUME UNCHANGED <<spec, source, todo, files>>, document' # <<>> => todo' = {}
      PROVE  GatherInv'
  <2>1. UNCHANGED <<Gatherable, Done, First>>
    BY <1>1 DEF Gatherable, Done, First, FileOf, Content
  <2>2. /\ \A k : Present(k)' = Present(k)
        /\ \A i, j : From(i, j)' = From(i, j)
    BY <1>1, <2>1 DEF Present, From, FileOf, Content
  <2>3. \A j : IsLast(j)' = IsLast(j) /\ LastOne(j)' = LastOne(j)
    BY <1>1, <2>1, <2>2 DEF IsLast, LastOne, SameSecret
  <2>4. Ordered' /\ InOrder'
    BY <1>1, <2>1 DEF GatherInv, Ordered, InOrder, SameSecret
  <2>5. Gathered'
    BY <1>1, <2>1, <2>2, <2>3 DEF GatherInv, Gathered
  <2> QED BY <1>1, <2>1, <2>4, <2>5 DEF GatherInv
<1>2. CASE Write \/ UNCHANGED vars
  BY <1>1, <1>2 DEF Write, vars, GatherInv
<1>3. ASSUME NEW i \in todo, VisitFile(i) PROVE GatherInv'
  BY <1>3, VisitStep
<1> QED BY <1>2, <1>3 DEF Next

--------------------------------------------------------------------------------
(* What the gathered files say of a path, once every SecretFile was visited.  *)

\* The last file of a path.
LEMMA FinalFile ==
  ASSUME NEW S, NEW s \in Seq(S), NEW p, At(s, p) # {}
  PROVE  LET j == Max(At(s, p))
         IN /\ j \in DOMAIN s /\ s[j].path = p /\ Final(s, p) = s[j].content
            /\ \A k \in DOMAIN s : s[k].path = p => k <= j
<1>1. Len(s) \in Nat /\ At(s, p) \subseteq 1..Len(s)
  BY DEF At
<1>2. Max(At(s, p)) \in At(s, p) /\ \A k \in At(s, p) : k <= Max(At(s, p))
  BY <1>1, MaxIsLast
<1> QED BY <1>2 DEF At, Final

\* A path for which a SecretFile has content gets the content of one that is the
\* last of its Secret.
LEMMA GivenWins ==
  ASSUME GatherInv, todo = {}, NEW p, Given(p) # {}
  PROVE  At(files, p) # {} /\ \E i \in LastGiven(p) : Final(files, p) = Content(spec.secrets[i])
<1> USE DEF GatherInv
<1>0. Done = DOMAIN spec.secrets /\ First \in Nat /\ DOMAIN files = 1..Len(files)
  BY SpecType DEF Done, First
<1>1. PICK i \in Given(p) : TRUE
  OBVIOUS
<1>2. i \in Done /\ Present(i) /\ spec.secrets[i].path = p
  BY <1>0, <1>1 DEF Given, At, Present
<1>3. PICK j \in DOMAIN files : j > First /\ From(i, j)
  BY <1>2 DEF Gathered
<1>4. j \in At(files, p)
  BY <1>2, <1>3 DEF From, FileOf, At
<1>5. PICK l \in DOMAIN files : /\ files[l].path = p /\ Final(files, p) = files[l].content
                               /\ \A k \in DOMAIN files : files[k].path = p => k <= l
  BY <1>4, FinalFile
<1>6. l > First /\ IsLast(l)
  <2>1. j <= l
    BY <1>4, <1>5 DEF At
  <2>2. l > First
    BY <1>0, <1>3, <2>1
  <2>3. IsLast(l)
    BY <1>0, <1>5 DEF IsLast
  <2> QED BY <2>2, <2>3
<1>7. PICK m \in Done : From(m, l) /\ LastOne(m)
  BY <1>6 DEF Gathered
<1>8. spec.secrets[m].path = p /\ Final(files, p) = Content(spec.secrets[m]) /\ m \in Given(p)
  BY <1>0, <1>5, <1>7 DEF From, FileOf, Given, At, Present
<1>9. m \in LastGiven(p)
  BY <1>0, <1>7, <1>8 DEF LastGiven, LastOne, Given, At, Present, SameSecret
<1> QED BY <1>4, <1>8, <1>9

\* Otherwise no SecretFile put anything there.
LEMMA NothingGiven ==
  ASSUME GatherInv, todo = {}, NEW p, Given(p) = {}, NEW j \in DOMAIN files, files[j].path = p
  PROVE  j <= First
<1> USE DEF GatherInv
<1>0. Done = DOMAIN spec.secrets /\ First \in Nat /\ j \in Nat
  BY SpecType DEF Done, First
<1>1. ASSUME j > First PROVE FALSE
  <2>1. PICK i \in Done : From(i, j)
    BY <1>1 DEF Gathered
  <2>2. i \in Given(p)
    BY <1>0, <2>1 DEF From, FileOf, Given, At, Present
  <2> QED BY <2>2
<1> QED BY <1>0, <1>1

\* Then the crit configuration is the last file of its path.
LEMMA CritStays ==
  ASSUME GatherInv, todo = {}, Given(CritFile.path) = {}
  PROVE  At(files, CritFile.path) # {} /\ Final(files, CritFile.path) = CritFile.content
<1> USE DEF GatherInv
<1> DEFINE p == CritFile.path
<1>0. First \in Nat /\ First >= 1 /\ DOMAIN files = 1..Len(files) /\ Len(files) \in Nat
  BY SpecType DEF First
<1>1. First \in At(files, p)
  BY <1>0 DEF Ordered, At
<1>2. PICK l \in DOMAIN files : /\ files[l].path = p /\ Final(files, p) = files[l].content
                               /\ \A k \in DOMAIN files : files[k].path = p => k <= l
  BY <1>1, FinalFile
<1>3. l <= First /\ First <= l
  BY <1>1, <1>2, NothingGiven DEF At
<1>4. l = First
  BY <1>0, <1>3
<1> QED BY <1>1, <1>2, <1>4 DEF Ordered

\* And any other path has what the Spec says.
LEMMA SpecStays ==
  ASSUME GatherInv, todo = {}, NEW p, Given(p) = {}, p # CritFile.path
  PROVE  /\ At(files, p) = At(spec.files, p)
         /\ At(spec.files, p) # {} => Final(files, p) = Final(spec.files, p)
<1> USE DEF GatherInv
<1>0. /\ First = Len(spec.files) + 1 /\ Len(spec.files) \in Nat /\ Len(files) \in Nat
      /\ DOMAIN files = 1..Len(files) /\ DOMAIN spec.files = 1..Len(spec.files)
  BY SpecType DEF First
<1>1. ASSUME NEW j \in At(files, p) PROVE j \in At(spec.files, p)
  <2>1. j \in DOMAIN files /\ files[j].path = p /\ j <= First
    BY <1>1, NothingGiven DEF At
  <2>2. j # First
    BY <2>1 DEF Ordered
  <2>3. j \in 1..Len(spec.files)
    BY <1>0, <2>1, <2>2
  <2> QED BY <1>0, <2>1, <2>3 DEF Ordered, At
<1>2. ASSUME NEW j \in At(spec.files, p) PROVE j \in At(files, p)
  BY <1>0, <1>2 DEF Ordered, At
<1>3. At(files, p) = At(spec.files, p)
  BY <1>1, <1>2
<1>4. ASSUME At(spec.files, p) # {} PROVE Final(files, p) = Final(spec.files, p)
  <2>1. Max(At(spec.files, p)) \in 1..Len(spec.files)
    BY <1>0, <1>4, SpecType, FinalFile
  <2> QED BY <1>3, <2>1 DEF Final, Ordered
<1> QED BY <1>3, <1>4

\* Whatever the Spec and the source Secrets, and in whatever order these are visited,
\* every path gets what was asked for (controllers/config/controller.go).
THEOREM DiskIsAsRequested == Spec => []DiskAsRequested
<1>1. GatherInv => DiskAsRequested
  <2> SUFFICES ASSUME GatherInv, document # <<>>, NEW p \in Paths
               PROVE  LET written == At(files, p) # {}
                      IN CASE Given(p) # {} ->
                                /\ written
                                /\ \E i \in LastGiven(p) : Final(files, p) = Content(spec.secrets[i])
                           [] Given(p) = {} /\ p = CritFile.path ->
                                written /\ Final(files, p) = CritFile.content
                           [] Given(p) = {} /\ p # CritFile.path /\ At(spec.files, p) # {} ->
                                written /\ Final(files, p) = Final(spec.files, p)
                           [] OTHER -> ~written
    BY DEF DiskAsRequested
  <2>1. todo = {}
    BY DEF GatherInv
  <2>2. CASE Given(p) # {}
    BY <2>1, <2>2, GivenWins
  <2>3. CASE Given(p) = {} /\ p = CritFile.path
    BY <2>1, <2>3, CritStays
  <2>4. CASE Given(p) = {} /\ p # CritFile.path
    BY <2>1, <2>4, SpecStays
  <2> QED BY <2>2, <2>3, <2>4
<1> QED BY <1>1, GatherInvInit, GatherInvStep, PTL DEF Spec

--------------------------------------------------------------------------------
(* Sequences of sequences.                                                   *)

\* The elements of a concatenation.
LEMMA Concat ==
  ASSUME NEW S, NEW a \in Seq(S), NEW b \in Seq(S)
  PROVE  /\ a \o b \in Seq(S) /\ Len(a \o b) = Len(a) + Len(b)
         /\ Len(a) \in Nat /\ Len(b) \in Nat
         /\ \A k \in 1..Len(a) : (a \o b)[k] = a[k]
         /\ \A k \in 1..Len(b) : (a \o b)[Len(a) + k] = b[k]
<1>1. PICK m \in Nat, n \in Nat : m = Len(a) /\ n = Len(b)
  OBVIOUS
<1>2. a \o b \in Seq(S) /\ Len(a \o b) = m + n
      /\ \A i \in 1..(m + n) : (a \o b)[i] = IF i <= m THEN a[i] ELSE b[i - m]
  BY <1>1, ConcatProperties
<1>3. ASSUME NEW k \in 1..m PROVE (a \o b)[k] = a[k]
  BY <1>2
<1>4. ASSUME NEW k \in 1..n PROVE (a \o b)[m + k] = b[k]
  <2>1. m + k \in 1..(m + n) /\ ~(m + k <= m) /\ (m + k) - m = k
    OBVIOUS
  <2> QED BY <1>2, <2>1
<1> QED BY <1>1, <1>2, <1>3, <1>4

\* Induction, for a set: the library states it for a predicate.
LEMMA NatIsLeast ==
  ASSUME NEW T, T \subseteq Nat, 0 \in T, \A n \in T : n + 1 \in T
  PROVE  T = Nat
<1> SUFFICES ASSUME Nat \ T # {} PROVE FALSE
  OBVIOUS
<1>1. \E n \in Nat \ T : \A m \in Nat \ T : <<m, n>> \notin OpToRel(<, Nat)
  BY WFMin, NatLessThanWellFounded
<1>2. PICK n \in Nat \ T : \A m \in Nat \ T : ~(m < n)
  BY <1>1 DEF OpToRel
<1>3. n \in Nat /\ n \notin T /\ n # 0
  BY <1>2
<1>4. n - 1 \in Nat /\ n - 1 < n /\ (n - 1) + 1 = n
  BY <1>3
<1>5. n - 1 \in T
  BY <1>2, <1>4
<1> QED BY <1>3, <1>4, <1>5

\* From off[0] on d is what s holds, one part after the other: the i-th ends at
\* off[i].
Joins(d, s, off) ==
  /\ off \in [0..Len(s) -> Nat] /\ Len(d) = off[Len(s)]
  /\ \A i \in 1..Len(s) : /\ off[i] = off[i - 1] + Len(s[i])
                          /\ \A j \in 1..Len(s[i]) : d[off[i - 1] + j] = s[i][j]

\* FlattenSeq is defined by a recursive function: there is one.
LEMMA FlattenExists ==
  ASSUME NEW s, NEW n \in Nat
  PROVE  \E f : f = [i \in 1..n |-> IF i = 1 THEN s[i] ELSE f[i - 1] \o s[i]]
<1> DEFINE Rec(f, m) == f = [i \in 1..m |-> IF i = 1 THEN s[i] ELSE f[i - 1] \o s[i]]
           T == {m \in Nat : \E f : Rec(f, m)}
<1>1. 0 \in T
  <2>1. Rec([i \in 1..0 |-> 0], 0)
    OBVIOUS
  <2> QED BY <2>1
<1>2. ASSUME NEW m \in T PROVE m + 1 \in T
  <2>1. PICK f : Rec(f, m)
    OBVIOUS
  <2> DEFINE g == [i \in 1..(m + 1) |-> IF i <= m THEN f[i]
                                        ELSE IF i = 1 THEN s[i] ELSE f[i - 1] \o s[i]]
  <2>2. ASSUME NEW i \in 1..(m + 1)
        PROVE  g[i] = IF i = 1 THEN s[i] ELSE g[i - 1] \o s[i]
    <3>1. i # 1 => i - 1 \in 1..m /\ g[i - 1] = f[i - 1]
      OBVIOUS
    <3>2. i \in 1..m => f[i] = IF i = 1 THEN s[i] ELSE f[i - 1] \o s[i]
      BY <2>1
    <3>3. g[i] = IF i <= m THEN f[i] ELSE IF i = 1 THEN s[i] ELSE f[i - 1] \o s[i]
      OBVIOUS
    <3>4. i <= m => i \in 1..m
      OBVIOUS
    <3> HIDE DEF g
    <3> QED BY <3>1, <3>2, <3>3, <3>4
  <2>3. Rec(g, m + 1)
    <3>1. g = [i \in 1..(m + 1) |-> g[i]]
      OBVIOUS
    <3> HIDE DEF g
    <3>2. [i \in 1..(m + 1) |-> g[i]]
          = [i \in 1..(m + 1) |-> IF i = 1 THEN s[i] ELSE g[i - 1] \o s[i]]
      BY <2>2
    <3> QED BY <3>1, <3>2
  <2>4. \E h : Rec(h, m + 1)
    <3> HIDE DEF g, Rec
    <3> QED BY <2>3
  <2>5. m + 1 \in Nat
    OBVIOUS
  <2> HIDE DEF Rec
  <2> QED BY <2>4, <2>5
<1>3. T = Nat
  <2> HIDE DEF T
  <2>1. T \subseteq Nat
    BY DEF T
  <2> QED BY <1>1, <1>2, <2>1, NatIsLeast
<1> QED BY <1>3

\* What is flattened holds the parts, one after the other.
LEMMA FlattenJoins ==
  ASSUME NEW S, NEW s \in Seq(Seq(S))
  PROVE  FlattenSeq(s) \in Seq(S) /\ \E off : Joins(FlattenSeq(s), s, off) /\ off[0] = 0
<1> DEFINE n == Len(s)
<1>0. n \in Nat /\ \A i \in 1..n : s[i] \in Seq(S) /\ Len(s[i]) \in Nat
  OBVIOUS
<1>1. CASE n = 0
  <2>1. FlattenSeq(s) = <<>> /\ s = <<>>
    BY <1>1 DEF FlattenSeq
  <2>2. Joins(<<>>, <<>>, [i \in 0..0 |-> 0])
    BY DEF Joins
  <2> QED BY <2>1, <2>2
<1>2. CASE n # 0
  <2> DEFINE Rec(f) == f = [i \in 1..n |-> IF i = 1 THEN s[i] ELSE f[i - 1] \o s[i]]
             f == CHOOSE f : Rec(f)
             End(i) == IF i = 0 THEN 0 ELSE Len(f[i])
             Holds(m) == /\ f[m] \in Seq(S)
                         /\ \A i \in 1..m : \A j \in 1..Len(s[i]) :
                              End(i - 1) + j \in 1..Len(f[m]) /\ f[m][End(i - 1) + j] = s[i][j]
  <2>1. FlattenSeq(s) = f[n]
    BY <1>2 DEF FlattenSeq
  <2>2. Rec(f)
    <3>1. \E g : Rec(g)
      BY <1>0, FlattenExists
    <3> QED BY <3>1
  <2> HIDE DEF f
  <2>3. \A i \in 1..n : f[i] = IF i = 1 THEN s[i] ELSE f[i - 1] \o s[i]
    BY <1>0, <2>2
  <2> HIDE DEF Rec
  <2>4. ASSUME NEW m \in 1..n, m = 1 \/ Holds(m - 1) PROVE Holds(m) /\ End(m) = End(m - 1) + Len(s[m])
    <3>1. CASE m = 1
      BY <1>0, <2>3, <3>1
    <3>2. CASE m # 1
      <4>1. f[m] = f[m - 1] \o s[m] /\ f[m - 1] \in Seq(S) /\ s[m] \in Seq(S)
        BY <1>0, <2>3, <2>4, <3>2
      <4>2. PICK a \in Seq(S), b \in Seq(S) : a = f[m - 1] /\ b = s[m] /\ f[m] = a \o b
        BY <4>1
      <4>3. /\ f[m] \in Seq(S) /\ Len(f[m]) = Len(a) + Len(b)
            /\ Len(a) \in Nat /\ Len(b) \in Nat
            /\ \A k \in 1..Len(a) : f[m][k] = a[k]
            /\ \A k \in 1..Len(b) : f[m][Len(a) + k] = b[k]
        <5> HIDE DEF Rec, Holds
        <5>1. /\ a \o b \in Seq(S) /\ Len(a \o b) = Len(a) + Len(b)
              /\ Len(a) \in Nat /\ Len(b) \in Nat
              /\ \A k \in 1..Len(a) : (a \o b)[k] = a[k]
              /\ \A k \in 1..Len(b) : (a \o b)[Len(a) + k] = b[k]
          BY Concat
        <5> QED BY <4>2, <5>1
      <4>4. End(m - 1) = Len(a) /\ End(m) = Len(f[m])
        <5>1. m # 0 /\ m - 1 # 0
          BY <3>2
        <5> QED BY <4>2, <5>1
      <4>5. \A i \in 1..(m - 1) : \A j \in 1..Len(s[i]) :
              End(i - 1) + j \in 1..Len(a) /\ a[End(i - 1) + j] = s[i][j]
        BY <2>4, <3>2, <4>2
      <4> HIDE DEF End
      <4>6. ASSUME NEW i \in 1..m, NEW j \in 1..Len(s[i])
            PROVE  End(i - 1) + j \in 1..Len(f[m]) /\ f[m][End(i - 1) + j] = s[i][j]
        <5>1. CASE i = m
          <6>1. s[i] = b
            BY <4>2, <5>1
          <6>2. End(i - 1) = Len(a)
            BY <4>4, <5>1
          <6>3. j \in 1..Len(b)
            BY <6>1
          <6>4. f[m][Len(a) + j] = b[j] /\ Len(a) + j \in 1..Len(f[m])
            BY <4>3, <6>3
          <6> QED BY <6>1, <6>2, <6>4
        <5>2. CASE i # m
          <6>1. i \in 1..(m - 1)
            BY <5>2
          <6>2. End(i - 1) + j \in 1..Len(a) /\ a[End(i - 1) + j] = s[i][j]
            BY <4>5, <6>1
          <6>3. 1..Len(a) \subseteq 1..Len(f[m])
            BY <4>3
          <6> QED BY <4>3, <6>2, <6>3
        <5> QED BY <5>1, <5>2
      <4> QED BY <4>2, <4>3, <4>4, <4>6
    <3> QED BY <3>1, <3>2
  <2>5. \A m \in 1..n : Holds(m)
    <3> DEFINE T == {m \in Nat : m \in 1..n => Holds(m)}
    <3> HIDE DEF Holds
    <3>1. 0 \in T
      OBVIOUS
    <3>2. ASSUME NEW m \in T PROVE m + 1 \in T
      <4> SUFFICES ASSUME m + 1 \in 1..n PROVE Holds(m + 1)
        OBVIOUS
      <4>1. m + 1 = 1 \/ Holds((m + 1) - 1)
        OBVIOUS
      <4> QED BY <2>4, <4>1
    <3>3. T = Nat
      <4> HIDE DEF T
      <4>1. T \subseteq Nat
        BY DEF T
      <4> QED BY <3>1, <3>2, <4>1, NatIsLeast
    <3> QED BY <3>3
  <2>6. \A m \in 1..n : End(m) = End(m - 1) + Len(s[m])
    <3> SUFFICES ASSUME NEW m \in 1..n PROVE End(m) = End(m - 1) + Len(s[m])
      OBVIOUS
    <3>1. m = 1 \/ Holds(m - 1)
      <4> HIDE DEF Holds
      <4> QED BY <2>5
    <3> HIDE DEF Holds, End
    <3> QED BY <2>4, <3>1
  <2> DEFINE off == [i \in 0..n |-> End(i)]
  <2>7. f[n] \in Seq(S) /\ \A i \in 1..n : \A j \in 1..Len(s[i]) : f[n][End(i - 1) + j] = s[i][j]
    BY <1>0, <1>2, <2>5
  <2>8. \A i \in 0..n : End(i) \in Nat
    BY <1>0, <2>5
  <2>9. End(n) = Len(f[n]) /\ End(0) = 0
    BY <1>2
  <2> HIDE DEF End, Holds
  <2>10. Joins(f[n], s, off)
    BY <1>0, <2>6, <2>7, <2>8, <2>9 DEF Joins
  <2>11. off[0] = 0
    BY <1>0, <2>9
  <2> HIDE DEF off
  <2> QED BY <2>1, <2>7, <2>10, <2>11
<1> QED BY <1>1, <1>2

\* So it does after something else.
LEMMA JoinsAfter ==
  ASSUME NEW S, NEW x \in Seq(S), NEW d \in Seq(S), NEW s \in Seq(Seq(S)),
         NEW off, Joins(d, s, off), off[0] = 0
  PROVE  \E o : Joins(x \o d, s, o) /\ o[0] = Len(x)
<1> DEFINE n == Len(s)
           o == [i \in 0..n |-> Len(x) + off[i]]
<1>1. /\ n \in Nat /\ Len(x) \in Nat /\ off \in [0..n -> Nat] /\ Len(d) = off[n]
      /\ \A i \in 1..n : s[i] \in Seq(S) /\ Len(s[i]) \in Nat
      /\ \A i \in 1..n : off[i] = off[i - 1] + Len(s[i])
      /\ \A i \in 1..n : \A j \in 1..Len(s[i]) : d[off[i - 1] + j] = s[i][j]
  BY SMTT(20) DEF Joins
<1> HIDE DEF n
<1>2. o \in [0..n -> Nat] /\ o[0] = Len(x) /\ Len(x \o d) = o[n]
  <2>1. Len(x \o d) = Len(x) + Len(d)
    BY Concat
  <2>2. 0 \in 0..n /\ n \in 0..n
    BY <1>1
  <2>3. o[0] = Len(x) + off[0] /\ o[n] = Len(x) + off[n]
    BY <2>2
  <2> QED BY <1>1, <2>1, <2>3
<1>3. ASSUME NEW i \in 1..n PROVE o[i] = o[i - 1] + Len(s[i])
  <2>1. off[i] = off[i - 1] + Len(s[i]) /\ i - 1 \in 0..n /\ off[i - 1] \in Nat
        /\ Len(s[i]) \in Nat
    BY <1>1
  <2>2. o[i] = Len(x) + off[i] /\ o[i - 1] = Len(x) + off[i - 1]
    BY <1>1, <2>1
  <2> HIDE DEF o
  <2> QED BY <1>1, <2>1, <2>2
<1>4. ASSUME NEW i \in 1..n PROVE off[i] <= Len(d)
  <2> DEFINE T == {m \in Nat : \A k \in 1..n : k + m = n => off[k] <= Len(d)}
  <2>1. 0 \in T
    BY <1>1
  <2>2. ASSUME NEW m \in T PROVE m + 1 \in T
    <3> SUFFICES ASSUME NEW k \in 1..n, k + (m + 1) = n PROVE off[k] <= Len(d)
      OBVIOUS
    <3>1. n \in Nat /\ m \in Nat /\ k \in 1..n /\ k + (m + 1) = n
      BY <1>1
    <3>2. k + 1 \in 1..n /\ (k + 1) + m = n /\ (k + 1) - 1 = k
      BY ONLY <3>1
    <3>3. off[k + 1] <= Len(d)
      BY <3>2
    <3>4. off[k + 1] = off[k] + Len(s[k + 1]) /\ off[k] \in Nat /\ Len(s[k + 1]) \in Nat
      BY <1>1, <3>1, <3>2, SMTT(20)
    <3>5. off[k + 1] \in Nat /\ Len(d) \in Nat
      BY <1>1, <3>1, <3>2
    <3>6. PICK a \in Nat, b \in Nat, c \in Nat, e \in Nat :
                 a = off[k] /\ b = Len(s[k + 1]) /\ c = Len(d) /\ e = off[k + 1]
      BY ONLY <3>4, <3>5
    <3>7. e = a + b /\ e <= c
      BY ONLY <3>3, <3>4, <3>6
    <3>8. a <= c
      BY ONLY <3>7, a \in Nat, b \in Nat, c \in Nat, e \in Nat
    <3> QED BY ONLY <3>6, <3>8
  <2>3. T = Nat
    <3> HIDE DEF T
    <3>1. T \subseteq Nat
      BY DEF T
    <3> QED BY <2>1, <2>2, <3>1, NatIsLeast
  <2>4. n - i \in Nat /\ i + (n - i) = n
    BY <1>1
  <2>5. \A m \in Nat : \A k \in 1..n : k + m = n => off[k] <= Len(d)
    BY <2>3
  <2> QED BY <2>4, <2>5
<1>5. ASSUME NEW i \in 1..n, NEW j \in 1..Len(s[i])
      PROVE  (x \o d)[o[i - 1] + j] = s[i][j]
  <2>1. /\ i - 1 \in 0..n /\ off[i - 1] \in Nat /\ Len(s[i]) \in Nat
        /\ off[i] = off[i - 1] + Len(s[i]) /\ off[i] <= Len(d) /\ Len(d) \in Nat
        /\ d[off[i - 1] + j] = s[i][j]
    <3>1. i - 1 \in 0..n /\ n \in 0..n
      BY <1>1
    <3>2. Len(d) \in Nat
      BY <1>1, <3>1
    <3> QED BY <1>1, <1>4, <3>1, <3>2
  <2>2. off[i - 1] + j \in 1..Len(d)
    <3>1. \A a, b, c, e \in Nat : e = a + b /\ e <= c => \A k \in 1..b : a + k \in 1..c
      OBVIOUS
    <3>2. off[i] \in Nat
      BY <1>1
    <3> QED BY <2>1, <3>1, <3>2
  <2>3. (x \o d)[Len(x) + (off[i - 1] + j)] = d[off[i - 1] + j]
    BY <2>2, Concat, SMTT(20)
  <2>4. o[i - 1] + j = Len(x) + (off[i - 1] + j)
    BY <1>1, <2>1
  <2> QED BY <2>1, <2>3, <2>4
<1> HIDE DEF o
<1>6. Joins(x \o d, s, o)
  BY <1>2, <1>3, <1>5 DEF Joins, n
<1> QED BY <1>2, <1>6

\* The parts follow each other and leave nothing out.
LEMMA Offsets ==
  ASSUME NEW S, NEW s \in Seq(Seq(S)), NEW d, NEW off, Joins(d, s, off)
  PROVE  /\ \A i, j \in 0..Len(s) : i <= j => off[i] <= off[j]
         /\ \A p \in 1..Len(d) : p > off[0] =>
              \E i \in 1..Len(s) : \E j \in 1..Len(s[i]) : p = off[i - 1] + j
<1> DEFINE n == Len(s)
<1>1. /\ n \in Nat /\ off \in [0..n -> Nat] /\ Len(d) = off[n]
      /\ \A i \in 1..n : s[i] \in Seq(S) /\ Len(s[i]) \in Nat
      /\ \A i \in 1..n : off[i] = off[i - 1] + Len(s[i])
  BY DEF Joins
<1> HIDE DEF n
<1>2. ASSUME NEW i \in 0..n, NEW j \in 0..n, i <= j PROVE off[i] <= off[j]
  <2> DEFINE T == {m \in Nat : i + m <= n => off[i] <= off[i + m]}
  <2>1. 0 \in T
    BY <1>1
  <2>2. ASSUME NEW m \in T PROVE m + 1 \in T
    <3> SUFFICES ASSUME i + (m + 1) <= n PROVE off[i] <= off[i + (m + 1)]
      OBVIOUS
    <3>1. i + (m + 1) \in 1..n /\ (i + (m + 1)) - 1 = i + m /\ i + m \in 0..n
      BY <1>1
    <3>2. off[i + (m + 1)] = off[i + m] + Len(s[i + (m + 1)]) /\ off[i] <= off[i + m]
      BY <1>1, <3>1
    <3>3. off[i] \in Nat /\ off[i + m] \in Nat /\ Len(s[i + (m + 1)]) \in Nat
      BY <1>1, <3>1
    <3> QED BY <3>2, <3>3
  <2>3. T = Nat
    <3> HIDE DEF T
    <3>1. T \subseteq Nat
      BY DEF T
    <3> QED BY <2>1, <2>2, <3>1, NatIsLeast
  <2>4. PICK m \in Nat : j = i + m
    <3>1. j - i \in Nat /\ j = i + (j - i)
      BY <1>1, <1>2
    <3> QED BY <3>1
  <2>5. i + m <= n => off[i] <= off[i + m]
    BY <2>3
  <2>6. i + m <= n
    BY <1>1, <2>4
  <2> QED BY <2>4, <2>5, <2>6
<1> DEFINE Covered(p) == \E i \in 1..n : \E j \in 1..Len(s[i]) : p = off[i - 1] + j
<1>3. ASSUME NEW p \in 1..Len(d), p > off[0] PROVE Covered(p)
  <2> DEFINE T == {m \in Nat : m <= n /\ p <= off[m] => Covered(p)}
  <2>1. 0 \in T
    BY <1>1, <1>3
  <2>2. ASSUME NEW m \in T PROVE m + 1 \in T
    <3> SUFFICES ASSUME m + 1 <= n, p <= off[m + 1] PROVE Covered(p)
      OBVIOUS
    <3>1. m + 1 \in 1..n /\ (m + 1) - 1 = m /\ m \in 0..n
      BY <1>1
    <3>2. off[m + 1] = off[m] + Len(s[m + 1]) /\ off[m] \in Nat /\ Len(s[m + 1]) \in Nat
      BY <1>1, <3>1
    <3>3. CASE p <= off[m]
      BY <3>1, <3>3
    <3>4. CASE ~(p <= off[m])
      <4>1. PICK j \in Int : p = off[m] + j
        <5>1. p \in Int /\ off[m] \in Int
          BY <3>2
        <5>2. p - off[m] \in Int /\ p = off[m] + (p - off[m])
          BY <5>1
        <5> QED BY <5>2
      <4>2. j \in 1..Len(s[m + 1])
        BY <3>2, <3>4, <4>1
      <4>3. off[(m + 1) - 1] = off[m]
        BY <3>1
      <4> QED BY <3>1, <4>1, <4>2, <4>3
    <3> QED BY <3>3, <3>4
  <2>3. T = Nat
    <3> HIDE DEF T
    <3>1. T \subseteq Nat
      BY DEF T
    <3> QED BY <2>1, <2>2, <3>1, NatIsLeast
  <2> HIDE DEF Covered
  <2>4. n \in T
    BY <1>1, <2>3
  <2> QED BY <1>1, <2>4
<1> QED BY <1>2, <1>3 DEF n

--------------------------------------------------------------------------------
(* The reader.                                                               *)

\* f lists the positions at in order.
Lists(f, n, at) ==
  /\ n \in Nat /\ f \in [1..n -> Nat]
  /\ \A i, j \in 1..n : i < j => f[i] < f[j]
  /\ \A i \in 1..n : f[i] \in at
  /\ \A p \in at : \E i \in 1..n : p = f[i]

\* The n-th of the positions is the n-th that is listed.
LEMMA NthIsListed ==
  ASSUME NEW f, NEW n, NEW at, Lists(f, n, at)
  PROVE  Cardinality(at) = n /\ \A i \in 1..n : Nth(at, i) = f[i]
<1> USE DEF Lists
<1>0. at = {f[i] : i \in 1..n}
  OBVIOUS
<1>1. ASSUME NEW m \in 0..n
      PROVE  IsFiniteSet({f[i] : i \in 1..m}) /\ Cardinality({f[i] : i \in 1..m}) = m
  <2> DEFINE g == [i \in 1..m |-> f[i]]
             I == {f[i] : i \in 1..m}
  <2>1. g \in Bijection(1..m, I)
    <3>1. g \in [1..m -> I] /\ \A t \in I : \E i \in 1..m : g[i] = t
      OBVIOUS
    <3>2. ASSUME NEW i \in 1..m, NEW j \in 1..m, g[i] = g[j] PROVE i = j
      <4>1. i \in 1..n /\ j \in 1..n /\ f[i] = f[j] /\ f[i] \in Nat
        BY <3>2
      <4>2. ~(i < j) /\ ~(j < i)
        BY <4>1
      <4> QED BY <4>2
    <3> HIDE DEF g, I
    <3> QED BY <3>1, <3>2 DEF Bijection, Injection, Surjection, IsInjective
  <2>2. IsFiniteSet(1..m) /\ Cardinality(1..m) = m
    BY FS_Interval
  <2> HIDE DEF g, I
  <2>3. ExistsBijection(1..m, I)
    BY <2>1 DEF ExistsBijection
  <2>4. IsFiniteSet(I) /\ Cardinality(I) = m
    BY <2>2, <2>3, FS_Bijection
  <2> QED BY <2>4 DEF I
<1>2. ASSUME NEW i \in 1..n PROVE Cardinality({t \in at : t <= f[i]}) = i
  <2>1. {t \in at : t <= f[i]} = {f[j] : j \in 1..i}
    <3>1. ASSUME NEW j \in 1..n PROVE f[j] <= f[i] <=> j <= i
      <4>1. f[i] \in Nat /\ f[j] \in Nat /\ (j < i => f[j] < f[i]) /\ (i < j => f[i] < f[j])
        OBVIOUS
      <4>2. j < i \/ j = i \/ i < j
        OBVIOUS
      <4> QED BY <4>1, <4>2
    <3>2. \A j \in 1..n : j <= i <=> j \in 1..i
      OBVIOUS
    <3>3. 1..i \subseteq 1..n
      OBVIOUS
    <3> QED BY <1>0, <3>1, <3>2, <3>3
  <2>2. i \in 0..n
    OBVIOUS
  <2> QED BY <1>1, <2>1, <2>2
<1>3. ASSUME NEW i \in 1..n PROVE Nth(at, i) = f[i]
  <2>1. f[i] \in at /\ Cardinality({t \in at : t <= f[i]}) = i
    BY <1>2
  <2>2. ASSUME NEW u \in at, Cardinality({t \in at : t <= u}) = i PROVE u = f[i]
    <3>1. PICK j \in 1..n : u = f[j]
      OBVIOUS
    <3>2. j = i
      BY <1>2, <2>2, <3>1
    <3> QED BY <3>1, <3>2
  <2> QED BY <2>1, <2>2 DEF Nth
<1>4. n \in 0..n
  OBVIOUS
<1> QED BY <1>0, <1>1, <1>3, <1>4

\* The one that is first is the first.
LEMMA FirstIsMin ==
  ASSUME NEW I, I \subseteq Nat, NEW i \in I, \A j \in I : i <= j
  PROVE  Min(I) = i
<1>1. ASSUME NEW j \in I, \A k \in I : j <= k PROVE j = i
  <2>1. i \in Nat /\ j \in Nat /\ i <= j /\ j <= i
    BY <1>1
  <2> QED BY <2>1
<1> QED BY <1>1 DEF Min

\* The elements from i to j.
LEMMA SubSeqIs ==
  ASSUME NEW S, NEW s \in Seq(S), NEW t \in Seq(S), NEW a \in Nat,
         \A j \in 1..Len(t) : s[a + j] = t[j]
  PROVE  SubSeq(s, a + 1, a + Len(t)) = t
<1> DEFINE n == Len(t)
<1>1. n \in Nat /\ \A j \in 1..n : t[j] \in S
  OBVIOUS
<1>2. ASSUME NEW i \in (a + 1)..(a + n) PROVE s[i] \in S
  <2>1. i - a \in 1..n /\ a + (i - a) = i
    BY <1>1
  <2> QED BY <1>1, <2>1
<1> DEFINE u == SubSeq(s, a + 1, a + n)
<1>3. /\ u \in Seq(S) /\ Len(u) = IF a + 1 <= a + n THEN (a + n) - (a + 1) + 1 ELSE 0
      /\ \A i \in 1..((a + n) - (a + 1) + 1) : u[i] = s[(a + 1) + i - 1]
  BY <1>1, <1>2, SubSeqProperties
<1> HIDE DEF u, n
<1>4. Len(u) = n
  BY <1>1, <1>3
<1>5. ASSUME NEW i \in 1..n PROVE u[i] = t[i]
  <2>1. (a + n) - (a + 1) + 1 = n /\ (a + 1) + i - 1 = a + i
    BY <1>1
  <2> QED BY <1>3, <2>1 DEF n
<1> QED BY <1>3, <1>4, <1>5, SeqEqual DEF u, n

\* A part ends at the end, or where the next one begins.
LEMMA PartIs ==
  ASSUME NEW S, NEW s \in Seq(S), NEW at, at \subseteq 1..Len(s), NEW i \in at, NEW e \in Nat,
         i <= e, \A j \in at : j > i => j > e, e = Len(s) \/ e + 1 \in at
  PROVE  Part(s, at, i) = SubSeq(s, i, e)
<1> DEFINE later == {j \in at : j > i}
<1>0. Len(s) \in Nat /\ i \in Nat /\ \A j \in at : j \in Nat /\ j <= Len(s)
  OBVIOUS
<1>1. CASE e = Len(s)
  <2>1. ASSUME NEW j \in at, j > i PROVE FALSE
    <3>1. j > e /\ j \in Nat /\ j <= e
      BY <1>0, <1>1, <2>1
    <3> QED BY <3>1
  <2>2. later = {}
    BY <2>1
  <2> QED BY <1>1, <2>2 DEF Part
<1>2. CASE e + 1 \in at
  <2>1. e + 1 \in later /\ later \subseteq Nat /\ \A j \in later : e + 1 <= j
    <3>1. e + 1 > i
      BY <1>0
    <3>2. ASSUME NEW j \in at, j > i PROVE j \in Nat /\ e + 1 <= j
      <4>1. j > e /\ j \in Nat
        BY <1>0, <3>2
      <4> QED BY <4>1
    <3> QED BY <1>2, <3>1, <3>2
  <2> HIDE DEF later
  <2>2. later # {} /\ Min(later) - 1 = e
    <3>1. Min(later) = e + 1
      BY <2>1, FirstIsMin
    <3> QED BY <2>1, <3>1
  <2> QED BY <2>2 DEF Part, later
<1> QED BY <1>1, <1>2

\* Parts that begin with the key, and only they have it, are the items.
LEMMA ItemsAreParts ==
  ASSUME NEW S, NEW d \in Seq(S), NEW s \in Seq(Seq(S)), NEW off, Joins(d, s, off), NEW key,
         \A p \in 1..off[0] : d[p].key # key,
         \A i \in 1..Len(s) : /\ s[i] # <<>> /\ s[i][1].key = key
                              /\ \A j \in 1..Len(s[i]) : j # 1 => s[i][j].key # key
  PROVE  Items(d, key) = s
<1> DEFINE n == Len(s)
           at == Keyed(d, key)
           f == [i \in 1..n |-> off[i - 1] + 1]
<1>1. /\ n \in Nat /\ off \in [0..n -> Nat] /\ Len(d) = off[n] /\ DOMAIN d = 1..Len(d)
      /\ \A i \in 1..n : s[i] \in Seq(S) /\ Len(s[i]) \in Nat /\ Len(s[i]) >= 1
      /\ \A i \in 1..n : off[i] = off[i - 1] + Len(s[i])
      /\ \A i \in 1..n : \A j \in 1..Len(s[i]) : d[off[i - 1] + j] = s[i][j]
  BY DEF Joins
<1>2. /\ \A i, j \in 0..n : i <= j => off[i] <= off[j]
      /\ \A p \in 1..Len(d) : p > off[0] =>
              \E i \in 1..n : \E j \in 1..Len(s[i]) : p = off[i - 1] + j
  BY Offsets
<1>3. ASSUME NEW i \in 1..n
      PROVE  /\ i - 1 \in 0..n /\ i \in 0..n /\ off[i - 1] \in Nat /\ off[i] \in Nat
             /\ off[i - 1] + 1 <= off[i] /\ off[i] <= Len(d) /\ Len(d) \in Nat
             /\ f[i] = off[i - 1] + 1 /\ f[i] \in 1..Len(d) /\ d[f[i]] = s[i][1]
  <2>1. i - 1 \in 0..n /\ i \in 0..n /\ n \in 0..n /\ i <= n
    BY <1>1
  <2>2. off[i - 1] \in Nat /\ off[i] \in Nat /\ off[n] \in Nat /\ off[i] <= off[n]
    BY <1>1, <1>2, <2>1
  <2>3. off[i] = off[i - 1] + Len(s[i]) /\ Len(s[i]) \in Nat /\ Len(s[i]) >= 1
        /\ d[off[i - 1] + 1] = s[i][1]
    BY <1>1
  <2>4. f[i] = off[i - 1] + 1
    OBVIOUS
  <2> HIDE DEF f, n
  <2>5. off[i - 1] + 1 <= off[i] /\ off[i] <= Len(d) /\ Len(d) \in Nat
    BY <1>1, <2>2, <2>3
  <2>6. \A a, b, c \in Nat : a + 1 <= b /\ b <= c => a + 1 \in 1..c
    OBVIOUS
  <2>7. off[i - 1] + 1 \in 1..Len(d)
    BY <2>2, <2>5, <2>6
  <2> QED BY <2>1, <2>2, <2>3, <2>4, <2>5, <2>7
<1>4. ASSUME NEW i \in 1..n, NEW j \in 1..n, i < j PROVE off[i] < f[j] /\ f[i] < f[j]
  <2>1. i <= j - 1 /\ j - 1 \in 0..n /\ i \in 0..n
    BY <1>1, <1>4
  <2>2. off[i] <= off[j - 1]
    BY <1>2, <2>1
  <2>3. /\ off[j - 1] \in Nat /\ off[i] \in Nat /\ f[j] = off[j - 1] + 1
        /\ f[i] \in Nat /\ f[i] <= off[i]
    BY <1>3
  <2> HIDE DEF f
  <2> QED BY ONLY <1>4, <2>2, <2>3
<1> HIDE DEF f
<1>5. (\A i \in 1..n : f[i] \in at) /\ \A p \in at : \E i \in 1..n : p = f[i]
  <2>1. ASSUME NEW p \in at PROVE \E i \in 1..n : p = f[i]
    <3>1. p \in 1..Len(d) /\ d[p].key = key
      BY <1>1 DEF Keyed
    <3>2. p > off[0]
      <4>1. off[0] \in Nat /\ p \in Nat
        BY <1>1, <3>1
      <4> QED BY <3>1, <4>1
    <3>3. PICK i \in 1..n : \E j \in 1..Len(s[i]) : p = off[i - 1] + j
      BY <1>2, <3>1, <3>2
    <3>4. PICK j \in 1..Len(s[i]) : p = off[i - 1] + j
      BY <3>3
    <3>5. d[p] = s[i][j]
      BY <1>1, <3>4
    <3>6. j = 1
      BY <3>1, <3>5
    <3>7. p = f[i]
      BY <1>3, <3>4, <3>6
    <3> QED BY <3>7
  <2>2. ASSUME NEW i \in 1..n PROVE f[i] \in at
    BY <1>1, <1>3 DEF Keyed
  <2> QED BY <2>1, <2>2
<1>6. /\ Cardinality(at) = n /\ \A i \in 1..n : Nth(at, i) = f[i]
  <2>1. f \in [1..n -> Nat]
    <3>1. \A i \in 1..n : off[i - 1] + 1 \in Nat
      BY <1>3
    <3> QED BY <3>1 DEF f
  <2>2. Lists(f, n, at)
    BY <1>1, <1>4, <1>5, <2>1 DEF Lists
  <2> HIDE DEF at, n
  <2> QED BY <2>2, NthIsListed
<1>7. ASSUME NEW i \in 1..n PROVE Part(d, at, f[i]) = s[i]
  <2> DEFINE e == off[i]
  <2>1. /\ f[i] \in at /\ e \in Nat /\ f[i] <= e
        /\ at \subseteq 1..Len(d)
    BY <1>1, <1>3, <1>5 DEF Keyed
  <2>2. ASSUME NEW p \in at, p > f[i] PROVE p > e
    <3>1. PICK j \in 1..n : p = f[j]
      BY <1>5
    <3>2. ~(j < i) /\ j # i
      <4>1. f[i] \in Nat /\ f[j] \in Nat
        <5>1. \A k \in 1..n : f[k] \in 1..Len(d)
          BY <1>3
        <5> QED BY <5>1
      <4>2. f[j] > f[i]
        BY <2>2, <3>1
      <4>3. j < i => f[j] < f[i]
        BY <1>4
      <4> QED BY <4>1, <4>2, <4>3
    <3>3. i < j
      BY <3>2
    <3>4. e < f[j] /\ e \in Nat /\ f[j] \in Nat
      BY <1>3, <1>4, <3>3
    <3> QED BY <3>1, <3>4
  <2>3. e = Len(d) \/ e + 1 \in at
    <3>1. CASE i = n
      BY <1>1, <3>1
    <3>2. CASE i # n
      <4>1. i + 1 \in 1..n /\ (i + 1) - 1 = i
        BY <1>1, <3>2
      <4>2. f[i + 1] = e + 1
        BY <1>3, <4>1
      <4> QED BY <1>5, <4>1, <4>2
    <3> QED BY <3>1, <3>2
  <2>4. Part(d, at, f[i]) = SubSeq(d, f[i], e)
    <3> HIDE DEF at, e
    <3> QED BY <2>1, <2>2, <2>3, PartIs
  <2>5. f[i] = off[i - 1] + 1 /\ e = off[i - 1] + Len(s[i]) /\ off[i - 1] \in Nat
    BY <1>1, <1>3
  <2>6. SubSeq(d, off[i - 1] + 1, off[i - 1] + Len(s[i])) = s[i]
    <3>1. s[i] \in Seq(S) /\ \A j \in 1..Len(s[i]) : d[off[i - 1] + j] = s[i][j]
      BY <1>1
    <3>2. PICK a \in Nat : a = off[i - 1]
      BY <2>5
    <3>3. PICK t \in Seq(S) : t = s[i]
      BY <3>1
    <3>4. \A j \in 1..Len(t) : d[a + j] = t[j]
      BY <3>1, <3>2, <3>3
    <3>5. SubSeq(d, a + 1, a + Len(t)) = t
      BY <3>4, SubSeqIs
    <3> QED BY <3>2, <3>3, <3>5
  <2> QED BY <2>4, <2>5, <2>6
<1> HIDE DEF at
<1>8. Items(d, key) = [m \in 1..n |-> s[m]]
  BY <1>6, <1>7 DEF Items, at
<1> QED BY <1>8

\* The lines with a key, when they are the last ones.
LEMMA SelectTail ==
  ASSUME NEW S, NEW x \in Seq(S), NEW t \in Seq(S), NEW key,
         \A i \in 1..Len(x) : x[i].key # key, \A i \in 1..Len(t) : t[i].key = key
  PROVE  Select(x \o t, key) = t
<1> DEFINE n == Len(t)
           a == Len(x)
           d == x \o t
           at == Keyed(d, key)
           f == [i \in 1..n |-> a + i]
<1>1. /\ d \in Seq(S) /\ Len(d) = a + n /\ a \in Nat /\ n \in Nat /\ DOMAIN d = 1..(a + n)
      /\ \A k \in 1..a : d[k] = x[k]
      /\ \A k \in 1..n : d[a + k] = t[k]
  BY Concat
<1> HIDE DEF d
<1>2. (\A i \in 1..n : f[i] \in at) /\ \A p \in at : \E i \in 1..n : p = f[i]
  <2>1. ASSUME NEW p \in at PROVE \E i \in 1..n : p = f[i]
    <3>1. p \in 1..(a + n) /\ d[p].key = key
      BY <1>1 DEF Keyed
    <3>2. p \notin 1..a
      BY <1>1, <3>1
    <3>3. p - a \in 1..n /\ p = a + (p - a)
      BY <1>1, <3>1, <3>2
    <3> QED BY <3>3
  <2>2. ASSUME NEW i \in 1..n PROVE f[i] \in at
    <3>1. a + i \in 1..(a + n)
      BY <1>1
    <3> QED BY <1>1, <3>1 DEF Keyed
  <2> QED BY <2>1, <2>2
<1>3. f \in [1..n -> Nat] /\ \A i, j \in 1..n : i < j => f[i] < f[j]
  BY <1>1
<1>4. Cardinality(at) = n /\ \A i \in 1..n : Nth(at, i) = f[i]
  <2>1. Lists(f, n, at)
    <3> HIDE DEF f, at, n
    <3> QED BY <1>1, <1>2, <1>3 DEF Lists
  <2> HIDE DEF f, at, n
  <2> QED BY <2>1, NthIsListed
<1>5. \A i \in 1..n : d[Nth(at, i)] = t[i]
  BY <1>1, <1>4
<1> HIDE DEF at
<1>6. Select(d, key) = [i \in 1..n |-> t[i]]
  BY <1>4, <1>5 DEF Select, at
<1> QED BY <1>6 DEF d

\* The value of a key is the last one.
LEMMA ValueOfConcat ==
  ASSUME NEW S, NEW x \in Seq(S), NEW t \in Seq(S), NEW key
  PROVE  /\ ValueOf(x \o t, key) = IF Keyed(t, key) # {} THEN ValueOf(t, key) ELSE ValueOf(x, key)
         /\ Keyed(x \o t, key) = {} <=> Keyed(x, key) = {} /\ Keyed(t, key) = {}
<1> DEFINE n == Len(t)
           a == Len(x)
           d == x \o t
<1>1. /\ d \in Seq(S) /\ Len(d) = a + n /\ a \in Nat /\ n \in Nat /\ DOMAIN d = 1..(a + n)
      /\ \A k \in 1..a : d[k] = x[k]
      /\ \A k \in 1..n : d[a + k] = t[k]
      /\ DOMAIN x = 1..a /\ DOMAIN t = 1..n
  BY Concat
<1> HIDE DEF d, n, a
<1>2. ASSUME NEW p \in Keyed(t, key) PROVE a + p \in Keyed(d, key) /\ p \in 1..n
  BY <1>1 DEF Keyed
<1>3. ASSUME NEW p \in Keyed(x, key) PROVE p \in Keyed(d, key) /\ p \in 1..a
  BY <1>1 DEF Keyed
<1>4. ASSUME NEW p \in Keyed(d, key)
      PROVE  p \in 1..(a + n) /\ (p \in Keyed(x, key) \/ (p - a \in Keyed(t, key) /\ p > a))
  <2>1. p \in 1..(a + n) /\ d[p].key = key
    BY <1>1 DEF Keyed
  <2>2. CASE p \in 1..a
    BY <1>1, <2>1, <2>2 DEF Keyed
  <2>3. CASE p \notin 1..a
    <3>1. p - a \in 1..n /\ a + (p - a) = p /\ p > a
      BY <1>1, <2>1, <2>3
    <3>2. t[p - a] = d[p]
      BY <1>1, <3>1
    <3> QED BY <1>1, <2>1, <3>1, <3>2 DEF Keyed
  <2> QED BY <2>1, <2>2, <2>3
<1>5. Keyed(d, key) = {} <=> Keyed(x, key) = {} /\ Keyed(t, key) = {}
  BY <1>2, <1>3, <1>4
<1>6. CASE Keyed(t, key) # {}
  <2> DEFINE m == Max(Keyed(t, key))
  <2>1. Keyed(t, key) \subseteq 1..n
    BY <1>1 DEF Keyed
  <2>2. m \in Keyed(t, key) /\ \A i \in Keyed(t, key) : i <= m
    BY <1>1, <1>6, <2>1, MaxIsLast
  <2> HIDE DEF m
  <2>3. m \in 1..n /\ a + m \in Keyed(d, key)
    BY <1>2, <2>2
  <2>4. ASSUME NEW p \in Keyed(d, key) PROVE p <= a + m
    <3>1. CASE p \in Keyed(x, key)
      BY <1>1, <1>3, <2>3, <3>1
    <3>2. CASE p - a \in Keyed(t, key)
      <4>1. p \in Nat /\ p - a <= m
        BY <1>4, <2>2, <3>2
      <4> QED BY <1>1, <2>3, <4>1
    <3> QED BY <1>4, <3>1, <3>2
  <2>5. Keyed(d, key) \subseteq 1..(a + n) /\ a + n \in Nat
    BY <1>1 DEF Keyed
  <2>6. Max(Keyed(d, key)) = a + m
    BY <2>3, <2>4, <2>5, LastIsMax
  <2>7. d[a + m] = t[m]
    BY <1>1, <2>3
  <2> QED BY <1>5, <1>6, <2>6, <2>7 DEF ValueOf, m, d
<1>7. CASE Keyed(t, key) = {}
  <2>1. Keyed(d, key) = Keyed(x, key)
    BY <1>3, <1>4, <1>7
  <2>2. CASE Keyed(x, key) = {}
    BY <1>7, <2>1, <2>2 DEF ValueOf, d
  <2>3. CASE Keyed(x, key) # {}
    <3>1. Max(Keyed(x, key)) \in Keyed(x, key)
      <4>1. Keyed(x, key) \subseteq 1..a
        BY <1>3
      <4> QED BY <1>1, <2>3, <4>1, MaxIsLast
    <3>2. d[Max(Keyed(x, key))] = x[Max(Keyed(x, key))]
      BY <1>1, <1>3, <3>1
    <3> QED BY <1>7, <2>1, <2>3, <3>2 DEF ValueOf, d
  <2> QED BY <2>2, <2>3
<1> QED BY <1>5, <1>6, <1>7 DEF d

\* d is what s holds, and nothing else.
Covers(d, s) == \E off : Joins(d, s, off) /\ off[0] = 0

\* Of the parts of s only the m-th has the key.
OnlyIn(m, s, key) == m \in 1..Len(s) /\ \A i \in 1..Len(s) : i # m => Keyed(s[i], key) = {}

\* Of parts that follow each other one has the key.
LEMMA ValueOfPart ==
  ASSUME NEW S, NEW d \in Seq(S), NEW s \in Seq(Seq(S)), Covers(d, s),
         NEW key, NEW m, OnlyIn(m, s, key)
  PROVE  ValueOf(d, key) = ValueOf(s[m], key)
<1> SUFFICES ASSUME NEW off, Joins(d, s, off), off[0] = 0, m \in 1..Len(s),
                    \A i \in 1..Len(s) : i # m => Keyed(s[i], key) = {}
             PROVE  ValueOf(d, key) = ValueOf(s[m], key)
  BY DEF Covers, OnlyIn
<1>0. /\ \A i, j \in 0..Len(s) : i <= j => off[i] <= off[j]
      /\ \A p \in 1..Len(d) : p > off[0] =>
           \E i \in 1..Len(s) : \E j \in 1..Len(s[i]) : p = off[i - 1] + j
  <2>1. PICK t \in Seq(Seq(S)) : t = s
    OBVIOUS
  <2>2. Joins(d, t, off)
    BY <2>1
  <2>3. /\ \A i, j \in 0..Len(t) : i <= j => off[i] <= off[j]
        /\ \A p \in 1..Len(d) : p > off[0] =>
             \E i \in 1..Len(t) : \E j \in 1..Len(t[i]) : p = off[i - 1] + j
    BY ONLY t \in Seq(Seq(S)), <2>2, Offsets
  <2> QED BY <2>1, <2>3
<1>1. PICK a \in Nat, t \in Seq(S), b \in Nat :
        /\ a = off[m - 1] /\ t = s[m] /\ b = Len(t)
        /\ off[m] = a + b /\ \A j \in 1..b : d[a + j] = t[j]
  <2>1. m - 1 \in 0..Len(s) /\ s[m] \in Seq(S)
    OBVIOUS
  <2>2. off[m - 1] \in Nat /\ Len(s[m]) \in Nat
    <3>1. off \in [0..Len(s) -> Nat]
      BY DEF Joins
    <3>2. off[m - 1] \in Nat
      BY <2>1, <3>1
    <3>3. Len(s[m]) \in Nat
      BY <2>1
    <3> QED BY <3>2, <3>3
  <2>3. off[m] = off[m - 1] + Len(s[m]) /\ \A j \in 1..Len(s[m]) : d[off[m - 1] + j] = s[m][j]
    BY DEF Joins
  <2> QED BY <2>1, <2>2, <2>3
<1>2. PICK l \in Nat : l = Len(d) /\ a + b <= l
  <2>1. m \in 0..Len(s) /\ Len(s) \in 0..Len(s) /\ m <= Len(s)
    OBVIOUS
  <2>2. off[m] <= off[Len(s)]
    BY <1>0, <2>1
  <2>3. Len(d) = off[Len(s)] /\ Len(d) \in Nat
    BY DEF Joins
  <2> QED BY <1>1, <2>2, <2>3
<1>3. DOMAIN d = 1..l /\ DOMAIN t = 1..b
  BY <1>1, <1>2
<1>4. ASSUME NEW p \in Keyed(d, key) PROVE \E q \in Keyed(t, key) : p = a + q
  <2>1. p \in 1..l /\ d[p].key = key
    BY <1>3 DEF Keyed
  <2>2. PICK i \in 1..Len(s) : \E j \in 1..Len(s[i]) : p = off[i - 1] + j
    <3>1. p \in 1..Len(d) /\ p > off[0]
      BY <1>2, <2>1
    <3> QED BY <1>0, <3>1
  <2>3. PICK j \in 1..Len(s[i]) : p = off[i - 1] + j
    BY <2>2
  <2>4. d[p] = s[i][j] /\ DOMAIN s[i] = 1..Len(s[i])
    BY <2>3 DEF Joins
  <2>5. j \in Keyed(s[i], key)
    BY <2>1, <2>4 DEF Keyed
  <2>6. i = m
    BY <2>5
  <2> QED BY <1>1, <2>3, <2>5, <2>6
<1>5. ASSUME NEW q \in Keyed(t, key) PROVE a + q \in Keyed(d, key) /\ q \in 1..b
  <2>1. q \in 1..b /\ t[q].key = key
    BY <1>3 DEF Keyed
  <2>2. a + q \in 1..l
    BY <1>2, <2>1
  <2> QED BY <1>1, <1>3, <2>1, <2>2 DEF Keyed
<1>6. CASE Keyed(t, key) = {}
  <2>1. Keyed(d, key) = {}
    BY <1>4, <1>6
  <2> QED BY <1>1, <1>6, <2>1 DEF ValueOf
<1>7. CASE Keyed(t, key) # {}
  <2> DEFINE k == Max(Keyed(t, key))
  <2>1. k \in Keyed(t, key) /\ \A q \in Keyed(t, key) : q <= k
    <3>1. Keyed(t, key) \subseteq 1..b
      BY <1>5
    <3> QED BY <1>7, <3>1, MaxIsLast
  <2> HIDE DEF k
  <2>2. k \in 1..b /\ a + k \in Keyed(d, key)
    BY <1>5, <2>1
  <2>3. ASSUME NEW p \in Keyed(d, key) PROVE p <= a + k
    <3>1. PICK q \in Keyed(t, key) : p = a + q
      BY <1>4
    <3>2. q \in 1..b /\ q <= k
      BY <1>5, <2>1
    <3> QED BY <2>2, <3>1, <3>2
  <2>4. Keyed(d, key) \subseteq 1..l
    BY <1>3 DEF Keyed
  <2>5. Max(Keyed(d, key)) = a + k
    BY <2>2, <2>3, <2>4, LastIsMax
  <2>6. d[a + k] = t[k]
    BY <1>1, <2>2
  <2> QED BY <1>1, <1>7, <2>2, <2>5, <2>6 DEF ValueOf, k
<1> QED BY <1>6, <1>7

\* A line of the top level of the document.
Top(l) == l.indent = 0 /\ l.key \notin {"- path", "text"}

\* A section begins with the first line of the top level that has its key, and ends
\* before the next line of the top level.
LEMMA SectionIs ==
  ASSUME NEW S, NEW x \in Seq(S), NEW t \in Seq(S), NEW y \in Seq(S), NEW key,
         \A i \in 1..Len(x) : ~(Top(x[i]) /\ x[i].key = key),
         t # <<>>, Top(t[1]), t[1].key = key, \A i \in 1..Len(t) : Top(t[i]) => i = 1,
         y # <<>> => Top(y[1])
  PROVE  Section(x \o (t \o y), key) = t
<1> DEFINE d == x \o (t \o y)
           top == {i \in DOMAIN d : d[i].indent = 0 /\ d[i].key \notin {"- path", "text"}}
           at == top \cap Keyed(d, key)
<1>1. PICK a \in Nat, b \in Nat, c \in Nat : a = Len(x) /\ b = Len(t) /\ c = Len(y)
  OBVIOUS
<1>2. /\ t \o y \in Seq(S) /\ Len(t \o y) = b + c
      /\ \A k \in 1..b : (t \o y)[k] = t[k]
      /\ \A k \in 1..c : (t \o y)[b + k] = y[k]
  BY <1>1, Concat
<1>3. /\ d \in Seq(S) /\ Len(d) = a + (b + c)
      /\ \A k \in 1..a : d[k] = x[k]
      /\ \A k \in 1..(b + c) : d[a + k] = (t \o y)[k]
  BY <1>1, <1>2, Concat
<1>4. /\ \A k \in 1..b : d[a + k] = t[k]
      /\ \A k \in 1..c : d[a + (b + k)] = y[k]
  <2>1. \A k \in 1..b : k \in 1..(b + c)
    OBVIOUS
  <2>2. \A k \in 1..c : b + k \in 1..(b + c)
    OBVIOUS
  <2> QED BY <1>2, <1>3, <2>1, <2>2
<1>5. b >= 1
  BY <1>1
<1> HIDE DEF d
<1>6. DOMAIN d = 1..(a + (b + c))
  BY <1>3
<1>7. ASSUME NEW p PROVE p \in top <=> p \in 1..(a + (b + c)) /\ Top(d[p])
  BY <1>6 DEF Top
<1> HIDE DEF top
<1>8. a + 1 \in at
  <2>1. a + 1 \in 1..(a + (b + c)) /\ d[a + 1] = t[1]
    BY <1>4, <1>5
  <2> QED BY <1>6, <1>7, <2>1 DEF Keyed
<1>9. ASSUME NEW p \in at PROVE p \in Nat /\ a + 1 <= p
  <2>1. p \in 1..(a + (b + c)) /\ Top(d[p]) /\ d[p].key = key
    BY <1>7 DEF Keyed
  <2>2. p \notin 1..a
    BY <1>1, <1>3, <2>1
  <2> QED BY <2>1, <2>2
<1>10. at # {} /\ Min(at) = a + 1
  <2> HIDE DEF at
  <2>1. at \subseteq Nat
    BY <1>9
  <2> QED BY <1>8, <1>9, <2>1, FirstIsMin
<1>11. ASSUME NEW p \in top, p > a + 1 PROVE p > a + b
  <2>1. p \in 1..(a + (b + c)) /\ Top(d[p])
    BY <1>7
  <2>2. ASSUME p <= a + b PROVE FALSE
    <3>1. PICK k \in 1..b : p = a + k
      <4>1. p - a \in 1..b /\ p = a + (p - a)
        BY <1>11, <2>1, <2>2
      <4> QED BY <4>1
    <3>2. Top(t[k]) /\ k # 1
      BY <1>4, <1>11, <2>1, <3>1
    <3> QED BY <1>1, <3>2
  <2> QED BY <2>1, <2>2
<1>12. a + b = Len(d) \/ (a + b) + 1 \in top
  <2>1. CASE c = 0
    BY <1>3, <2>1
  <2>2. CASE c # 0
    <3>1. 1 \in 1..c /\ y # <<>>
      BY <1>1, <2>2
    <3>2. (a + b) + 1 = a + (b + 1) /\ a + (b + 1) \in 1..(a + (b + c))
      BY <2>2
    <3>3. d[a + (b + 1)] = y[1]
      BY <1>4, <3>1
    <3> QED BY <1>7, <3>1, <3>2, <3>3
  <2> QED BY <2>1, <2>2
<1>13. Part(d, top, a + 1) = SubSeq(d, a + 1, a + b)
  <2>1. a + 1 \in top /\ top \subseteq 1..Len(d) /\ a + b \in Nat /\ a + 1 <= a + b
    BY <1>3, <1>5, <1>7, <1>8
  <2>2. d \in Seq(S)
    BY <1>3
  <2> QED BY <1>11, <1>12, <2>1, <2>2, PartIs
<1>14. SubSeq(d, a + 1, a + b) = t
  <2>1. d \in Seq(S) /\ \A j \in 1..Len(t) : d[a + j] = t[j]
    BY <1>1, <1>3, <1>4
  <2> HIDE DEF at
  <2>2. SubSeq(d, a + 1, a + Len(t)) = t
    BY ONLY <2>1, SubSeqIs
  <2> QED BY <1>1, <2>2
<1>15. Section(d, key) = Part(d, top, Min(at))
  BY <1>10 DEF Section, top
<1> QED BY <1>10, <1>13, <1>14, <1>15 DEF d

\* Without such a line there is no section.
LEMMA NoSection ==
  ASSUME NEW S, NEW d \in Seq(S), NEW key, \A i \in 1..Len(d) : ~(Top(d[i]) /\ d[i].key = key)
  PROVE  Section(d, key) = <<>>
<1>1. DOMAIN d = 1..Len(d)
  OBVIOUS
<1> QED BY <1>1 DEF Section, Keyed, Top

--------------------------------------------------------------------------------
(* A file.                                                                   *)

\* The first of some positions.
LEMMA MinIsFirst ==
  ASSUME NEW I, I \subseteq Nat, I # {}
  PROVE  Min(I) \in I /\ \A i \in I : Min(I) <= i
<1>1. \E i \in I : \A j \in I : <<j, i>> \notin OpToRel(<, Nat)
  BY WFMin, NatLessThanWellFounded
<1>2. PICK i \in I : \A j \in I : ~(j < i)
  BY <1>1 DEF OpToRel
<1>3. \A j \in I : i <= j
  BY <1>2
<1>4. Min(I) = i
  BY <1>3, FirstIsMin
<1> QED BY <1>3, <1>4

LEMMA NoDeeper ==
  ASSUME NEW n \in Nat, NEW x \in Nat, NEW y \in Nat, x <= y
  PROVE  ~(n + y < n + x)
OBVIOUS

\* A content that can be a block is read with its text, but for empty lines at its end
\* (cloudinit.go, Indent).
THEOREM ContentReadsBack ==
  ASSUME NEW n \in Nat, NEW c \in Contents, IsBlock(c)
  PROVE  SameText(ReadContent(Indent(n, c)), c)
<1> DEFINE block == Indent(n, c)
           solid == {i \in DOMAIN c : c[i].text # ""}
<1>1. /\ Len(c) \in Nat /\ DOMAIN c = 1..Len(c) /\ c = [i \in DOMAIN c |-> c[i]]
      /\ \A i \in DOMAIN c : c[i].indent \in Nat /\ c[i] = [indent |-> c[i].indent, text |-> c[i].text]
  <2>1. c \in Seq([indent : Nat, text : Value])
    BY DEF Contents
  <2>2. \A l \in [indent : Nat, text : Value] :
          l.indent \in Nat /\ l = [indent |-> l.indent, text |-> l.text]
    OBVIOUS
  <2>3. PICK R : R = [indent : Nat, text : Value]
    OBVIOUS
  <2>4. c \in Seq(R)
    BY <2>1, <2>3
  <2>5. /\ Len(c) \in Nat /\ DOMAIN c = 1..Len(c) /\ c = [i \in DOMAIN c |-> c[i]]
        /\ \A i \in DOMAIN c : c[i] \in R
    BY ONLY <2>4
  <2>6. \A l \in R : l.indent \in Nat /\ l = [indent |-> l.indent, text |-> l.text]
    BY <2>2, <2>3
  <2> QED BY <2>5, <2>6
<1>2. /\ DOMAIN block = DOMAIN c
      /\ \A i \in DOMAIN c : block[i].indent = n + c[i].indent /\ block[i].val = c[i].text
  BY DEF Indent, Line
<1> HIDE DEF block
<1>3. solid = {i \in DOMAIN block : block[i].val # ""}
  BY <1>2
<1>4. CASE Plain(c) /\ \A i \in DOMAIN c : c[i].text = ""
  <2>1. solid = {} /\ \A i \in DOMAIN c : c[i].text = ""
    BY <1>4
  <2>2. \A i \in DOMAIN c : c[i].indent = 0
    BY <1>4 DEF Plain
  <2>3. Less(0, c) = c
    <3>1. ASSUME NEW i \in DOMAIN c PROVE Less(0, c)[i] = c[i]
      <4>1. ~(0 > 0)
        OBVIOUS
      <4>2. ~(c[i].indent > 0)
        BY <2>2, <4>1
      <4> QED BY <1>1, <2>2, <4>2 DEF Less
    <3>2. Less(0, c) = [i \in DOMAIN c |-> Less(0, c)[i]]
      BY DEF Less
    <3> QED BY <1>1, <3>1, <3>2
  <2>4. Trim(c) = <<>>
    <3>0. ~(0 > 0)
      OBVIOUS
    <3>1. ASSUME NEW i \in DOMAIN c PROVE ~(c[i].text # "" \/ c[i].indent > 0)
      <4>1. c[i].text = "" /\ c[i].indent = 0
        BY <2>1, <2>2
      <4> QED BY <3>0, <4>1
    <3>2. {i \in DOMAIN c : c[i].text # "" \/ c[i].indent > 0} = {}
      BY <3>1
    <3> QED BY <3>2 DEF Trim
  <2>5. ReadContent(block) = <<>>
    BY <1>3, <2>1 DEF ReadContent
  <2> QED BY <2>3, <2>4, <2>5 DEF block, SameText
<1>5. ASSUME NEW m \in DOMAIN c, Leads(c, m),
             \A j \in DOMAIN c : j < m => c[j].indent <= c[m].indent,
             \A j \in DOMAIN c : c[j].text # "" => c[m].indent <= c[j].indent
      PROVE  SameText(ReadContent(block), c)
  <2>0. DOMAIN c \subseteq Nat
    <3>1. 1..Len(c) \subseteq Nat
      BY <1>1
    <3> QED BY <1>1, <3>1
  <2>1. m \in solid /\ \A i \in solid : m <= i
    <3>1. \A x, y \in Nat : ~(x < y) => y <= x
      OBVIOUS
    <3>2. m \in solid /\ \A i \in solid : ~(i < m)
      BY <1>5 DEF Leads
    <3> QED BY <2>0, <3>1, <3>2
  <2>2. Min(solid) = m
    <3>1. solid \subseteq Nat
      BY <2>0
    <3> HIDE DEF solid
    <3> QED BY <2>1, <3>1, FirstIsMin
  <2> DEFINE d == c[m].indent
             depth == block[m].indent
             deeper(k) == IF k > depth THEN k - depth ELSE 0
             read == [i \in DOMAIN block |->
                        [indent |-> deeper(block[i].indent), text |-> block[i].val]]
  <2>3. depth = n + d /\ d \in Nat
    BY <1>1, <1>2
  <2>4. ASSUME NEW i \in solid PROVE ~(block[i].indent < depth)
    <3>1. d <= c[i].indent /\ c[i].indent \in Nat /\ block[i].indent = n + c[i].indent
      BY <1>1, <1>2, <1>5, <2>4
    <3> HIDE DEF d, depth
    <3> QED BY <2>3, <3>1, NoDeeper
  <2>5. ASSUME NEW i \in DOMAIN block, i < m PROVE ~(block[i].indent > depth)
    <3>1. c[i].indent <= d /\ c[i].indent \in Nat /\ block[i].indent = n + c[i].indent
      BY <1>1, <1>2, <1>5, <2>5
    <3> HIDE DEF d, depth
    <3> QED BY <2>3, <3>1
  <2>6. ReadContent(block) = Trim(read)
    <3>1. ~(\/ \E i \in solid : block[i].indent < depth
            \/ \E i \in DOMAIN block : i < m /\ block[i].indent > depth)
      BY <2>4, <2>5
    <3>2. solid # {}
      BY <2>1
    <3> QED BY <1>3, <2>2, <3>1, <3>2 DEF ReadContent
  <2>7. read = Less(d, c)
    <3>1. ASSUME NEW i \in DOMAIN c PROVE read[i] = Less(d, c)[i]
      <4>1. deeper(n + c[i].indent) = IF c[i].indent > d THEN c[i].indent - d ELSE 0
        <5>1. PICK k \in Nat : k = c[i].indent
          BY <1>1
        <5>2. deeper(n + k) = IF k > d THEN k - d ELSE 0
          <6> HIDE DEF d, depth
          <6> QED BY <2>3
        <5> QED BY <5>1, <5>2
      <4>2. read[i] = [indent |-> deeper(n + c[i].indent), text |-> c[i].text]
        <5> HIDE DEF deeper
        <5> QED BY <1>2
      <4> HIDE DEF deeper, read, d
      <4> QED BY <4>1, <4>2 DEF Less
    <3>2. read = [i \in DOMAIN c |-> read[i]]
      BY <1>2
    <3>3. Less(d, c) = [i \in DOMAIN c |-> Less(d, c)[i]]
      BY DEF Less
    <3> HIDE DEF read, d
    <3> QED BY <3>1, <3>2, <3>3
  <2>8. Plain(c) => d = 0
    BY <1>5 DEF Plain, Leads
  <2> HIDE DEF read
  <2> QED BY <2>6, <2>7, <2>8 DEF SameText
<1> QED BY <1>4, <1>5 DEF IsBlock, block

\* The lines of the document.
Text == Value \cup {"", "|", "true", CritUp}

\* What a line of the document says first: a key of the template, or the mark of a list.
Key ==
  {"write_files", "- path", "encoding", "owner", "permissions", "content", "text", "runcmd", "-",
   "ntp", "enabled", "servers", "users", "- name", "passwd", "gecos", "groups", "homedir",
   "inactive", "lock_passwd", "shell", "primary_group", "sudo", "ssh_authorized_keys"}

DocLine == [indent : Nat, key : Key, val : Text]

\* The keys of some lines, and that none is of the top level.
Keys(s) == {s[i].key : i \in DOMAIN s}

NoTop(s) == \A i \in DOMAIN s : ~Top(s[i])

\* The first line has the key, and no other.
Opens(s, key) ==
  s # <<>> /\ s[1].key = key /\ \A j \in 1..Len(s) : j # 1 => s[j].key # key

\* What the lines of a and then those of b say.
Follows(a, b) ==
  /\ a \o b \in Seq(DocLine)
  /\ Keys(a \o b) = Keys(a) \cup Keys(b)
  /\ NoTop(a) /\ NoTop(b) => NoTop(a \o b)
  /\ \A key : Opens(a, key) /\ key \notin Keys(b) => Opens(a \o b, key)
  /\ \A key : key \notin Keys(a) => ValueOf(a \o b, key) = ValueOf(b, key)
  /\ \A key : key \notin Keys(b) => ValueOf(a \o b, key) = ValueOf(a, key)

LEMMA ConcatLines ==
  ASSUME NEW a \in Seq(DocLine), NEW b \in Seq(DocLine)
  PROVE  Follows(a, b)
<1> DEFINE d == a \o b
<1>1. PICK m \in Nat, n \in Nat : m = Len(a) /\ n = Len(b)
  OBVIOUS
<1>2. /\ d \in Seq(DocLine) /\ Len(d) = m + n /\ DOMAIN d = 1..(m + n)
      /\ DOMAIN a = 1..m /\ DOMAIN b = 1..n
      /\ \A k \in 1..m : d[k] = a[k]
      /\ \A k \in 1..n : d[m + k] = b[k]
  BY <1>1, Concat
<1>3. \A key : Keyed(b, key) = {} <=> key \notin Keys(b)
  BY DEF Keyed, Keys
<1>4. /\ \A key : key \notin Keys(a) => ValueOf(d, key) = ValueOf(b, key)
      /\ \A key : key \notin Keys(b) => ValueOf(d, key) = ValueOf(a, key)
  <2>1. \A key : ValueOf(d, key) = IF Keyed(b, key) # {} THEN ValueOf(b, key) ELSE ValueOf(a, key)
    BY ValueOfConcat
  <2>2. \A s, key : key \notin Keys(s) => Keyed(s, key) = {} /\ ValueOf(s, key) = None
    BY DEF Keyed, Keys, ValueOf
  <2> HIDE DEF d
  <2> QED BY <1>3, <2>1, <2>2
<1> HIDE DEF d
<1>5. ASSUME NEW p \in 1..(m + n)
      PROVE  (p \in 1..m /\ d[p] = a[p]) \/ (\E q \in 1..n : p = m + q /\ d[p] = b[q])
  <2>1. CASE p \in 1..m
    BY <1>2, <2>1
  <2>2. CASE p \notin 1..m
    <3>1. p - m \in 1..n /\ p = m + (p - m)
      BY <2>2
    <3> QED BY <1>2, <3>1
  <2> QED BY <2>1, <2>2
<1>6. (\A k \in 1..m : k \in 1..(m + n)) /\ \A k \in 1..n : m + k \in 1..(m + n)
  OBVIOUS
<1>7. Keys(d) = Keys(a) \cup Keys(b)
  <2>1. Keys(d) \subseteq Keys(a) \cup Keys(b)
    <3>1. ASSUME NEW p \in 1..(m + n) PROVE d[p].key \in Keys(a) \cup Keys(b)
      <4>1. CASE p \in 1..m /\ d[p] = a[p]
        BY <1>2, <4>1 DEF Keys
      <4>2. CASE \E q \in 1..n : d[p] = b[q]
        BY <1>2, <4>2 DEF Keys
      <4> QED BY <1>5, <4>1, <4>2
    <3> QED BY <1>2, <3>1 DEF Keys
  <2>2. Keys(a) \subseteq Keys(d)
    <3>1. ASSUME NEW k \in 1..m PROVE a[k].key \in Keys(d)
      <4>1. k \in DOMAIN d /\ d[k] = a[k]
        BY <1>2, <1>6
      <4> QED BY <4>1 DEF Keys
    <3> QED BY <1>2, <3>1 DEF Keys
  <2>3. Keys(b) \subseteq Keys(d)
    <3>1. ASSUME NEW k \in 1..n PROVE b[k].key \in Keys(d)
      <4>1. m + k \in DOMAIN d /\ d[m + k] = b[k]
        BY <1>2, <1>6
      <4> QED BY <4>1 DEF Keys
    <3> QED BY <1>2, <3>1 DEF Keys
  <2> QED BY <2>1, <2>2, <2>3
<1>8. NoTop(a) /\ NoTop(b) => NoTop(d)
  BY <1>2, <1>5 DEF NoTop
<1>9. ASSUME NEW key, Opens(a, key), key \notin Keys(b) PROVE Opens(d, key)
  <2>1. 1 \in 1..m /\ 1 \in 1..(m + n) /\ d # <<>>
    BY <1>1, <1>2, <1>9 DEF Opens
  <2>2. ASSUME NEW p \in 1..(m + n), p # 1 PROVE d[p].key # key
    <3>1. CASE p \in 1..m /\ d[p] = a[p]
      BY <1>1, <1>9, <2>2, <3>1 DEF Opens
    <3>2. CASE \E q \in 1..n : d[p] = b[q]
      BY <1>2, <1>9, <3>2 DEF Keys
    <3> QED BY <1>5, <3>1, <3>2
  <2> QED BY <1>2, <1>9, <2>1, <2>2 DEF Opens
<1> QED BY <1>2, <1>4, <1>7, <1>8, <1>9 DEF d, Follows

\* One line.
Single(n, k, v) ==
  LET s == <<Line(n, k, v)>>
  IN /\ s \in Seq(DocLine) /\ Keys(s) = {k} /\ Opens(s, k)
     /\ (n # 0 \/ k \in {"- path", "text"}) => NoTop(s)
     /\ \A key : ValueOf(s, key) = IF key = k THEN v ELSE None

LEMMA OneLine ==
  ASSUME NEW n \in Nat, NEW k \in Key, NEW v \in Text
  PROVE  Single(n, k, v)
<1> DEFINE s == <<Line(n, k, v)>>
<1>1. /\ s \in Seq(DocLine) /\ Len(s) = 1 /\ DOMAIN s = {1} /\ s # <<>>
      /\ s[1].key = k /\ s[1].val = v /\ s[1].indent = n
  BY DEF DocLine, Line
<1> HIDE DEF s
<1>2. Keys(s) = {k}
  BY <1>1 DEF Keys
<1>3. Opens(s, k)
  BY <1>1 DEF Opens
<1>4. n # 0 \/ k \in {"- path", "text"} => NoTop(s)
  BY <1>1 DEF NoTop, Top
<1>5. ASSUME NEW key PROVE ValueOf(s, key) = IF key = k THEN v ELSE None
  <2>1. CASE key = k
    <3>1. Keyed(s, key) = {1}
      BY <1>1, <2>1 DEF Keyed
    <3>2. Max({1}) = 1
      BY LastIsMax
    <3> QED BY <1>1, <2>1, <3>1, <3>2 DEF ValueOf
  <2>2. CASE key # k
    BY <1>1, <2>2 DEF ValueOf, Keyed
  <2> QED BY <2>1, <2>2
<1> QED BY <1>1, <1>2, <1>3, <1>4, <1>5 DEF s, Single

LEMMA NoLines ==
  /\ <<>> \in Seq(DocLine) /\ Keys(<<>>) = {} /\ NoTop(<<>>)
  /\ \A key : ValueOf(<<>>, key) = None
BY DEF Keys, NoTop, ValueOf, Keyed

\* An optional line, and a flag.
LEMMA OptionalLine ==
  ASSUME NEW n \in Nat, n # 0, NEW k \in Key, NEW v \in Text
  PROVE  /\ Optional(n, k, v) \in Seq(DocLine) /\ Keys(Optional(n, k, v)) \subseteq {k}
         /\ NoTop(Optional(n, k, v))
         /\ \A key : ValueOf(Optional(n, k, v), key) = IF key = k THEN v ELSE None
<1>1. CASE v = None
  <2>1. Optional(n, k, v) = <<>>
    BY <1>1 DEF Optional
  <2> QED BY <1>1, <2>1, NoLines
<1>2. CASE v # None
  <2>1. Optional(n, k, v) = <<Line(n, k, v)>>
    BY <1>2 DEF Optional
  <2>2. Single(n, k, v)
    BY OneLine
  <2> QED BY <2>1, <2>2 DEF Single
<1> QED BY <1>1, <1>2

LEMMA FlagLine ==
  ASSUME NEW n \in Nat, n # 0, NEW k \in Key, NEW v
  PROVE  /\ Flag(n, k, v) \in Seq(DocLine) /\ Keys(Flag(n, k, v)) \subseteq {k}
         /\ NoTop(Flag(n, k, v))
         /\ \A key : ValueOf(Flag(n, k, v), key) = IF key = k /\ v # None THEN "true" ELSE None
<1>1. CASE v = None
  <2>1. Flag(n, k, v) = <<>>
    BY <1>1 DEF Flag
  <2> QED BY <1>1, <2>1, NoLines
<1>2. CASE v # None
  <2>1. Flag(n, k, v) = <<Line(n, k, "true")>> /\ "true" \in Text
    BY <1>2 DEF Flag, Text
  <2>2. Single(n, k, "true")
    <3>1. PICK w \in Text : w = "true"
      BY <2>1
    <3>2. Single(n, k, w)
      BY OneLine
    <3> QED BY <3>1, <3>2
  <2> QED BY <1>2, <2>1, <2>2 DEF Single
<1> QED BY <1>1, <1>2

\* Lines with one key.
LEMMA LinesOfKey ==
  ASSUME NEW n \in Nat, n # 0, NEW k \in Key, NEW vals \in Seq(Text)
  PROVE  /\ Lines(n, k, vals) \in Seq(DocLine) /\ Len(Lines(n, k, vals)) = Len(vals)
         /\ \A i \in 1..Len(vals) : Lines(n, k, vals)[i].key = k /\ Lines(n, k, vals)[i].val = vals[i]
         /\ Keys(Lines(n, k, vals)) \subseteq {k} /\ NoTop(Lines(n, k, vals))
<1> DEFINE s == Lines(n, k, vals)
<1>1. PICK l \in Nat : l = Len(vals) /\ DOMAIN vals = 1..l /\ \A i \in 1..l : vals[i] \in Text
  OBVIOUS
<1>2. /\ s \in [1..l -> DocLine]
      /\ \A i \in 1..l : s[i].key = k /\ s[i].val = vals[i] /\ s[i].indent = n
  BY <1>1 DEF Lines, Line, DocLine
<1> HIDE DEF s
<1>3. s \in Seq(DocLine) /\ Len(s) = l /\ DOMAIN s = 1..l
  BY <1>2
<1>4. Keys(s) \subseteq {k} /\ NoTop(s)
  BY <1>2, <1>3 DEF Keys, NoTop, Top
<1> QED BY <1>1, <1>2, <1>3, <1>4 DEF s

\* Lines with one key, nothing of the top level, that say v.
Has(s, k, v) ==
  /\ s \in Seq(DocLine) /\ NoTop(s) /\ Keys(s) \subseteq {k}
  /\ \A key : ValueOf(s, key) = IF key = k THEN v ELSE None

Set(flag) == IF flag = None THEN None ELSE "true"

\* The attributes of a file and of a user.
LEMMA Attribute ==
  \A k \in Key, v \in Text : /\ Has(<<Line(4, k, v)>>, k, v) /\ Has(Optional(4, k, v), k, v)
                                /\ Has(Flag(4, k, v), k, Set(v))
<1> SUFFICES ASSUME NEW k \in Key, NEW v \in Text
             PROVE  /\ Has(<<Line(4, k, v)>>, k, v) /\ Has(Optional(4, k, v), k, v)
                    /\ Has(Flag(4, k, v), k, Set(v))
  OBVIOUS
<1>1. PICK n \in Nat : n = 4 /\ n # 0
  OBVIOUS
<1>2. Has(Optional(n, k, v), k, v) /\ Has(Flag(n, k, v), k, Set(v))
  BY <1>1, OptionalLine, FlagLine DEF Has, Set
<1>3. Has(<<Line(n, k, v)>>, k, v)
  <2>1. Single(n, k, v)
    BY OneLine
  <2> QED BY <1>1, <2>1 DEF Has, Single
<1> QED BY <1>1, <1>2, <1>3

\* Lines that begin with the key o, have keys of K and say of each what h says.
Reads(s, o, K, h) ==
  /\ s \in Seq(DocLine) /\ NoTop(s) /\ Opens(s, o) /\ o \in K /\ Keys(s) \subseteq K
  /\ \A k \in K : ValueOf(s, k) = h[k]

\* One key more.
LEMMA OneMore ==
  ASSUME NEW s, NEW o, NEW K, NEW h, Reads(s, o, K, h), NEW t, NEW k, k \notin K, Has(t, k, h[k])
  PROVE  Reads(s \o t, o, K \cup {k}, h)
<1>1. /\ s \in Seq(DocLine) /\ t \in Seq(DocLine) /\ NoTop(s) /\ NoTop(t) /\ Opens(s, o)
      /\ o \in K /\ o \notin Keys(t) /\ Keys(s) \subseteq K /\ Keys(t) \subseteq {k}
      /\ ValueOf(t, k) = h[k] /\ \A key \in K : ValueOf(s, key) = h[key]
  BY DEF Reads, Has
<1>2. /\ s \o t \in Seq(DocLine) /\ Keys(s \o t) = Keys(s) \cup Keys(t)
      /\ NoTop(s \o t) /\ Opens(s \o t, o)
      /\ \A key : key \notin Keys(s) => ValueOf(s \o t, key) = ValueOf(t, key)
      /\ \A key : key \notin Keys(t) => ValueOf(s \o t, key) = ValueOf(s, key)
  BY <1>1, ConcatLines DEF Follows
<1>3. ValueOf(s \o t, k) = h[k]
  BY <1>1, <1>2
<1>4. \A key \in K : ValueOf(s \o t, key) = h[key]
  BY <1>1, <1>2
<1> QED BY <1>1, <1>2, <1>3, <1>4 DEF Reads

\* Lines of a content.
LEMMA IndentedLines ==
  ASSUME NEW n \in Nat, NEW c \in Contents
  PROVE  /\ Indent(n, c) \in Seq(DocLine) /\ NoTop(Indent(n, c)) /\ Keys(Indent(n, c)) \subseteq {"text"}
         /\ \A i \in 1..Len(Indent(n, c)) : Indent(n, c)[i].key = "text"
<1> DEFINE s == Indent(n, c)
<1>1. PICK l \in Nat : /\ l = Len(c) /\ DOMAIN c = 1..l
                       /\ \A i \in 1..l : c[i].indent \in Nat /\ c[i].text \in Text
  <2>1. PICK R : R = [indent : Nat, text : Value]
    OBVIOUS
  <2>2. c \in Seq(R)
    BY <2>1 DEF Contents
  <2>3. \A r \in R : r.indent \in Nat /\ r.text \in Text
    BY <2>1 DEF Text
  <2> QED BY <2>2, <2>3
<1>2. s = [i \in 1..l |-> Line(n + c[i].indent, "text", c[i].text)]
  BY <1>1 DEF Indent
<1>3. ASSUME NEW i \in 1..l PROVE s[i] \in DocLine /\ s[i].key = "text"
  <2>1. PICK a \in Nat : a = n + c[i].indent
    BY <1>1
  <2>2. PICK t \in Text : t = c[i].text
    BY <1>1
  <2>3. s[i] = Line(a, "text", t)
    BY <1>2, <2>1, <2>2
  <2>4. PICK k \in Key : k = "text"
    BY DEF Key
  <2>5. Line(a, k, t) \in DocLine /\ Line(a, k, t).key = k
    BY DEF Line, DocLine
  <2> QED BY <2>3, <2>4, <2>5
<1> HIDE DEF s
<1>4. s \in Seq(DocLine) /\ Len(s) = l /\ DOMAIN s = 1..l
  BY <1>2, <1>3
<1>5. Keys(s) \subseteq {"text"} /\ NoTop(s)
  BY <1>3, <1>4 DEF Keys, NoTop, Top
<1> QED BY <1>3, <1>4, <1>5 DEF s

\* A file is read from its lines as it was written, its content but for the empty
\* lines at the end (cloudinit.go, the template of the document).
LEMMA FileReadsBack ==
  ASSUME NEW f \in File
  PROVE  /\ FileLines(f) \in Seq(DocLine) /\ NoTop(FileLines(f)) /\ Opens(FileLines(f), "- path")
         /\ IsBlock(f.content) => SameFile(ReadFile(FileLines(f)), f)
<1> DEFINE h == [k \in Key |->
                   CASE k = "- path" -> f.path [] k = "encoding" -> f.encoding
                     [] k = "owner" -> f.owner [] k = "permissions" -> f.permissions
                     [] OTHER -> "|"]
<1>1. /\ f.path \in Text /\ f.encoding \in Text /\ f.owner \in Text /\ f.permissions \in Text
      /\ f.content \in Contents /\ "|" \in Text
      /\ f = [path |-> f.path, owner |-> f.owner, permissions |-> f.permissions,
              encoding |-> f.encoding, content |-> f.content]
  BY DEF File, Text
<1>2. /\ h["- path"] = f.path /\ h["encoding"] = f.encoding /\ h["owner"] = f.owner
      /\ h["permissions"] = f.permissions /\ h["content"] = "|"
  <2>1. {"- path", "encoding", "owner", "permissions", "content"} \subseteq Key
    BY DEF Key
  <2> QED BY <2>1
<1> HIDE DEF h
<1>3. PICK a : a = <<Line(0, "- path", f.path)>> /\ Reads(a, "- path", {"- path"}, h)
  <2>0. PICK n \in Nat : n = 0
    OBVIOUS
  <2>1. PICK v \in Text, k \in Key : v = f.path /\ k = "- path" /\ k \in {"- path", "text"}
    BY <1>1 DEF Key
  <2>2. Single(n, k, v)
    BY OneLine
  <2>3. Reads(<<Line(n, k, v)>>, "- path", {"- path"}, h)
    BY <1>2, <2>1, <2>2 DEF Reads, Single
  <2> QED BY <2>0, <2>1, <2>3
<1>4. PICK b : b = Optional(4, "encoding", f.encoding) /\ Has(b, "encoding", h["encoding"])
  <2>1. PICK v \in Text, k \in Key : v = f.encoding /\ k = "encoding"
    BY <1>1 DEF Key
  <2>2. Has(Optional(4, k, v), k, v)
    BY Attribute
  <2> QED BY <1>2, <2>1, <2>2
<1>5. PICK c : c = Optional(4, "owner", f.owner) /\ Has(c, "owner", h["owner"])
  <2>1. PICK v \in Text, k \in Key : v = f.owner /\ k = "owner"
    BY <1>1 DEF Key
  <2>2. Has(Optional(4, k, v), k, v)
    BY Attribute
  <2> QED BY <1>2, <2>1, <2>2
<1>6. PICK d : d = Optional(4, "permissions", f.permissions) /\ Has(d, "permissions", h["permissions"])
  <2>1. PICK v \in Text, k \in Key : v = f.permissions /\ k = "permissions"
    BY <1>1 DEF Key
  <2>2. Has(Optional(4, k, v), k, v)
    BY Attribute
  <2> QED BY <1>2, <2>1, <2>2
<1>7. PICK e : e = <<Line(4, "content", "|")>> /\ Has(e, "content", h["content"])
  <2>1. PICK v \in Text, k \in Key : v = "|" /\ k = "content"
    BY <1>1 DEF Key
  <2>2. Has(<<Line(4, k, v)>>, k, v)
    BY Attribute
  <2> QED BY <1>2, <2>1, <2>2
<1>8. PICK g \in Seq(DocLine) :
        /\ g = Indent(6, f.content) /\ Keys(g) \subseteq {"text"} /\ NoTop(g)
        /\ \A i \in 1..Len(g) : g[i].key = "text"
        /\ IsBlock(f.content) => SameText(ReadContent(g), f.content)
  <2>1. PICK n \in Nat : n = 6
    OBVIOUS
  <2>2. PICK u \in Contents : u = f.content
    BY <1>1
  <2> QED BY <2>1, <2>2, IndentedLines, ContentReadsBack
<1>9. PICK ab : ab = a \o b /\ Reads(ab, "- path", {"- path", "encoding"}, h)
  <2>1. Reads(a \o b, "- path", {"- path"} \cup {"encoding"}, h)
    BY <1>3, <1>4, OneMore
  <2> QED BY <2>1
<1>10. PICK ac : ac = ab \o c /\ Reads(ac, "- path", {"- path", "encoding", "owner"}, h)
  <2>1. Reads(ab \o c, "- path", {"- path", "encoding"} \cup {"owner"}, h)
    BY <1>5, <1>9, OneMore
  <2> QED BY <2>1
<1>11. PICK ad : ad = ac \o d /\ Reads(ad, "- path", {"- path", "encoding", "owner", "permissions"}, h)
  <2>1. Reads(ac \o d, "- path", {"- path", "encoding", "owner"} \cup {"permissions"}, h)
    BY <1>6, <1>10, OneMore
  <2> QED BY <2>1
<1>12. PICK ae : /\ ae = ad \o e
                 /\ Reads(ae, "- path", {"- path", "encoding", "owner", "permissions", "content"}, h)
  <2>1. Reads(ad \o e, "- path", {"- path", "encoding", "owner", "permissions"} \cup {"content"}, h)
    BY <1>7, <1>11, OneMore
  <2> QED BY <2>1
<1>13. /\ ae \in Seq(DocLine) /\ NoTop(ae) /\ Opens(ae, "- path")
       /\ Keys(ae) \subseteq {"- path", "encoding", "owner", "permissions", "content"}
       /\ ValueOf(ae, "- path") = f.path /\ ValueOf(ae, "encoding") = f.encoding
       /\ ValueOf(ae, "owner") = f.owner /\ ValueOf(ae, "permissions") = f.permissions
  BY <1>2, <1>12 DEF Reads
<1>14. FileLines(f) = ae \o g
  BY <1>3, <1>4, <1>5, <1>6, <1>7, <1>8, <1>9, <1>10, <1>11, <1>12 DEF FileLines
<1>15. /\ ae \o g \in Seq(DocLine) /\ NoTop(ae \o g) /\ Opens(ae \o g, "- path")
       /\ \A k \in {"- path", "encoding", "owner", "permissions"} : ValueOf(ae \o g, k) = ValueOf(ae, k)
  <2>1. \A k \in {"- path", "encoding", "owner", "permissions"} : k \notin Keys(g)
    BY <1>8
  <2>2. "- path" \notin Keys(g)
    BY <1>8
  <2>3. /\ ae \o g \in Seq(DocLine)
        /\ NoTop(ae) /\ NoTop(g) => NoTop(ae \o g)
        /\ \A key : Opens(ae, key) /\ key \notin Keys(g) => Opens(ae \o g, key)
        /\ \A key : key \notin Keys(g) => ValueOf(ae \o g, key) = ValueOf(ae, key)
    <3>1. ae \in Seq(DocLine)
      BY <1>13
    <3> QED BY ONLY <3>1, g \in Seq(DocLine), ConcatLines DEF Follows
  <2> QED BY <1>8, <1>13, <2>1, <2>2, <2>3
<1>16. Select(ae \o g, "text") = g
  <2>1. PICK k : k = "text"
    OBVIOUS
  <2>2. k \notin Keys(ae)
    BY <1>13, <2>1
  <2>3. DOMAIN ae = 1..Len(ae)
    <3>1. ae \in Seq(DocLine)
      BY <1>13
    <3> QED BY ONLY <3>1
  <2>4. \A i \in 1..Len(ae) : ae[i].key # k
    BY <2>2, <2>3 DEF Keys
  <2>5. \A i \in 1..Len(g) : g[i].key = k
    BY <1>8, <2>1
  <2>6. Select(ae \o g, k) = g
    <3>1. ae \in Seq(DocLine)
      BY <1>13
    <3> QED BY ONLY <3>1, g \in Seq(DocLine), <2>4, <2>5, SelectTail
  <2> QED BY <2>1, <2>6
<1>17. ASSUME IsBlock(f.content) PROVE SameFile(ReadFile(ae \o g), f)
  <2>1. PICK r : r = ReadContent(g) /\ SameText(r, f.content)
    BY <1>8, <1>17
  <2>2. ReadFile(ae \o g) = [path |-> f.path, owner |-> f.owner, permissions |-> f.permissions,
                             encoding |-> f.encoding, content |-> r]
    BY <1>13, <1>15, <1>16, <2>1 DEF ReadFile
  <2>3. ReadFile(ae \o g) = [f EXCEPT !.content = r] /\ ReadFile(ae \o g).content = r
    BY <1>1, <2>2
  <2> QED BY <2>1, <2>3 DEF SameFile
<1> QED BY <1>14, <1>15, <1>17

--------------------------------------------------------------------------------
(* A user.                                                                   *)

Associates(a, b, c) == (a \o b) \o c = a \o (b \o c)

\* Three parts, in either grouping.
LEMMA Regroup ==
  ASSUME NEW a \in Seq(DocLine), NEW b \in Seq(DocLine), NEW c \in Seq(DocLine)
  PROVE  Associates(a, b, c)
BY ConcatAssociative DEF Associates

\* Parts that have no other keys, and nothing of the top level.
LEMMA FlattenLines ==
  ASSUME NEW s \in Seq(Seq(DocLine))
  PROVE  /\ FlattenSeq(s) \in Seq(DocLine)
         /\ \A K : (\A i \in 1..Len(s) : Keys(s[i]) \subseteq K) => Keys(FlattenSeq(s)) \subseteq K
         /\ (\A i \in 1..Len(s) : NoTop(s[i])) => NoTop(FlattenSeq(s))
<1>1. PICK d, off : d \in Seq(DocLine) /\ d = FlattenSeq(s) /\ Joins(d, s, off) /\ off[0] = 0
  BY FlattenJoins
<1>2. \A p \in 1..Len(d) : p > off[0] => \E i \in 1..Len(s) : \E j \in 1..Len(s[i]) : p = off[i - 1] + j
  BY ONLY s \in Seq(Seq(DocLine)), <1>1, Offsets, SMTT(20)
<1>3. DOMAIN d = 1..Len(d) /\ \A i \in 1..Len(s) : DOMAIN s[i] = 1..Len(s[i])
  OBVIOUS
<1>4. ASSUME NEW p \in DOMAIN d PROVE \E i \in 1..Len(s) : \E j \in DOMAIN s[i] : d[p] = s[i][j]
  <2>1. p \in 1..Len(d) /\ p > 0
    BY <1>3
  <2>2. PICK i \in 1..Len(s) : \E j \in 1..Len(s[i]) : p = off[i - 1] + j
    BY <1>1, <1>2, <2>1
  <2>3. PICK j \in 1..Len(s[i]) : p = off[i - 1] + j
    BY <2>2
  <2>4. d[p] = s[i][j]
    BY <1>1, <2>3 DEF Joins
  <2> QED BY <1>3, <2>4
<1>5. ASSUME NEW K, \A i \in 1..Len(s) : Keys(s[i]) \subseteq K PROVE Keys(d) \subseteq K
  <2>1. ASSUME NEW p \in DOMAIN d PROVE d[p].key \in K
    <3>1. PICK i \in 1..Len(s) : \E j \in DOMAIN s[i] : d[p] = s[i][j]
      BY <1>4
    <3>2. d[p].key \in Keys(s[i])
      BY <3>1 DEF Keys
    <3> QED BY <1>5, <3>2
  <2> QED BY <2>1 DEF Keys
<1>6. ASSUME \A i \in 1..Len(s) : NoTop(s[i]) PROVE NoTop(d)
  BY <1>4, <1>6 DEF NoTop
<1> QED BY <1>1, <1>5, <1>6

\* The attributes differ from each other and from the keys of the lists.
LEMMA AttributesAre ==
  /\ DOMAIN Attributes = 1..9 /\ Len(Attributes) = 9
  /\ \A i, j \in 1..9 : Attributes[i] = Attributes[j] => i = j
  /\ \A i \in 1..9 : Attributes[i] \in Key \cap (UserFields \ {"name", "keys"})
  /\ \A a \in UserFields \ {"name", "keys"} : \E i \in 1..9 : a = Attributes[i]
  /\ "- name" \notin UserFields /\ "-" \notin UserFields /\ "ssh_authorized_keys" \notin UserFields
  /\ {"name", "keys", "inactive"} \subseteq UserFields
<1>1. DOMAIN Attributes = 1..9 /\ Len(Attributes) = 9
  BY DEF Attributes
<1>2. \A i \in 1..9 : i = 1 \/ i = 2 \/ i = 3 \/ i = 4 \/ i = 5 \/ i = 6 \/ i = 7 \/ i = 8 \/ i = 9
  OBVIOUS
<1>3. /\ Attributes[1] = "passwd" /\ Attributes[2] = "gecos" /\ Attributes[3] = "groups"
      /\ Attributes[4] = "homedir" /\ Attributes[5] = "inactive" /\ Attributes[6] = "lock_passwd"
      /\ Attributes[7] = "shell" /\ Attributes[8] = "primary_group" /\ Attributes[9] = "sudo"
  BY DEF Attributes
<1>4. \A i, j \in 1..9 : Attributes[i] = Attributes[j] => i = j
  BY <1>2, <1>3
<1>5. UserFields = {"passwd", "gecos", "groups", "homedir", "inactive", "lock_passwd", "shell",
                    "primary_group", "sudo", "name", "keys"}
  BY <1>1, <1>2, <1>3 DEF UserFields, ToSet
<1>6. \A i \in 1..9 : Attributes[i] \in Key
  BY <1>2, <1>3 DEF Key
<1>7. \A i \in 1..9 : Attributes[i] \in UserFields /\ Attributes[i] \notin {"name", "keys"}
  BY <1>2, <1>3, <1>5
<1>8. \A a \in UserFields \ {"name", "keys"} : \E i \in 1..9 : a = Attributes[i]
  BY <1>3, <1>5
<1>9. "- name" \notin UserFields /\ "-" \notin UserFields /\ "ssh_authorized_keys" \notin UserFields
  BY <1>5
<1>10. {"name", "keys", "inactive"} \subseteq UserFields
  BY <1>5
<1> QED BY <1>1, <1>4, <1>6, <1>7, <1>8, <1>9, <1>10

\* A list is read as it was given, when nothing before it looks like one.
LEMMA ListReadsBack ==
  ASSUME NEW x \in Seq(DocLine), "-" \notin Keys(x)
  PROVE  /\ ValuesOf(x, "-") = <<>>
         /\ \A n \in Nat \ {0}, vals \in Seq(Text) : ValuesOf(x \o Lines(n, "-", vals), "-") = vals
<1>1. PICK k \in Key : k = "-"
  BY DEF Key
<1>2. DOMAIN x = 1..Len(x)
  OBVIOUS
<1>3. \A i \in 1..Len(x) : x[i].key # k
  BY <1>1, <1>2 DEF Keys
<1>4. Select(x, k) = <<>>
  <2>1. PICK e \in Seq(DocLine) : e = <<>> /\ Len(e) = 0
    <3>1. <<>> \in Seq(DocLine) /\ Len(<<>>) = 0
      OBVIOUS
    <3> QED BY <3>1
  <2>2. Select(x \o e, k) = e
    <3>1. ASSUME NEW i \in 1..Len(e) PROVE FALSE
      BY ONLY <2>1, <3>1
    <3>2. \A i \in 1..Len(e) : e[i].key = k
      BY <3>1
    <3> QED BY ONLY x \in Seq(DocLine), e \in Seq(DocLine), <1>3, <3>2, SelectTail
  <2>3. x \o e = x
    BY <2>1
  <2> QED BY <2>1, <2>2, <2>3
<1>5. ASSUME NEW n \in Nat \ {0}, NEW vals \in Seq(Text)
      PROVE  ValuesOf(x \o Lines(n, k, vals), k) = vals
  <2>1. n \in Nat /\ n # 0
    OBVIOUS
  <2>2. PICK t \in Seq(DocLine) :
          /\ t = Lines(n, k, vals) /\ Len(t) = Len(vals)
          /\ \A i \in 1..Len(vals) : t[i].key = k /\ t[i].val = vals[i]
    BY ONLY <2>1, vals \in Seq(Text), k \in Key, LinesOfKey
  <2>3. Select(x \o t, k) = t
    <3>1. \A i \in 1..Len(t) : t[i].key = k
      BY <2>2
    <3> QED BY ONLY x \in Seq(DocLine), t \in Seq(DocLine), <1>3, <3>1, SelectTail
  <2>4. ValuesOf(x \o t, k) = [i \in DOMAIN t |-> t[i].val]
    BY <2>3 DEF ValuesOf
  <2>5. DOMAIN t = DOMAIN vals /\ DOMAIN vals = 1..Len(vals) /\ vals = [i \in DOMAIN vals |-> vals[i]]
    BY <2>2
  <2> QED BY <2>2, <2>4, <2>5
<1> QED BY <1>1, <1>4, <1>5 DEF ValuesOf

\* A user is read from its lines with each of its own attributes, and its keys
\* (cloudinit.go, the template of the document).
LEMMA UserReadsBack ==
  ASSUME NEW u, IsUser(u)
  PROVE  /\ UserLines(u) \in Seq(DocLine) /\ NoTop(UserLines(u)) /\ Opens(UserLines(u), "- name")
         /\ [a \in UserFields |->
               CASE a = "name" -> ValueOf(UserLines(u), "- name")
                 [] a = "keys" -> ValuesOf(UserLines(u), "-")
                 [] OTHER -> ValueOf(UserLines(u), a)] = [u EXCEPT !.inactive = Set(@)]
<1> DEFINE w == [u EXCEPT !.inactive = Set(@)]
           parts == [i \in DOMAIN Attributes |->
                       LET a == Attributes[i]
                       IN IF a = "inactive" THEN Flag(4, a, u[a]) ELSE Optional(4, a, u[a])]
<1>1. /\ u = [a \in UserFields |-> u[a]] /\ u["keys"] \in Seq(Text) /\ u["name"] \in Text
      /\ \A i \in 1..9 : u[Attributes[i]] \in Text
  <2>1. u.keys \in Seq(Value) /\ \A a \in UserFields \ {"keys"} : u[a] \in Value
    BY DEF IsUser
  <2>2. Value \subseteq Text
    BY DEF Text
  <2>3. u.keys \in Seq(Text)
    BY <2>1, <2>2
  <2>4. u = [a \in UserFields |-> u[a]]
    BY DEF IsUser
  <2>5. "name" \in UserFields \ {"keys"} /\ \A i \in 1..9 : Attributes[i] \in UserFields \ {"keys"}
    BY AttributesAre
  <2> QED BY <2>1, <2>2, <2>3, <2>4, <2>5
<1>2. \A a \in UserFields : w[a] = IF a = "inactive" THEN Set(u[a]) ELSE u[a]
  BY <1>1
<1>3. w = [a \in UserFields |-> w[a]]
  BY <1>1
<1> HIDE DEF w
<1>4. ASSUME NEW i \in 1..9 PROVE Has(parts[i], Attributes[i], w[Attributes[i]])
  <2>1. PICK a \in Key : a = Attributes[i] /\ a \in UserFields
    BY AttributesAre
  <2>2. PICK v \in Text : v = u[a]
    BY <1>1, <2>1
  <2>3. parts[i] = IF a = "inactive" THEN Flag(4, a, v) ELSE Optional(4, a, v)
    BY <2>1, <2>2, AttributesAre
  <2>4. Has(Flag(4, a, v), a, Set(v)) /\ Has(Optional(4, a, v), a, v)
    BY Attribute
  <2> QED BY <1>2, <2>1, <2>2, <2>3, <2>4
<1>5. parts \in Seq(Seq(DocLine)) /\ Len(parts) = 9
  <2>1. DOMAIN parts = 1..9
    BY AttributesAre
  <2>2. parts = [i \in 1..9 |-> parts[i]]
    BY <2>1
  <2> HIDE DEF parts
  <2>3. \A i \in 1..9 : parts[i] \in Seq(DocLine)
    BY <1>4 DEF Has
  <2> QED BY <2>2, <2>3
<1>6. UserLines(u) = (<<Line(2, "- name", u.name)>> \o FlattenSeq(parts))
                     \o IF u.keys = <<>> THEN <<>>
                        ELSE <<Line(4, "ssh_authorized_keys", "")>> \o Lines(6, "-", u.keys)
  BY DEF UserLines
<1> HIDE DEF parts
<1>7. PICK p \in Seq(Seq(DocLine)) : p = parts /\ Len(p) = 9
  BY <1>5
<1>8. PICK F, off : F \in Seq(DocLine) /\ F = FlattenSeq(p) /\ Joins(F, p, off) /\ off[0] = 0
  BY ONLY p \in Seq(Seq(DocLine)), FlattenJoins
<1>9. \A i \in 1..Len(p) : NoTop(p[i]) /\ Keys(p[i]) \subseteq {Attributes[i]}
  BY <1>4, <1>7 DEF Has
<1>10. NoTop(F) /\ Keys(F) \subseteq UserFields \ {"name", "keys"}
  <2>1. \A i \in 1..Len(p) : Keys(p[i]) \subseteq UserFields \ {"name", "keys"}
    <3> SUFFICES ASSUME NEW i \in 1..Len(p)
                 PROVE  Keys(p[i]) \subseteq UserFields \ {"name", "keys"}
      OBVIOUS
    <3>1. i \in 1..9
      BY <1>7
    <3>2. Attributes[i] \in UserFields \ {"name", "keys"}
      BY <3>1, AttributesAre
    <3> QED BY <1>9, <3>2
  <2>2. PICK K : K = UserFields \ {"name", "keys"}
    OBVIOUS
  <2>3. \A i \in 1..Len(p) : Keys(p[i]) \subseteq K
    BY <2>1, <2>2
  <2>4. \A i \in 1..Len(p) : NoTop(p[i])
    BY <1>9
  <2>5. NoTop(FlattenSeq(p)) /\ Keys(FlattenSeq(p)) \subseteq K
    BY ONLY p \in Seq(Seq(DocLine)), <2>3, <2>4, FlattenLines
  <2> QED BY <1>8, <2>2, <2>5
<1>11. ASSUME NEW m \in 1..9 PROVE ValueOf(F, Attributes[m]) = w[Attributes[m]]
  <2>1. PICK a : a = Attributes[m]
    OBVIOUS
  <2>2. ASSUME NEW i \in 1..Len(p), i # m PROVE Keyed(p[i], a) = {}
    <3>1. Attributes[i] # a
      BY <1>7, <2>1, <2>2, AttributesAre
    <3>2. a \notin Keys(p[i])
      BY <1>9, <3>1
    <3> QED BY <3>2 DEF Keyed, Keys
  <2>3. m \in 1..Len(p)
    BY <1>7
  <2>4. ValueOf(F, a) = ValueOf(p[m], a)
    <3>1. OnlyIn(m, p, a)
      BY <2>2, <2>3 DEF OnlyIn
    <3>2. Covers(F, p)
      BY <1>8 DEF Covers
    <3> QED BY ONLY <1>8, p \in Seq(Seq(DocLine)), <3>1, <3>2, ValueOfPart
  <2>5. ValueOf(p[m], a) = w[a]
    BY <1>4, <1>7, <2>1 DEF Has
  <2> QED BY <2>1, <2>4, <2>5
<1>12. PICK A \in Seq(DocLine) :
         /\ A = <<Line(2, "- name", u.name)>> /\ Keys(A) = {"- name"} /\ Opens(A, "- name") /\ NoTop(A)
         /\ ValueOf(A, "- name") = u.name
  <2>1. PICK n \in Nat : n = 2 /\ n # 0
    OBVIOUS
  <2>2. PICK k \in Key : k = "- name"
    BY DEF Key
  <2>3. PICK v \in Text : v = u.name
    BY <1>1
  <2>4. Single(n, k, v)
    BY OneLine
  <2> QED BY <2>1, <2>2, <2>3, <2>4 DEF Single
<1>13. PICK x \in Seq(DocLine) :
         /\ x = A \o F /\ NoTop(x) /\ Opens(x, "- name") /\ Keys(x) \subseteq {"- name"} \cup UserFields
         /\ ValueOf(x, "- name") = u.name
         /\ \A i \in 1..9 : ValueOf(x, Attributes[i]) = w[Attributes[i]]
  <2>1. /\ A \o F \in Seq(DocLine)
        /\ Keys(A \o F) = Keys(A) \cup Keys(F)
        /\ NoTop(A) /\ NoTop(F) => NoTop(A \o F)
        /\ \A key : Opens(A, key) /\ key \notin Keys(F) => Opens(A \o F, key)
        /\ \A key : key \notin Keys(A) => ValueOf(A \o F, key) = ValueOf(F, key)
        /\ \A key : key \notin Keys(F) => ValueOf(A \o F, key) = ValueOf(A, key)
    BY ONLY A \in Seq(DocLine), <1>8, ConcatLines DEF Follows
  <2>2. "- name" \notin Keys(F) /\ \A i \in 1..9 : Attributes[i] \notin Keys(A)
    BY <1>10, <1>12, AttributesAre
  <2>3. \A i \in 1..9 : ValueOf(A \o F, Attributes[i]) = w[Attributes[i]]
    BY <1>11, <2>1, <2>2
  <2> QED BY <1>10, <1>12, <2>1, <2>2, <2>3
<1>14. PICK t \in Seq(DocLine) :
         /\ UserLines(u) = x \o t /\ NoTop(t) /\ Keys(t) \subseteq {"ssh_authorized_keys", "-"}
         /\ ValuesOf(x \o t, "-") = u.keys
  <2>0. "-" \notin Keys(x)
    BY <1>13, AttributesAre
  <2>1. UserLines(u) = x \o IF u.keys = <<>> THEN <<>>
                        ELSE <<Line(4, "ssh_authorized_keys", "")>> \o Lines(6, "-", u.keys)
    BY <1>6, <1>7, <1>8, <1>12, <1>13
  <2>2. CASE u.keys = <<>>
    <3>1. UserLines(u) = x \o <<>> /\ x \o <<>> = x
      BY <2>1, <2>2
    <3>2. ValuesOf(x, "-") = <<>>
      BY <2>0, ListReadsBack
    <3> QED BY <2>2, <3>1, <3>2, NoLines
  <2>3. CASE u.keys # <<>>
    <3>1. PICK n \in Nat : n = 6 /\ n # 0 /\ n \in Nat \ {0}
      OBVIOUS
    <3>2. PICK vals \in Seq(Text) : vals = u.keys
      BY <1>1
    <3>3. PICK k \in Key : k = "-"
      BY DEF Key
    <3>4. PICK l \in Seq(DocLine) : l = Lines(n, k, vals) /\ NoTop(l) /\ Keys(l) \subseteq {k}
      <4>1. n # 0
        BY <3>1
      <4> QED BY ONLY n \in Nat, <4>1, vals \in Seq(Text), k \in Key, LinesOfKey
    <3>5. PICK h \in Seq(DocLine) :
            /\ h = <<Line(4, "ssh_authorized_keys", "")>>
            /\ NoTop(h) /\ Keys(h) \subseteq {"ssh_authorized_keys"}
      <4>1. PICK v \in Text, o \in Key : v = "" /\ o = "ssh_authorized_keys"
        BY DEF Key, Text
      <4>2. Has(<<Line(4, o, v)>>, o, v)
        BY Attribute
      <4> QED BY <4>1, <4>2 DEF Has
    <3>6. /\ h \o l \in Seq(DocLine) /\ NoTop(h \o l)
          /\ Keys(h \o l) \subseteq {"ssh_authorized_keys", "-"}
      <4>1. /\ h \o l \in Seq(DocLine) /\ Keys(h \o l) = Keys(h) \cup Keys(l)
            /\ NoTop(h) /\ NoTop(l) => NoTop(h \o l)
        BY ONLY h \in Seq(DocLine), l \in Seq(DocLine), ConcatLines DEF Follows
      <4> QED BY <3>3, <3>4, <3>5, <4>1
    <3>7. UserLines(u) = x \o (h \o l)
      BY <2>1, <2>3, <3>1, <3>2, <3>3, <3>4, <3>5
    <3>8. ValuesOf(x \o (h \o l), "-") = u.keys
      <4>1. x \o (h \o l) = (x \o h) \o l
        <5>1. Associates(x, h, l)
          BY ONLY x \in Seq(DocLine), h \in Seq(DocLine), l \in Seq(DocLine), Regroup
        <5> QED BY ONLY <5>1 DEF Associates
      <4>2. PICK y \in Seq(DocLine) : y = x \o h /\ Keys(y) = Keys(x) \cup Keys(h)
        BY ONLY x \in Seq(DocLine), h \in Seq(DocLine), ConcatLines DEF Follows
      <4>3. "-" \notin Keys(y)
        BY <2>0, <3>5, <4>2
      <4>4. ValuesOf(y \o Lines(n, "-", vals), "-") = vals
        BY ONLY y \in Seq(DocLine), <3>1, vals \in Seq(Text), <4>3, ListReadsBack
      <4> QED BY <3>2, <3>3, <3>4, <4>1, <4>2, <4>4
    <3> QED BY <3>6, <3>7, <3>8
  <2> QED BY <2>2, <2>3
<1>15. PICK s \in Seq(DocLine) :
         /\ s = x \o t /\ NoTop(s) /\ Opens(s, "- name") /\ ValueOf(s, "- name") = u.name
         /\ \A i \in 1..9 : ValueOf(s, Attributes[i]) = w[Attributes[i]]
         /\ ValuesOf(s, "-") = u.keys
  <2>1. /\ x \o t \in Seq(DocLine)
        /\ NoTop(x) /\ NoTop(t) => NoTop(x \o t)
        /\ \A key : Opens(x, key) /\ key \notin Keys(t) => Opens(x \o t, key)
        /\ \A key : key \notin Keys(t) => ValueOf(x \o t, key) = ValueOf(x, key)
    <3>1. Follows(x, t)
      BY ONLY x \in Seq(DocLine), t \in Seq(DocLine), ConcatLines
    <3> QED BY ONLY <3>1 DEF Follows
  <2>2. "- name" \notin Keys(t) /\ \A i \in 1..9 : Attributes[i] \notin Keys(t)
    <3>1. /\ Keys(t) \subseteq {"ssh_authorized_keys", "-"}
          /\ \A i \in 1..9 : Attributes[i] \in UserFields
      BY <1>14, AttributesAre
    <3>2. "-" \notin UserFields /\ "ssh_authorized_keys" \notin UserFields
      BY AttributesAre
    <3>3. "- name" \notin {"ssh_authorized_keys", "-"}
      OBVIOUS
    <3> QED BY ONLY <3>1, <3>2, <3>3
  <2> QED BY <1>13, <1>14, <2>1, <2>2
<1>16. ASSUME NEW a \in UserFields
       PROVE  w[a] = CASE a = "name" -> ValueOf(s, "- name") [] a = "keys" -> ValuesOf(s, "-")
                       [] OTHER -> ValueOf(s, a)
  <2>1. CASE a = "name"
    BY <1>2, <1>15, <2>1, AttributesAre
  <2>2. CASE a = "keys"
    BY <1>2, <1>15, <2>2, AttributesAre
  <2>3. CASE a # "name" /\ a # "keys"
    <3>1. PICK i \in 1..9 : a = Attributes[i]
      BY <2>3, AttributesAre
    <3> QED BY <1>15, <2>3, <3>1
  <2> QED BY <2>1, <2>2, <2>3
<1> QED BY <1>3, <1>14, <1>15, <1>16 DEF w

--------------------------------------------------------------------------------
(* The document.                                                             *)

\* The keys of the lines of the top level.
TopKeys(s) == {s[i].key : i \in {j \in DOMAIN s : Top(s[j])}}

Begins(s) == s # <<>> => Top(s[1])

\* A section: one line of the top level, with the key, and what is under it.
Heads(s, key) ==
  /\ s # <<>> /\ Top(s[1]) /\ s[1].key = key
  /\ \A i \in 1..Len(s) : Top(s[i]) => i = 1

\* Sections that follow each other.
LEMMA ConcatSections ==
  ASSUME NEW a \in Seq(DocLine), NEW b \in Seq(DocLine)
  PROVE  /\ TopKeys(a \o b) \subseteq TopKeys(a) \cup TopKeys(b)
         /\ Begins(a) /\ Begins(b) => Begins(a \o b)
<1> DEFINE d == a \o b
<1>1. PICK m \in Nat, n \in Nat : m = Len(a) /\ n = Len(b)
  OBVIOUS
<1>2. /\ d \in Seq(DocLine) /\ Len(d) = m + n /\ DOMAIN d = 1..(m + n)
      /\ DOMAIN a = 1..m /\ DOMAIN b = 1..n
      /\ \A k \in 1..m : d[k] = a[k]
      /\ \A k \in 1..n : d[m + k] = b[k]
  BY <1>1, Concat
<1>3. m = 0 => d = b
  <2>1. <<>> \o b = b
    OBVIOUS
  <2>2. m = 0 => a = <<>>
    BY <1>1, EmptySeq
  <2> QED BY <2>1, <2>2
<1> HIDE DEF d
<1>4. ASSUME NEW p \in 1..(m + n)
      PROVE  (p \in 1..m /\ d[p] = a[p]) \/ (\E q \in 1..n : p = m + q /\ d[p] = b[q])
  <2>1. CASE p \in 1..m
    BY <1>2, <2>1
  <2>2. CASE p \notin 1..m
    <3>1. p - m \in 1..n /\ p = m + (p - m)
      BY <2>2
    <3> QED BY <1>2, <3>1
  <2> QED BY <2>1, <2>2
<1>5. ASSUME NEW p \in DOMAIN d, Top(d[p]) PROVE d[p].key \in TopKeys(a) \cup TopKeys(b)
  <2>1. CASE p \in 1..m /\ d[p] = a[p]
    BY <1>2, <1>5, <2>1 DEF TopKeys
  <2>2. CASE \E q \in 1..n : d[p] = b[q]
    BY <1>2, <1>5, <2>2 DEF TopKeys
  <2> QED BY <1>2, <1>4, <2>1, <2>2
<1>6. TopKeys(d) \subseteq TopKeys(a) \cup TopKeys(b)
  BY <1>5 DEF TopKeys
<1>7. ASSUME Begins(a), Begins(b) PROVE Begins(d)
  <2>1. CASE m = 0
    BY <1>3, <1>7, <2>1
  <2>2. CASE m # 0
    <3>1. 1 \in 1..m /\ a # <<>>
      BY <1>1, <2>2
    <3>2. d[1] = a[1]
      BY <1>2, <3>1
    <3> QED BY <1>7, <3>1, <3>2 DEF Begins
  <2> QED BY <2>1, <2>2
<1> QED BY <1>6, <1>7 DEF d

\* A section after lines without its key and before another section is read.
LEMMA SectionReads ==
  ASSUME NEW x \in Seq(DocLine), NEW t \in Seq(DocLine), NEW y \in Seq(DocLine), NEW key,
         key \notin TopKeys(x), Heads(t, key), Begins(y)
  PROVE  Section(x \o (t \o y), key) = t
<1>1. DOMAIN x = 1..Len(x)
  OBVIOUS
<1>2. \A i \in 1..Len(x) : ~(Top(x[i]) /\ x[i].key = key)
  BY <1>1 DEF TopKeys
<1>3. t # <<>> /\ Top(t[1]) /\ t[1].key = key /\ \A i \in 1..Len(t) : Top(t[i]) => i = 1
  BY DEF Heads
<1>4. y # <<>> => Top(y[1])
  BY DEF Begins
<1> QED BY ONLY x \in Seq(DocLine), t \in Seq(DocLine), y \in Seq(DocLine), <1>2, <1>3, <1>4,
           SectionIs, SMTT(20)

\* One that nothing heads is not.
LEMMA SectionIsAbsent ==
  ASSUME NEW x \in Seq(DocLine), NEW key, key \notin TopKeys(x)
  PROVE  Section(x, key) = <<>>
<1>1. DOMAIN x = 1..Len(x)
  OBVIOUS
<1>2. \A i \in 1..Len(x) : ~(Top(x[i]) /\ x[i].key = key)
  BY <1>1 DEF TopKeys
<1> QED BY ONLY x \in Seq(DocLine), <1>2, NoSection

\* A section has its own key only.
LEMMA HeadsAlone ==
  ASSUME NEW s, NEW key, s \in Seq(DocLine), Heads(s, key)
  PROVE  TopKeys(s) \subseteq {key} /\ Begins(s)
<1>1. DOMAIN s = 1..Len(s)
  OBVIOUS
<1> QED BY <1>1 DEF Heads, TopKeys, Begins

\* The line that opens a section.
Heading(key) == <<Line(0, key, "")>>

\* Below that line nothing is of the top level.
LEMMA HeadLine ==
  ASSUME NEW key \in Key, key \notin {"- path", "text"}, NEW b \in Seq(DocLine), NoTop(b)
  PROVE  /\ Heading(key) \in Seq(DocLine) /\ Keys(Heading(key)) = {key}
         /\ Heading(key) \o b \in Seq(DocLine) /\ Heads(Heading(key) \o b, key)
<1>1. PICK z \in Nat, v \in Text : z = 0 /\ v = ""
  BY DEF Text
<1>2. LET s == <<Line(z, key, v)>> IN s \in Seq(DocLine) /\ Keys(s) = {key}
  BY OneLine DEF Single
<1>3. PICK h \in Seq(DocLine) : h = Heading(key) /\ Keys(h) = {key} /\ Len(h) = 1 /\ Top(h[1]) /\ h[1].key = key
  <2>1. PICK h : h = <<Line(z, key, v)>>
    OBVIOUS
  <2>2. Len(h) = 1 /\ h[1] = Line(z, key, v)
    BY <2>1
  <2>3. Top(Line(z, key, v)) /\ Line(z, key, v).key = key
    BY <1>1 DEF Line, Top
  <2>4. h \in Seq(DocLine) /\ Keys(h) = {key}
    BY <1>2, <2>1
  <2> QED BY <1>1, <2>1, <2>2, <2>3, <2>4 DEF Heading
<1>4. PICK n \in Nat : n = Len(b) /\ DOMAIN b = 1..n
  BY ONLY b \in Seq(DocLine)
<1>5. /\ h \o b \in Seq(DocLine) /\ Len(h \o b) = Len(h) + Len(b)
      /\ \A k \in 1..Len(h) : (h \o b)[k] = h[k]
      /\ \A k \in 1..Len(b) : (h \o b)[Len(h) + k] = b[k]
  BY ONLY h \in Seq(DocLine), b \in Seq(DocLine), Concat
<1>6. PICK s \in Seq(DocLine) :
        s = h \o b /\ Len(s) = 1 + n /\ s[1] = h[1] /\ \A k \in 1..n : s[1 + k] = b[k]
  <2>1. Len(h) = 1 /\ Len(b) = n
    BY <1>3, <1>4
  <2>2. 1 \in 1..Len(h)
    BY ONLY <2>1
  <2>3. (h \o b)[1] = h[1]
    BY <1>5, <2>2
  <2>4. h \o b \in Seq(DocLine) /\ Len(h \o b) = 1 + n /\ \A k \in 1..n : (h \o b)[1 + k] = b[k]
    BY <1>5, <2>1
  <2> QED BY <2>3, <2>4
<1>7. ASSUME NEW i \in 1..Len(s), i # 1 PROVE ~Top(s[i])
  <2>1. i - 1 \in 1..n /\ 1 + (i - 1) = i
    <3>1. i \in 1..(1 + n)
      BY <1>6
    <3> QED BY ONLY n \in Nat, <1>7, <3>1
  <2>2. s[i] = b[i - 1]
    BY <1>6, <2>1
  <2> QED BY <1>4, <2>1, <2>2 DEF NoTop
<1>8. s # <<>>
  <2>1. Len(s) # 0
    BY ONLY n \in Nat, <1>6
  <2> QED BY ONLY s \in Seq(DocLine), <2>1, EmptySeq
<1>9. Heads(s, key)
  BY <1>3, <1>6, <1>7, <1>8 DEF Heads
<1> QED BY <1>3, <1>6, <1>9

\* Parts that each begin with the key, after a line that does not have it, are read
\* one by one.
LEMMA PartsOf ==
  ASSUME NEW h \in Seq(DocLine), NEW s \in Seq(Seq(DocLine)), NEW key, key \notin Keys(h),
         \A i \in 1..Len(s) : Opens(s[i], key)
  PROVE  Items(h \o FlattenSeq(s), key) = s
<1>1. PICK d, off : d \in Seq(DocLine) /\ d = FlattenSeq(s) /\ Joins(d, s, off) /\ off[0] = 0
  BY ONLY s \in Seq(Seq(DocLine)), FlattenJoins
<1>2. d \in Seq(DocLine)
  BY <1>1
<1>3. PICK o : Joins(h \o d, s, o) /\ o[0] = Len(h)
  BY ONLY h \in Seq(DocLine), s \in Seq(Seq(DocLine)), <1>1, JoinsAfter
<1>4. PICK x \in Seq(DocLine) : x = h \o d /\ \A k \in 1..Len(h) : x[k] = h[k]
  <2>1. h \o d \in Seq(DocLine) /\ \A k \in 1..Len(h) : (h \o d)[k] = h[k]
    BY ONLY h \in Seq(DocLine), <1>2, Concat
  <2> QED BY <2>1
<1>5. ASSUME NEW p \in 1..o[0] PROVE x[p].key # key
  <2>1. DOMAIN h = 1..Len(h)
    BY ONLY h \in Seq(DocLine)
  <2>2. p \in DOMAIN h /\ x[p] = h[p]
    BY <1>3, <1>4, <1>5, <2>1
  <2> QED BY <2>2 DEF Keys
<1>6. \A i \in 1..Len(s) : /\ s[i] # <<>> /\ s[i][1].key = key
                           /\ \A j \in 1..Len(s[i]) : j # 1 => s[i][j].key # key
  BY DEF Opens
<1>7. Joins(x, s, o)
  BY <1>3, <1>4
<1>8. Items(x, key) = s
  BY ONLY x \in Seq(DocLine), s \in Seq(Seq(DocLine)), <1>5, <1>6, <1>7, ItemsAreParts
<1> QED BY <1>1, <1>4, <1>8

\* The files are read from their section.
LEMMA FilesReadBack ==
  ASSUME NEW fs \in Seq(File)
  PROVE  LET s == Heading("write_files") \o Each(FileLines, fs)
             items == Items(s, "- path")
         IN /\ s \in Seq(DocLine) /\ Heads(s, "write_files")
            /\ DOMAIN items = DOMAIN fs
            /\ \A i \in DOMAIN fs : IsBlock(fs[i].content) => SameFile(ReadFile(items[i]), fs[i])
<1> DEFINE parts == [i \in DOMAIN fs |-> FileLines(fs[i])]
<1>1. PICK n \in Nat : n = Len(fs) /\ DOMAIN fs = 1..n /\ \A i \in 1..n : fs[i] \in File
  BY ONLY fs \in Seq(File)
<1>2. ASSUME NEW i \in 1..n
      PROVE  /\ parts[i] \in Seq(DocLine) /\ NoTop(parts[i]) /\ Opens(parts[i], "- path")
             /\ IsBlock(fs[i].content) => SameFile(ReadFile(parts[i]), fs[i])
  <2>1. PICK f \in File : f = fs[i]
    BY <1>1
  <2>2. parts[i] = FileLines(f)
    BY <1>1, <2>1
  <2> HIDE DEF parts
  <2> QED BY <2>1, <2>2, FileReadsBack
<1>3. parts = [i \in 1..n |-> parts[i]]
  BY <1>1
<1>4. Each(FileLines, fs) = FlattenSeq(parts)
  BY DEF Each
<1> HIDE DEF parts
<1>5. PICK p \in Seq(Seq(DocLine)) : p = parts /\ Len(p) = n /\ DOMAIN p = 1..n
  <2>1. \A i \in 1..n : parts[i] \in Seq(DocLine)
    BY <1>2
  <2> QED BY <1>3, <2>1
<1>6. PICK b \in Seq(DocLine) : b = FlattenSeq(p) /\ NoTop(b)
  <2>1. \A i \in 1..Len(p) : NoTop(p[i])
    BY <1>2, <1>5
  <2> QED BY ONLY p \in Seq(Seq(DocLine)), <2>1, FlattenLines
<1>7. PICK k \in Key : k = "write_files" /\ k \notin {"- path", "text"}
  BY DEF Key
<1>8. PICK h \in Seq(DocLine) : h = Heading(k) /\ Keys(h) = {k} /\ h \o b \in Seq(DocLine) /\ Heads(h \o b, k)
  <2>1. k \notin {"- path", "text"}
    BY <1>7
  <2>2. NoTop(b)
    BY <1>6
  <2>3. /\ Heading(k) \in Seq(DocLine) /\ Keys(Heading(k)) = {k}
        /\ Heading(k) \o b \in Seq(DocLine) /\ Heads(Heading(k) \o b, k)
    BY ONLY k \in Key, <2>1, b \in Seq(DocLine), <2>2, HeadLine
  <2> QED BY <2>3
<1>9. Items(h \o b, "- path") = p
  <2>1. PICK o : o = "- path" /\ o \notin Keys(h)
    <3>1. k # "- path"
      BY <1>7
    <3> QED BY <1>8, <3>1
  <2>2. \A i \in 1..Len(p) : Opens(p[i], o)
    BY <1>2, <1>5, <2>1
  <2>3. o \notin Keys(h)
    BY <2>1
  <2>4. Items(h \o FlattenSeq(p), o) = p
    BY ONLY h \in Seq(DocLine), p \in Seq(Seq(DocLine)), <2>2, <2>3, PartsOf
  <2> QED BY <1>6, <2>1, <2>4
<1>10. DOMAIN p = DOMAIN fs /\ \A i \in DOMAIN fs : IsBlock(fs[i].content) => SameFile(ReadFile(p[i]), fs[i])
  BY <1>1, <1>2, <1>5
<1> QED BY <1>4, <1>5, <1>6, <1>7, <1>8, <1>9, <1>10

\* So are the users.
LEMMA UsersReadBack ==
  ASSUME NEW us, us \in Seq(ToSet(us)), \A u \in ToSet(us) : IsUser(u)
  PROVE  LET s == Heading("users") \o Each(UserLines, us)
             items == Items(s, "- name")
         IN /\ s \in Seq(DocLine) /\ Heads(s, "users")
            /\ [i \in DOMAIN items |->
                  [a \in UserFields |->
                     CASE a = "name" -> ValueOf(items[i], "- name")
                       [] a = "keys" -> ValuesOf(items[i], "-")
                       [] OTHER -> ValueOf(items[i], a)]]
                 = [i \in DOMAIN us |-> [us[i] EXCEPT !.inactive = Set(@)]]
<1> DEFINE parts == [i \in DOMAIN us |-> UserLines(us[i])]
           read(l) == [a \in UserFields |->
                         CASE a = "name" -> ValueOf(l, "- name")
                           [] a = "keys" -> ValuesOf(l, "-")
                           [] OTHER -> ValueOf(l, a)]
<1>1. PICK n \in Nat : n = Len(us) /\ DOMAIN us = 1..n /\ \A i \in 1..n : IsUser(us[i])
  <2>1. PICK R : R = ToSet(us)
    OBVIOUS
  <2>2. us \in Seq(R) /\ \A u \in R : IsUser(u)
    BY <2>1
  <2> QED BY ONLY <2>2
<1>2. ASSUME NEW i \in 1..n
      PROVE  /\ parts[i] \in Seq(DocLine) /\ NoTop(parts[i]) /\ Opens(parts[i], "- name")
             /\ read(parts[i]) = [us[i] EXCEPT !.inactive = Set(@)]
  <2>1. PICK u : u = us[i] /\ IsUser(u)
    BY <1>1
  <2>2. parts[i] = UserLines(u)
    BY <1>1, <2>1
  <2>3. IsUser(u)
    BY <2>1
  <2>4. /\ UserLines(u) \in Seq(DocLine) /\ NoTop(UserLines(u)) /\ Opens(UserLines(u), "- name")
        /\ read(UserLines(u)) = [u EXCEPT !.inactive = Set(@)]
    BY ONLY <2>3, UserReadsBack
  <2> HIDE DEF parts, read
  <2> QED BY <2>1, <2>2, <2>4
<1>3. parts = [i \in 1..n |-> parts[i]]
  BY <1>1
<1>4. Each(UserLines, us) = FlattenSeq(parts)
  BY DEF Each
<1> HIDE DEF parts, read
<1>5. PICK p \in Seq(Seq(DocLine)) : p = parts /\ Len(p) = n /\ DOMAIN p = 1..n
  <2>1. \A i \in 1..n : parts[i] \in Seq(DocLine)
    BY <1>2
  <2> QED BY <1>3, <2>1
<1>6. PICK b \in Seq(DocLine) : b = FlattenSeq(p) /\ NoTop(b)
  <2>1. \A i \in 1..Len(p) : NoTop(p[i])
    BY <1>2, <1>5
  <2> QED BY ONLY p \in Seq(Seq(DocLine)), <2>1, FlattenLines
<1>7. PICK k \in Key : k = "users" /\ k \notin {"- path", "text"}
  BY DEF Key
<1>8. PICK h \in Seq(DocLine) : h = Heading(k) /\ Keys(h) = {k} /\ h \o b \in Seq(DocLine) /\ Heads(h \o b, k)
  <2>1. k \notin {"- path", "text"}
    BY <1>7
  <2>2. NoTop(b)
    BY <1>6
  <2>3. /\ Heading(k) \in Seq(DocLine) /\ Keys(Heading(k)) = {k}
        /\ Heading(k) \o b \in Seq(DocLine) /\ Heads(Heading(k) \o b, k)
    BY ONLY k \in Key, <2>1, b \in Seq(DocLine), <2>2, HeadLine
  <2> QED BY <2>3
<1>9. Items(h \o b, "- name") = p
  <2>1. PICK o : o = "- name" /\ o \notin Keys(h)
    <3>1. k # "- name"
      BY <1>7
    <3> QED BY <1>8, <3>1
  <2>2. \A i \in 1..Len(p) : Opens(p[i], o)
    BY <1>2, <1>5, <2>1
  <2>3. o \notin Keys(h)
    BY <2>1
  <2>4. Items(h \o FlattenSeq(p), o) = p
    BY ONLY h \in Seq(DocLine), p \in Seq(Seq(DocLine)), <2>2, <2>3, PartsOf
  <2> QED BY <1>6, <2>1, <2>4
<1>10. [i \in DOMAIN p |-> read(p[i])] = [i \in DOMAIN us |-> [us[i] EXCEPT !.inactive = Set(@)]]
  <2>1. DOMAIN p = 1..n /\ DOMAIN us = 1..n
    BY <1>1, <1>5
  <2>2. \A i \in 1..n : read(p[i]) = [us[i] EXCEPT !.inactive = Set(@)]
    BY <1>2, <1>5
  <2> QED BY <2>1, <2>2
<1>11. Heading("users") \o Each(UserLines, us) = h \o b
  BY <1>4, <1>5, <1>6, <1>7, <1>8
<1>12. /\ Heading("users") \o Each(UserLines, us) \in Seq(DocLine)
       /\ Heads(Heading("users") \o Each(UserLines, us), "users")
       /\ Items(Heading("users") \o Each(UserLines, us), "- name") = p
  BY <1>7, <1>8, <1>9, <1>11
<1>13. [i \in DOMAIN p |->
          [a \in UserFields |->
             CASE a = "name" -> ValueOf(p[i], "- name")
               [] a = "keys" -> ValuesOf(p[i], "-")
               [] OTHER -> ValueOf(p[i], a)]] = [i \in DOMAIN us |-> [us[i] EXCEPT !.inactive = Set(@)]]
  BY ONLY <1>10 DEF read
<1> QED BY ONLY <1>12, <1>13

\* So are the commands.
LEMMA CommandsReadBack ==
  ASSUME NEW vals \in Seq(Text)
  PROVE  LET s == Heading("runcmd") \o Lines(2, "-", vals)
         IN s \in Seq(DocLine) /\ Heads(s, "runcmd") /\ ValuesOf(s, "-") = vals
<1>1. PICK n \in Nat : n = 2 /\ n # 0 /\ n \in Nat \ {0}
  OBVIOUS
<1>2. PICK o \in Key : o = "-"
  BY DEF Key
<1>3. PICK l \in Seq(DocLine) : l = Lines(n, o, vals) /\ NoTop(l)
  <2>1. n # 0
    BY <1>1
  <2> QED BY ONLY n \in Nat, <2>1, vals \in Seq(Text), o \in Key, LinesOfKey
<1>4. PICK k \in Key : k = "runcmd" /\ k \notin {"- path", "text"} /\ k # o
  BY <1>2 DEF Key
<1>5. PICK h \in Seq(DocLine) : h = Heading(k) /\ Keys(h) = {k} /\ h \o l \in Seq(DocLine) /\ Heads(h \o l, k)
  <2>1. k \notin {"- path", "text"}
    BY <1>4
  <2>2. NoTop(l)
    BY <1>3
  <2>3. /\ Heading(k) \in Seq(DocLine) /\ Keys(Heading(k)) = {k}
        /\ Heading(k) \o l \in Seq(DocLine) /\ Heads(Heading(k) \o l, k)
    BY ONLY k \in Key, <2>1, l \in Seq(DocLine), <2>2, HeadLine
  <2> QED BY <2>3
<1>6. ValuesOf(h \o l, "-") = vals
  <2>1. "-" \notin Keys(h)
    BY <1>2, <1>4, <1>5
  <2>2. n \in Nat \ {0}
    BY <1>1
  <2>3. ValuesOf(h \o Lines(n, "-", vals), "-") = vals
    BY ONLY h \in Seq(DocLine), <2>1, <2>2, vals \in Seq(Text), ListReadsBack
  <2> QED BY <1>2, <1>3, <2>3
<1> QED BY <1>1, <1>2, <1>3, <1>4, <1>5, <1>6

\* And the NTP servers.
LEMMA NTPReadsBack ==
  ASSUME NEW ntp, ntp # None, ntp.enabled \in Value, ntp.servers \in Seq(Value)
  PROVE  /\ NTPLines(ntp) \in Seq(DocLine) /\ Heads(NTPLines(ntp), "ntp")
         /\ ValueOf(NTPLines(ntp), "enabled") = Set(ntp.enabled)
         /\ ValuesOf(NTPLines(ntp), "-") = ntp.servers
<1>1. PICK two \in Nat : two = 2 /\ two # 0
  OBVIOUS
<1>2. PICK four \in Nat : four = 4 /\ four # 0 /\ four \in Nat \ {0}
  OBVIOUS
<1>3. PICK v \in Text, vals \in Seq(Text), e \in Text : v = ntp.enabled /\ vals = ntp.servers /\ e = ""
  <2>1. Value \subseteq Text /\ "" \in Text
    BY DEF Text
  <2>2. ntp.servers \in Seq(Text)
    <3>1. Value \subseteq Text
      BY <2>1
    <3>2. PICK s \in Seq(Value) : s = ntp.servers
      OBVIOUS
    <3>3. s \in Seq(Text)
      BY <3>1
    <3> QED BY <3>2, <3>3
  <2> QED BY <2>1, <2>2
<1>4. PICK kn \in Key, ke \in Key, ks \in Key, o \in Key :
        /\ kn = "ntp" /\ ke = "enabled" /\ ks = "servers" /\ o = "-"
        /\ kn \notin {"- path", "text"} /\ ke # kn /\ ke # ks /\ ke # o /\ kn # o /\ ks # o
  BY DEF Key
<1>5. PICK f \in Seq(DocLine) :
        /\ f = Flag(two, ke, v) /\ Keys(f) \subseteq {ke} /\ NoTop(f) /\ ValueOf(f, ke) = Set(v)
  <2>1. two # 0
    BY <1>1
  <2>2. /\ Flag(two, ke, v) \in Seq(DocLine) /\ Keys(Flag(two, ke, v)) \subseteq {ke}
        /\ NoTop(Flag(two, ke, v))
        /\ \A key : ValueOf(Flag(two, ke, v), key) = IF key = ke /\ v # None THEN "true" ELSE None
    BY ONLY two \in Nat, <2>1, ke \in Key, FlagLine
  <2> QED BY <2>2 DEF Set
<1>6. PICK g \in Seq(DocLine) : g = <<Line(two, ks, e)>> /\ Keys(g) = {ks} /\ NoTop(g)
  <2>1. two # 0
    BY <1>1
  <2>2. Single(two, ks, e)
    BY ONLY two \in Nat, ks \in Key, e \in Text, OneLine
  <2> QED BY <2>1, <2>2 DEF Single
<1>7. PICK l \in Seq(DocLine) : l = Lines(four, o, vals) /\ NoTop(l) /\ Keys(l) \subseteq {o}
  <2>1. four # 0
    BY <1>2
  <2> QED BY ONLY four \in Nat, <2>1, vals \in Seq(Text), o \in Key, LinesOfKey
<1>8. PICK fg \in Seq(DocLine) : fg = f \o g /\ NoTop(fg) /\ Keys(fg) = Keys(f) \cup Keys(g)
                                /\ ValueOf(fg, ke) = ValueOf(f, ke)
  <2>1. ke \notin Keys(g)
    BY <1>4, <1>6
  <2>2. /\ f \o g \in Seq(DocLine) /\ Keys(f \o g) = Keys(f) \cup Keys(g)
        /\ NoTop(f) /\ NoTop(g) => NoTop(f \o g)
        /\ \A key : key \notin Keys(g) => ValueOf(f \o g, key) = ValueOf(f, key)
    BY ONLY f \in Seq(DocLine), g \in Seq(DocLine), ConcatLines DEF Follows
  <2> QED BY <1>5, <1>6, <2>1, <2>2
<1>9. PICK b \in Seq(DocLine) : b = fg \o l /\ NoTop(b) /\ ValueOf(b, ke) = ValueOf(fg, ke)
  <2>1. ke \notin Keys(l)
    BY <1>4, <1>7
  <2>2. /\ fg \o l \in Seq(DocLine)
        /\ NoTop(fg) /\ NoTop(l) => NoTop(fg \o l)
        /\ \A key : key \notin Keys(l) => ValueOf(fg \o l, key) = ValueOf(fg, key)
    BY ONLY fg \in Seq(DocLine), l \in Seq(DocLine), ConcatLines DEF Follows
  <2> QED BY <1>7, <1>8, <2>1, <2>2
<1>10. PICK h \in Seq(DocLine) :
         h = Heading(kn) /\ Keys(h) = {kn} /\ h \o b \in Seq(DocLine) /\ Heads(h \o b, kn)
  <2>1. kn \notin {"- path", "text"}
    BY <1>4
  <2>2. NoTop(b)
    BY <1>9
  <2>3. /\ Heading(kn) \in Seq(DocLine) /\ Keys(Heading(kn)) = {kn}
        /\ Heading(kn) \o b \in Seq(DocLine) /\ Heads(Heading(kn) \o b, kn)
    BY ONLY kn \in Key, <2>1, b \in Seq(DocLine), <2>2, HeadLine
  <2> QED BY <2>3
<1>11. h \o b = ((h \o f) \o g) \o l /\ h \o b = (h \o fg) \o l
  <2>1. (h \o fg) \o l = h \o (fg \o l)
    <3>1. Associates(h, fg, l)
      BY ONLY h \in Seq(DocLine), fg \in Seq(DocLine), l \in Seq(DocLine), Regroup
    <3> QED BY ONLY <3>1 DEF Associates
  <2>2. (h \o f) \o g = h \o (f \o g)
    <3>1. Associates(h, f, g)
      BY ONLY h \in Seq(DocLine), f \in Seq(DocLine), g \in Seq(DocLine), Regroup
    <3> QED BY ONLY <3>1 DEF Associates
  <2> QED BY <1>8, <1>9, <2>1, <2>2
<1>12. ValueOf(h \o b, ke) = Set(v)
  <2>1. ke \notin Keys(h)
    BY <1>4, <1>10
  <2>2. \A key : key \notin Keys(h) => ValueOf(h \o b, key) = ValueOf(b, key)
    BY ONLY h \in Seq(DocLine), b \in Seq(DocLine), ConcatLines DEF Follows
  <2> QED BY <1>5, <1>8, <1>9, <2>1, <2>2
<1>13. ValuesOf(h \o b, "-") = vals
  <2>1. PICK x \in Seq(DocLine) : x = h \o fg /\ Keys(x) = Keys(h) \cup Keys(fg)
    BY ONLY h \in Seq(DocLine), fg \in Seq(DocLine), ConcatLines DEF Follows
  <2>2. "-" \notin Keys(x)
    BY <1>4, <1>5, <1>6, <1>8, <1>10, <2>1
  <2>3. four \in Nat \ {0}
    BY <1>2
  <2>4. ValuesOf(x \o Lines(four, "-", vals), "-") = vals
    BY ONLY x \in Seq(DocLine), <2>2, <2>3, vals \in Seq(Text), ListReadsBack
  <2> QED BY <1>4, <1>7, <1>11, <2>1, <2>4
<1>14. NTPLines(ntp) = h \o b
  <2>1. NTPLines(ntp) = ((<<Line(0, "ntp", "")>> \o Flag(2, "enabled", ntp.enabled))
                         \o <<Line(2, "servers", "")>>) \o Lines(4, "-", ntp.servers)
    BY DEF NTPLines
  <2>2. h = <<Line(0, "ntp", "")>>
    BY <1>4, <1>10 DEF Heading
  <2> QED BY <1>1, <1>2, <1>3, <1>4, <1>5, <1>6, <1>7, <1>11, <2>1, <2>2
<1> QED BY <1>3, <1>4, <1>10, <1>12, <1>13, <1>14

\* What Write makes of the files, the commands, the NTP configuration and the users.
Rendered(fs, cmds, ntp, us) ==
  <<Line(0, "write_files", "")>> \o Each(FileLines, fs)
  \o <<Line(0, "runcmd", "")>> \o Lines(2, "-", cmds)
  \o NTPLines(ntp)
  \o IF us = <<>> THEN <<>> ELSE <<Line(0, "users", "")>> \o Each(UserLines, us)

\* The document is the concatenation of its sections, those that are absent empty.
LEMMA SectionsOf ==
  ASSUME NEW t1 \in Seq(DocLine), NEW t2 \in Seq(DocLine), NEW t3 \in Seq(DocLine),
         NEW t4 \in Seq(DocLine), Heads(t1, "write_files"), Heads(t2, "runcmd"),
         t3 = <<>> \/ Heads(t3, "ntp"), t4 = <<>> \/ Heads(t4, "users")
  PROVE  LET d == ((t1 \o t2) \o t3) \o t4
         IN /\ d \in Seq(DocLine) /\ Section(d, "write_files") = t1 /\ Section(d, "runcmd") = t2
            /\ Section(d, "ntp") = t3 /\ Section(d, "users") = t4
<1>1. PICK k1 \in Key, k2 \in Key, k3 \in Key, k4 \in Key :
        k1 = "write_files" /\ k2 = "runcmd" /\ k3 = "ntp" /\ k4 = "users"
  BY DEF Key
<1>2. k1 # k2 /\ k1 # k3 /\ k1 # k4 /\ k2 # k3 /\ k2 # k4 /\ k3 # k4
  BY <1>1
<1>3. Heads(t1, k1) /\ Heads(t2, k2) /\ (t3 = <<>> \/ Heads(t3, k3)) /\ (t4 = <<>> \/ Heads(t4, k4))
  BY <1>1
<1>4. TopKeys(<<>>) = {} /\ Begins(<<>>) /\ <<>> \in Seq(DocLine)
  BY DEF TopKeys, Begins
<1>5. /\ TopKeys(t1) \subseteq {k1} /\ Begins(t1)
      /\ TopKeys(t2) \subseteq {k2} /\ Begins(t2)
      /\ TopKeys(t3) \subseteq {k3} /\ Begins(t3)
      /\ TopKeys(t4) \subseteq {k4} /\ Begins(t4)
  BY <1>3, <1>4, HeadsAlone
<1>6. PICK a \in Seq(DocLine) : a = t1 \o t2 /\ TopKeys(a) \subseteq {k1, k2}
  <2>1. t1 \o t2 \in Seq(DocLine)
    BY ONLY t1 \in Seq(DocLine), t2 \in Seq(DocLine), ConcatLines DEF Follows
  <2>2. TopKeys(t1 \o t2) \subseteq TopKeys(t1) \cup TopKeys(t2)
    BY ONLY t1 \in Seq(DocLine), t2 \in Seq(DocLine), ConcatSections
  <2> QED BY <1>5, <2>1, <2>2
<1>7. PICK b \in Seq(DocLine) : b = a \o t3 /\ TopKeys(b) \subseteq {k1, k2, k3}
  <2>1. a \o t3 \in Seq(DocLine)
    BY ONLY a \in Seq(DocLine), t3 \in Seq(DocLine), ConcatLines DEF Follows
  <2>2. TopKeys(a \o t3) \subseteq TopKeys(a) \cup TopKeys(t3)
    BY ONLY a \in Seq(DocLine), t3 \in Seq(DocLine), ConcatSections
  <2> QED BY <1>5, <1>6, <2>1, <2>2
<1>8. PICK d \in Seq(DocLine) : d = b \o t4 /\ TopKeys(d) \subseteq {k1, k2, k3, k4}
  <2>1. b \o t4 \in Seq(DocLine)
    BY ONLY b \in Seq(DocLine), t4 \in Seq(DocLine), ConcatLines DEF Follows
  <2>2. TopKeys(b \o t4) \subseteq TopKeys(b) \cup TopKeys(t4)
    BY ONLY b \in Seq(DocLine), t4 \in Seq(DocLine), ConcatSections
  <2> QED BY <1>5, <1>7, <2>1, <2>2
<1>9. PICK y3 \in Seq(DocLine) : y3 = t3 \o t4 /\ Begins(y3)
  <2>1. t3 \o t4 \in Seq(DocLine)
    BY ONLY t3 \in Seq(DocLine), t4 \in Seq(DocLine), ConcatLines DEF Follows
  <2>2. Begins(t3) /\ Begins(t4) => Begins(t3 \o t4)
    BY ONLY t3 \in Seq(DocLine), t4 \in Seq(DocLine), ConcatSections
  <2> QED BY <1>5, <2>1, <2>2
<1>10. PICK y2 \in Seq(DocLine) : y2 = t2 \o y3 /\ Begins(y2)
  <2>1. t2 \o y3 \in Seq(DocLine)
    BY ONLY t2 \in Seq(DocLine), y3 \in Seq(DocLine), ConcatLines DEF Follows
  <2>2. Begins(t2) /\ Begins(y3) => Begins(t2 \o y3)
    BY ONLY t2 \in Seq(DocLine), y3 \in Seq(DocLine), ConcatSections
  <2> QED BY <1>5, <1>9, <2>1, <2>2
<1>11. d = a \o (t3 \o t4)
  <2>1. (a \o t3) \o t4 = a \o (t3 \o t4)
    <3>1. Associates(a, t3, t4)
      BY ONLY a \in Seq(DocLine), t3 \in Seq(DocLine), t4 \in Seq(DocLine), Regroup
    <3> QED BY ONLY <3>1 DEF Associates
  <2> QED BY <1>7, <1>8, <2>1
<1>12. d = t1 \o (t2 \o y3)
  <2>1. (t1 \o t2) \o y3 = t1 \o (t2 \o y3)
    <3>1. Associates(t1, t2, y3)
      BY ONLY t1 \in Seq(DocLine), t2 \in Seq(DocLine), y3 \in Seq(DocLine), Regroup
    <3> QED BY ONLY <3>1 DEF Associates
  <2> QED BY <1>6, <1>9, <1>11, <2>1
<1>13. Section(d, k1) = t1
  <2>1. PICK e \in Seq(DocLine) : e = <<>> /\ k1 \notin TopKeys(e)
    BY <1>4
  <2>2. e \o (t1 \o y2) = d
    <3>1. t1 \o y2 \in Seq(DocLine)
      BY ONLY t1 \in Seq(DocLine), y2 \in Seq(DocLine), ConcatLines DEF Follows
    <3>2. <<>> \o (t1 \o y2) = t1 \o y2
      BY <3>1
    <3> QED BY <1>10, <1>12, <2>1, <3>2
  <2>3. Heads(t1, k1)
    BY <1>3
  <2>4. k1 \notin TopKeys(e) /\ Begins(y2)
    BY <1>10, <2>1
  <2>5. Section(e \o (t1 \o y2), k1) = t1
    BY ONLY e \in Seq(DocLine), t1 \in Seq(DocLine), y2 \in Seq(DocLine), <2>3, <2>4, SectionReads
  <2> QED BY <2>2, <2>5
<1>14. Section(d, k2) = t2
  <2>1. k2 \notin TopKeys(t1) /\ Begins(y3)
    BY <1>2, <1>5, <1>9
  <2>2. Heads(t2, k2)
    BY <1>3
  <2>3. Section(t1 \o (t2 \o y3), k2) = t2
    BY ONLY t1 \in Seq(DocLine), t2 \in Seq(DocLine), y3 \in Seq(DocLine), <2>1, <2>2, SectionReads
  <2> QED BY <1>12, <2>3
<1>15. Section(d, k3) = t3
  <2>1. k3 \notin TopKeys(a) /\ Begins(t4)
    BY <1>2, <1>5, <1>6
  <2>2. CASE Heads(t3, k3)
    <3>1. Section(a \o (t3 \o t4), k3) = t3
      BY ONLY a \in Seq(DocLine), t3 \in Seq(DocLine), t4 \in Seq(DocLine), <2>1, <2>2, SectionReads
    <3> QED BY <1>11, <3>1
  <2>3. CASE t3 = <<>>
    <3>1. d = a \o t4
      <4>1. a \o <<>> = a
        BY ONLY a \in Seq(DocLine)
      <4> QED BY <1>7, <1>8, <2>3, <4>1
    <3>2. TopKeys(a \o t4) \subseteq TopKeys(a) \cup TopKeys(t4)
      BY ONLY a \in Seq(DocLine), t4 \in Seq(DocLine), ConcatSections
    <3>3. k3 \notin TopKeys(d)
      BY <1>2, <1>5, <2>1, <3>1, <3>2
    <3>4. Section(d, k3) = <<>>
      BY ONLY d \in Seq(DocLine), <3>3, SectionIsAbsent
    <3> QED BY <2>3, <3>4
  <2> QED BY <1>3, <2>2, <2>3
<1>16. Section(d, k4) = t4
  <2>1. k4 \notin TopKeys(b)
    BY <1>2, <1>7
  <2>2. d = b \o t4
    BY <1>8
  <2>3. CASE Heads(t4, k4)
    <3>1. PICK e \in Seq(DocLine) : e = <<>> /\ Begins(e)
      BY <1>4
    <3>2. t4 \o e = t4
      BY <3>1
    <3>3. Begins(e)
      BY <3>1
    <3>4. Section(b \o (t4 \o e), k4) = t4
      BY ONLY b \in Seq(DocLine), t4 \in Seq(DocLine), e \in Seq(DocLine), <2>1, <2>3, <3>3, SectionReads
    <3> QED BY <2>2, <3>2, <3>4
  <2>4. CASE t4 = <<>>
    <3>1. d = b
      <4>1. b \o <<>> = b
        BY ONLY b \in Seq(DocLine)
      <4> QED BY <2>2, <2>4, <4>1
    <3>2. Section(b, k4) = <<>>
      BY ONLY b \in Seq(DocLine), <2>1, SectionIsAbsent
    <3> QED BY <2>4, <3>1, <3>2
  <2> QED BY <1>3, <2>3, <2>4
<1> QED BY <1>1, <1>6, <1>7, <1>8, <1>13, <1>14, <1>15, <1>16

\* Without users there is no section, and none is read.
LEMMA NoUsers == DOMAIN Items(<<>>, "- name") = {}
<1>1. Keyed(<<>>, "- name") = {}
  BY DEF Keyed
<1>2. Cardinality({}) = 0
  BY FS_EmptySet
<1>3. PICK s, key : s = <<>> /\ key = "- name"
  OBVIOUS
<1>4. Cardinality(Keyed(s, key)) = 0
  BY <1>1, <1>2, <1>3
<1>5. DOMAIN Items(s, key) = 1..Cardinality(Keyed(s, key))
  BY ONLY DEF Items
<1>6. 1..0 = {}
  OBVIOUS
<1>7. DOMAIN Items(s, key) = {}
  BY ONLY <1>4, <1>5, <1>6
<1> QED BY <1>3, <1>7

\* What the types of the Spec allow.
Renderable(fs, cmds, ntp, us) ==
  /\ fs \in Seq(File)
  /\ cmds \in Seq(Text)
  /\ ntp # None => ntp.enabled \in Value /\ ntp.servers \in Seq(Value)
  /\ us \in Seq(ToSet(us)) /\ \A u \in ToSet(us) : IsUser(u)

\* What is rendered, as it is read (cloudinit.go, the template of the document): every
\* flag that is given comes back as true.
LEMMA RenderedReadsBack ==
  ASSUME NEW fs, NEW cmds, NEW ntp, NEW us, Renderable(fs, cmds, ntp, us)
  PROVE  LET d == Rendered(fs, cmds, ntp, us)
             n == Section(d, "ntp")
         IN /\ DOMAIN ReadFiles(d) = DOMAIN fs
            /\ \A i \in DOMAIN fs : IsBlock(fs[i].content) => SameFile(ReadFiles(d)[i], fs[i])
            /\ ValuesOf(Section(d, "runcmd"), "-") = cmds
            /\ n = <<>> <=> ntp = None
            /\ ntp # None => ValueOf(n, "enabled") = Set(ntp.enabled) /\ ValuesOf(n, "-") = ntp.servers
            /\ ReadUsers(d) = [i \in DOMAIN us |-> [us[i] EXCEPT !.inactive = Set(@)]]
<1> USE DEF Renderable
<1>1. PICK t1 \in Seq(DocLine) :
        /\ t1 = Heading("write_files") \o Each(FileLines, fs) /\ Heads(t1, "write_files")
        /\ DOMAIN Items(t1, "- path") = DOMAIN fs
        /\ \A i \in DOMAIN fs :
             IsBlock(fs[i].content) => SameFile(ReadFile(Items(t1, "- path")[i]), fs[i])
  BY ONLY fs \in Seq(File), FilesReadBack
<1>2. PICK t2 \in Seq(DocLine) :
        t2 = Heading("runcmd") \o Lines(2, "-", cmds) /\ Heads(t2, "runcmd") /\ ValuesOf(t2, "-") = cmds
  BY ONLY cmds \in Seq(Text), CommandsReadBack
<1>3. PICK t3 \in Seq(DocLine) :
        /\ t3 = NTPLines(ntp) /\ (ntp = None => t3 = <<>>) /\ (ntp # None => Heads(t3, "ntp"))
        /\ ntp # None => ValueOf(t3, "enabled") = Set(ntp.enabled) /\ ValuesOf(t3, "-") = ntp.servers
  <2>1. CASE ntp = None
    BY <2>1, NoLines DEF NTPLines
  <2>2. CASE ntp # None
    <3>1. ntp.enabled \in Value
      BY <2>2
    <3>2. ntp.servers \in Seq(Value)
      BY <2>2
    <3>3. /\ NTPLines(ntp) \in Seq(DocLine) /\ Heads(NTPLines(ntp), "ntp")
          /\ ValueOf(NTPLines(ntp), "enabled") = Set(ntp.enabled)
          /\ ValuesOf(NTPLines(ntp), "-") = ntp.servers
      BY ONLY <2>2, <3>1, <3>2, NTPReadsBack
    <3> QED BY <2>2, <3>3
  <2> QED BY <2>1, <2>2
<1>4. PICK t4 \in Seq(DocLine) :
        /\ t4 = IF us = <<>> THEN <<>> ELSE Heading("users") \o Each(UserLines, us)
        /\ t4 = <<>> \/ Heads(t4, "users")
        /\ [i \in DOMAIN Items(t4, "- name") |->
              [a \in UserFields |->
                 CASE a = "name" -> ValueOf(Items(t4, "- name")[i], "- name")
                   [] a = "keys" -> ValuesOf(Items(t4, "- name")[i], "-")
                   [] OTHER -> ValueOf(Items(t4, "- name")[i], a)]]
             = [i \in DOMAIN us |-> [us[i] EXCEPT !.inactive = Set(@)]]
  <2>1. CASE us = <<>>
    <3> DEFINE read(l) == [a \in UserFields |->
                             CASE a = "name" -> ValueOf(l, "- name")
                               [] a = "keys" -> ValuesOf(l, "-")
                               [] OTHER -> ValueOf(l, a)]
    <3>1. PICK items : items = Items(<<>>, "- name") /\ DOMAIN items = {}
      BY NoUsers
    <3>2. DOMAIN us = {}
      BY <2>1
    <3> HIDE DEF read
    <3>3. [i \in DOMAIN items |-> read(items[i])]
            = [i \in DOMAIN us |-> [us[i] EXCEPT !.inactive = Set(@)]]
      BY ONLY <3>1, <3>2
    <3>4. PICK t \in Seq(DocLine) : t = <<>>
      BY NoLines
    <3> QED BY ONLY <2>1, <3>1, <3>3, <3>4 DEF read
  <2>2. CASE us # <<>>
    <3>1. us \in Seq(ToSet(us))
      OBVIOUS
    <3>2. \A u \in ToSet(us) : IsUser(u)
      OBVIOUS
    <3>3. LET s == Heading("users") \o Each(UserLines, us)
              items == Items(s, "- name")
          IN /\ s \in Seq(DocLine) /\ Heads(s, "users")
             /\ [i \in DOMAIN items |->
                   [a \in UserFields |->
                      CASE a = "name" -> ValueOf(items[i], "- name")
                        [] a = "keys" -> ValuesOf(items[i], "-")
                        [] OTHER -> ValueOf(items[i], a)]]
                  = [i \in DOMAIN us |-> [us[i] EXCEPT !.inactive = Set(@)]]
      BY ONLY <3>1, <3>2, UsersReadBack
    <3> QED BY ONLY <2>2, <3>3
  <2> QED BY <2>1, <2>2
<1>5. PICK d : d = ((t1 \o t2) \o t3) \o t4
  OBVIOUS
<1>6. /\ Section(d, "write_files") = t1 /\ Section(d, "runcmd") = t2
      /\ Section(d, "ntp") = t3 /\ Section(d, "users") = t4
  <2>1. Heads(t1, "write_files") /\ Heads(t2, "runcmd")
    BY <1>1, <1>2
  <2>2. t3 = <<>> \/ Heads(t3, "ntp")
    BY <1>3
  <2>3. t4 = <<>> \/ Heads(t4, "users")
    BY <1>4
  <2>4. LET e == ((t1 \o t2) \o t3) \o t4
        IN /\ Section(e, "write_files") = t1 /\ Section(e, "runcmd") = t2
           /\ Section(e, "ntp") = t3 /\ Section(e, "users") = t4
    BY ONLY t1 \in Seq(DocLine), t2 \in Seq(DocLine), t3 \in Seq(DocLine), t4 \in Seq(DocLine),
            <2>1, <2>2, <2>3, SectionsOf
  <2> QED BY ONLY <1>5, <2>4
<1>7. Rendered(fs, cmds, ntp, us) = d
  <2>1. PICK h \in Seq(DocLine), l \in Seq(DocLine) : h = Heading("runcmd") /\ l = Lines(2, "-", cmds)
    <3>1. PICK n \in Nat, o \in Key, k \in Key : n = 2 /\ n # 0 /\ o = "-" /\ k = "runcmd"
      BY DEF Key
    <3>2. n # 0 /\ k \notin {"- path", "text"}
      BY <3>1
    <3>3. n # 0
      BY <3>2
    <3>4. k \notin {"- path", "text"}
      BY <3>2
    <3>5. Lines(n, o, cmds) \in Seq(DocLine)
      BY ONLY n \in Nat, <3>3, o \in Key, cmds \in Seq(Text), LinesOfKey
    <3>6. <<>> \in Seq(DocLine) /\ NoTop(<<>>)
      BY NoLines
    <3>7. Heading(k) \in Seq(DocLine)
      BY ONLY k \in Key, <3>4, <3>6, HeadLine
    <3> QED BY <3>1, <3>5, <3>7
  <2>2. Rendered(fs, cmds, ntp, us) = (((t1 \o h) \o l) \o t3) \o t4
    <3>1. /\ t1 = <<Line(0, "write_files", "")>> \o Each(FileLines, fs) /\ h = <<Line(0, "runcmd", "")>>
          /\ t4 = IF us = <<>> THEN <<>> ELSE <<Line(0, "users", "")>> \o Each(UserLines, us)
      BY <1>1, <1>4, <2>1 DEF Heading
    <3> QED BY ONLY <3>1, <2>1, <1>3 DEF Rendered
  <2>3. Associates(t1, h, l)
    BY ONLY t1 \in Seq(DocLine), h \in Seq(DocLine), l \in Seq(DocLine), Regroup
  <2>4. (t1 \o h) \o l = t1 \o (h \o l)
    BY ONLY <2>3 DEF Associates
  <2> QED BY ONLY <1>2, <1>5, <2>1, <2>2, <2>4
<1>8. /\ DOMAIN ReadFiles(d) = DOMAIN fs
      /\ \A i \in DOMAIN fs : IsBlock(fs[i].content) => SameFile(ReadFiles(d)[i], fs[i])
  <2>1. ReadFiles(d) = [i \in DOMAIN fs |-> ReadFile(Items(t1, "- path")[i])]
    BY ONLY <1>1, <1>6 DEF ReadFiles
  <2> QED BY ONLY <1>1, <2>1
<1>9. ReadUsers(d) = [i \in DOMAIN us |-> [us[i] EXCEPT !.inactive = Set(@)]]
  BY ONLY <1>4, <1>6 DEF ReadUsers
<1>10. t3 = <<>> <=> ntp = None
  BY ONLY <1>3 DEF Heads
<1> QED BY ONLY <1>2, <1>3, <1>6, <1>7, <1>8, <1>9, <1>10

--------------------------------------------------------------------------------
\* What is gathered is a file, and what is rendered is what was gathered.
DocumentInv ==
  /\ spec \in Specs /\ source \in Sources /\ todo \subseteq DOMAIN spec.secrets
  /\ files \in Seq(File)
  /\ document # <<>> =>
       todo = {} /\ document = Rendered(files, Commands(spec), spec.ntp, spec.users)

LEMMA DocumentInvInit == Init => DocumentInv
<1> SUFFICES ASSUME Init PROVE DocumentInv
  OBVIOUS
<1>1. /\ spec \in Specs /\ source \in Sources /\ todo = DOMAIN spec.secrets
      /\ files = Append(spec.files, CritFile) /\ document = <<>>
  BY DEF Init
<1>2. files \in Seq(File)
  <2>1. PICK s \in Seq(File) : s = spec.files
    BY <1>1, SpecsAssumption DEF IsSpec
  <2>2. Append(s, CritFile) \in Seq(File)
    BY CritFileAssumption
  <2> QED BY <1>1, <2>1, <2>2
<1> QED BY <1>1, <1>2 DEF DocumentInv

\* A SecretFile whose key exists gives a file.
LEMMA VisitGivesFile ==
  ASSUME spec \in Specs, source \in Sources, NEW i \in DOMAIN spec.secrets,
         Content(spec.secrets[i]) # None
  PROVE  FileOf(spec.secrets[i]) \in File
<1>1. PICK s \in SecretFile : s = spec.secrets[i]
  <2>1. PICK q \in Seq(SecretFile) : q = spec.secrets
    BY SpecsAssumption DEF IsSpec
  <2>2. i \in DOMAIN q /\ q[i] \in SecretFile
    BY <2>1
  <2> QED BY <2>1, <2>2
<1>2. Content(s) \in Contents
  <2>1. source[spec.secrets[i].secret][spec.secrets[i].key] \in {None} \cup Contents
    BY SourcesAssumption
  <2> QED BY <1>1, <2>1 DEF Content
<1>3. s.path \in Value /\ s.owner \in Value /\ s.permissions \in Value /\ s.encoding \in Value
  BY DEF SecretFile
<1> QED BY <1>1, <1>2, <1>3 DEF FileOf, File

LEMMA DocumentInvStep == DocumentInv /\ [Next]_vars => DocumentInv'
<1> SUFFICES ASSUME DocumentInv, [Next]_vars PROVE DocumentInv'
  OBVIOUS
<1>1. CASE UNCHANGED vars
  BY <1>1 DEF DocumentInv, vars, Commands
<1>2. CASE Write
  <2>1. /\ todo = {} /\ UNCHANGED <<spec, source, todo, visited, files>>
        /\ document' = Rendered(files, Commands(spec), spec.ntp, spec.users)
    BY <1>2 DEF Write, Rendered
  <2> QED BY <2>1 DEF DocumentInv, Commands
<1>3. ASSUME NEW i \in todo, VisitFile(i) PROVE DocumentInv'
  <2>1. /\ UNCHANGED <<spec, source, document>> /\ todo' = todo \ {i}
        /\ files' = IF Content(spec.secrets[i]) = None THEN files
                    ELSE Append(files, FileOf(spec.secrets[i]))
    BY <1>3 DEF VisitFile
  <2>2. document = <<>>
    BY <1>3 DEF DocumentInv
  <2>3. files' \in Seq(File)
    <3>1. CASE Content(spec.secrets[i]) = None
      BY <2>1, <3>1 DEF DocumentInv
    <3>2. CASE Content(spec.secrets[i]) # None
      <4>1. PICK f \in File : f = FileOf(spec.secrets[i])
        BY <1>3, <3>2, VisitGivesFile DEF DocumentInv
      <4>2. PICK s \in Seq(File) : s = files
        BY DEF DocumentInv
      <4>3. Append(s, f) \in Seq(File)
        OBVIOUS
      <4> QED BY <2>1, <3>2, <4>1, <4>2, <4>3
    <3> QED BY <3>1, <3>2
  <2>4. spec' \in Specs /\ source' \in Sources /\ todo' \subseteq DOMAIN spec.secrets'
    BY <2>1 DEF DocumentInv
  <2> QED BY <2>1, <2>2, <2>3, <2>4 DEF DocumentInv
<1> QED BY <1>1, <1>2, <1>3 DEF Next

\* What is read is what was asked for, where ReadsBack says so: a flag that comes back
\* as true was given as true, or not at all and does not come back.
LEMMA FlagReadsBack ==
  ASSUME NEW flag, NotFalse(flag)
  PROVE  Set(flag) = flag
BY DEF NotFalse, Set

LEMMA FlagsReadBack ==
  ASSUME NEW u, IsUser(u)
  PROVE  SameUser([u EXCEPT !.inactive = Set(@)], u)
<1> DEFINE w == [u EXCEPT !.inactive = Set(@)]
<1>1. u = [a \in UserFields |-> u[a]]
  BY DEF IsUser
<1>2. SUFFICES ASSUME NEW a \in UserFields, a = "inactive" => NotFalse(u[a])
               PROVE  w[a] = u[a]
  BY DEF SameUser
<1>3. CASE a = "inactive"
  <2>1. w[a] = Set(u[a])
    BY <1>1, <1>3
  <2> QED BY <1>2, <1>3, <2>1, FlagReadsBack
<1>4. CASE a # "inactive"
  BY <1>1, <1>4
<1> QED BY <1>3, <1>4

\* For every Spec and every source Secrets, the new machine reads in the document the
\* files that were gathered, the commands, the NTP servers and the users, if the
\* contents can be blocks of YAML; a flag that is given as false, and the indentation
\* of a content's leading line, are outside of it (util/cloudinit/cloudinit.go).
THEOREM DocumentReadsBack == Spec => []ReadsBack
<1>1. DocumentInv => ReadsBack
  <2> SUFFICES ASSUME DocumentInv, document # <<>>, \A i \in DOMAIN files : IsBlock(files[i].content)
               PROVE  LET ntp == Section(document, "ntp")
                          read == ReadFiles(document)
                          users == ReadUsers(document)
                      IN /\ DOMAIN read = DOMAIN files
                         /\ \A i \in DOMAIN files : SameFile(read[i], files[i])
                         /\ ValuesOf(Section(document, "runcmd"), "-") = Commands(spec)
                         /\ ntp = <<>> <=> spec.ntp = None
                         /\ spec.ntp # None =>
                              /\ NotFalse(spec.ntp.enabled) => ValueOf(ntp, "enabled") = spec.ntp.enabled
                              /\ ValuesOf(ntp, "-") = spec.ntp.servers
                         /\ DOMAIN users = DOMAIN spec.users
                         /\ \A i \in DOMAIN spec.users : SameUser(users[i], spec.users[i])
    BY DEF ReadsBack
  <2>1. IsSpec(spec)
    BY SpecsAssumption DEF DocumentInv
  <2>2. Commands(spec) \in Seq(Text)
    <3>1. Value \subseteq Text /\ CritUp \in Text
      BY DEF Text
    <3>2. PICK a \in Seq(Value), b \in Seq(Value) : a = spec.pre /\ b = spec.post
      BY <2>1 DEF IsSpec
    <3>3. a \in Seq(Text) /\ b \in Seq(Text) /\ <<CritUp>> \in Seq(Text)
      BY <3>1
    <3>4. PICK x \in Seq(Text), y \in Seq(Text), c \in Seq(Text) :
            x = a /\ y = b /\ c = <<CritUp>>
      BY <3>3
    <3>5. (x \o c) \o y \in Seq(Text)
      BY ONLY x \in Seq(Text), y \in Seq(Text), c \in Seq(Text)
    <3> QED BY <3>2, <3>4, <3>5 DEF Commands
  <2>3. PICK fs \in Seq(File), cmds \in Seq(Text) : fs = files /\ cmds = Commands(spec)
    BY <2>2 DEF DocumentInv
  <2>4. PICK ntp, us : ntp = spec.ntp /\ us = spec.users
    OBVIOUS
  <2>5. ntp # None => ntp.enabled \in Value /\ ntp.servers \in Seq(Value)
    BY <2>1, <2>4 DEF IsSpec
  <2>6. us \in Seq(ToSet(us))
    BY <2>1, <2>4 DEF IsSpec
  <2>7. \A u \in ToSet(us) : IsUser(u)
    BY <2>1, <2>4 DEF IsSpec
  <2>8. document = Rendered(fs, cmds, ntp, us)
    BY <2>3, <2>4 DEF DocumentInv
  <2>9. LET d == Rendered(fs, cmds, ntp, us)
            n == Section(d, "ntp")
        IN /\ DOMAIN ReadFiles(d) = DOMAIN fs
           /\ \A i \in DOMAIN fs : IsBlock(fs[i].content) => SameFile(ReadFiles(d)[i], fs[i])
           /\ ValuesOf(Section(d, "runcmd"), "-") = cmds
           /\ n = <<>> <=> ntp = None
           /\ ntp # None => ValueOf(n, "enabled") = Set(ntp.enabled) /\ ValuesOf(n, "-") = ntp.servers
           /\ ReadUsers(d) = [i \in DOMAIN us |-> [us[i] EXCEPT !.inactive = Set(@)]]
    <3>1. Renderable(fs, cmds, ntp, us)
      BY ONLY fs \in Seq(File), cmds \in Seq(Text), <2>5, <2>6, <2>7 DEF Renderable
    <3> QED BY ONLY <3>1, RenderedReadsBack
  <2>10. \A i \in DOMAIN fs : IsBlock(fs[i].content)
    BY <2>3
  <2>11. \A i \in DOMAIN us : SameUser([us[i] EXCEPT !.inactive = Set(@)], us[i])
    <3>1. ASSUME NEW i \in DOMAIN us PROVE IsUser(us[i])
      <4>1. us[i] \in ToSet(us)
        BY DEF ToSet
      <4> QED BY <2>7, <4>1
    <3> QED BY <3>1, FlagsReadBack
  <2>12. ntp # None /\ NotFalse(ntp.enabled) => Set(ntp.enabled) = ntp.enabled
    BY FlagReadsBack
  <2> QED BY ONLY <2>3, <2>4, <2>8, <2>9, <2>10, <2>11, <2>12
<1> QED BY <1>1, DocumentInvInit, DocumentInvStep, PTL DEF Spec

================================================================================
