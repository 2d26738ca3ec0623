-------------------------- MODULE FileStoreProofs --------------------------
(***************************************************************************)
(* What a session sees of the disk: paths that lead to inodes, the current *)
(* directory, and the tree of files of module FileStore.  Between two      *)
(* operations the paths depend only on the listings of the directories,    *)
(* and an operation changes one name, or none.                             *)
(***************************************************************************)
EXTENDS WorkingDirectory, FileSystemProofs

USE FileSystemAssumption

-----------------------------------------------------------------------------
(* Listings and the paths through them, of any disk.                        *)

NamePaths == Seq(Names)

\* A path is empty, or has a last name.
LEMMA PathCases ==
    /\ <<>> \in NamePaths
    /\ \A q \in NamePaths, a \in Names :
         /\ Append(q, a) \in NamePaths /\ Append(q, a) # <<>>
         /\ Parent(Append(q, a)) = q /\ Name(Append(q, a)) = a
    /\ \A p \in NamePaths : p # <<>> =>
         /\ Parent(p) \in NamePaths /\ Name(p) \in Names
         /\ p = Append(Parent(p), Name(p))
<1>1. <<>> \in NamePaths
  BY DEF NamePaths
<1>2. ASSUME NEW q \in NamePaths, NEW a \in Names
      PROVE  /\ Append(q, a) \in NamePaths /\ Append(q, a) # <<>>
             /\ Parent(Append(q, a)) = q /\ Name(Append(q, a)) = a
  <2>1. /\ Append(q, a) \in Seq(Names) /\ Len(Append(q, a)) = Len(q) + 1
        /\ Append(q, a)[Len(q) + 1] = a /\ Len(q) \in Nat
    BY DEF NamePaths
  <2>2. SubSeq(Append(q, a), 1, Len(q)) = q
    <3>1. \A i \in 1..Len(q) : Append(q, a)[i] = q[i]
      BY DEF NamePaths
    <3>2. SubSeq(Append(q, a), 1, Len(q)) \in Seq(Names)
      BY <2>1
    <3>3. Len(SubSeq(Append(q, a), 1, Len(q))) = Len(q)
      BY <2>1
    <3>4. \A i \in 1..Len(q) : SubSeq(Append(q, a), 1, Len(q))[i] = q[i]
      BY <2>1, <3>1
    <3> QED BY <3>2, <3>3, <3>4 DEF NamePaths
  <2> QED BY <2>1, <2>2 DEF NamePaths, Parent, Name
<1>3. ASSUME NEW p \in NamePaths, p # <<>>
      PROVE  /\ Parent(p) \in NamePaths /\ Name(p) \in Names
             /\ p = Append(Parent(p), Name(p))
  <2>1. p \in Seq(Names) /\ Len(p) \in Nat /\ Len(p) > 0
    BY <1>3 DEF NamePaths
  <2>2. SubSeq(p, 1, Len(p) - 1) \in Seq(Names) /\ Len(SubSeq(p, 1, Len(p) - 1)) = Len(p) - 1
    <3> DEFINE n == Len(p) - 1
    <3>1. n \in 0..Len(p)
      BY <2>1
    <3> HIDE DEF n
    <3>2. SubSeq(p, 1, n) \in Seq(Names) /\ Len(SubSeq(p, 1, n)) = n
      BY <2>1, <3>1
    <3> QED BY <3>2 DEF n
  <2>3. \A i \in 1..Len(p) - 1 : SubSeq(p, 1, Len(p) - 1)[i] = p[i]
    BY <2>1
  <2>4. p[Len(p)] \in Names
    BY <2>1
  <2>5. p = Append(SubSeq(p, 1, Len(p) - 1), p[Len(p)])
    BY <2>1, <2>2, <2>3, <2>4
  <2> QED BY <2>2, <2>4, <2>5 DEF NamePaths, Parent, Name
<1> QED BY <1>1, <1>2, <1>3

\* The entries of each allocated inode; a file has none.
Nested(ib, T, B) ==
    [n \in ib |-> IF T[n].type = "DIRECTORY" THEN Listing(T, B, n) ELSE {}]

\* No inode has two entries, no directory one name twice, the root has none.
Forest(ib, K) ==
    /\ ROOT_INODE \in ib
    /\ \A d \in ib : \A e \in K[d] :
         /\ e = Entry(e.name, e.inode_num)
         /\ e.name \in Names /\ e.inode_num \in ib \ {ROOT_INODE}
    /\ \A c, d \in ib : \A e \in K[c], f \in K[d] :
         /\ e.inode_num = f.inode_num => c = d /\ e = f
         /\ c = d /\ e.name = f.name => e = f

\* L maps paths to the inodes they lead to by the entries of K.
Leads(ib, K, L) ==
    /\ L \in [NamePaths -> SUBSET ib]
    /\ L[<<>>] = {ROOT_INODE}
    /\ \A q \in NamePaths, a \in Names :
         L[Append(q, a)] = {c \in ib : \E d \in L[q] : Entry(a, c) \in K[d]}

\* In a forest different paths lead to different inodes, each to one at most.
LEMMA PathsAreUnique ==
    ASSUME NEW ib, NEW K, NEW L, Forest(ib, K), Leads(ib, K, L)
    PROVE  \A p, q \in NamePaths : \A m \in L[p], n \in L[q] : m = n <=> p = q
<1> DEFINE S == {p \in NamePaths : \A q \in NamePaths : \A m \in L[p], n \in L[q] : m = n <=> p = q}
<1>1. ASSUME NEW q \in NamePaths, NEW a \in Names, NEW n \in L[Append(q, a)]
      PROVE  /\ n # ROOT_INODE /\ n \in ib
             /\ \E d \in L[q] : d \in ib /\ Entry(a, n) \in K[d]
  <2>1. L[q] \subseteq ib
    BY DEF Leads
  <2>2. PICK d \in L[q] : n \in ib /\ Entry(a, n) \in K[d]
    BY DEF Leads
  <2>3. Entry(a, n).inode_num = n
    BY EntryIs
  <2> QED BY <2>1, <2>2, <2>3 DEF Forest
<1>2. <<>> \in S
  <2> SUFFICES ASSUME NEW q \in NamePaths, NEW m \in L[<<>>], NEW n \in L[q]
               PROVE  m = n <=> <<>> = q
    BY PathCases
  <2>1. m = ROOT_INODE
    BY DEF Leads
  <2>2. CASE q = <<>>
    BY <2>1, <2>2 DEF Leads
  <2>3. CASE q # <<>>
    <3>1. Parent(q) \in NamePaths /\ Name(q) \in Names /\ q = Append(Parent(q), Name(q))
      BY <2>3, PathCases
    <3>2. n # ROOT_INODE
      BY <1>1, <3>1
    <3> QED BY <2>1, <2>3, <3>2
  <2> QED BY <2>2, <2>3
<1>3. ASSUME NEW p \in NamePaths, p \in S, NEW a \in Names
      PROVE  Append(p, a) \in S
  <2> SUFFICES ASSUME NEW q \in NamePaths, NEW m \in L[Append(p, a)], NEW n \in L[q]
               PROVE  m = n <=> Append(p, a) = q
    BY PathCases
  <2>1. PICK c \in L[p] : c \in ib /\ Entry(a, m) \in K[c]
    BY <1>1
  <2>2. CASE q = <<>>
    <3>1. n = ROOT_INODE
      BY <2>2 DEF Leads
    <3> QED BY <1>1, <2>2, <3>1, PathCases
  <2>3. CASE q # <<>>
    <3> DEFINE b == Name(q)
    <3>1. Parent(q) \in NamePaths /\ b \in Names /\ q = Append(Parent(q), b)
      BY <2>3, PathCases
    <3>2. PICK d \in L[Parent(q)] : d \in ib /\ Entry(b, n) \in K[d]
      BY <1>1, <3>1
    <3>3. c = d <=> p = Parent(q)
      BY <1>3, <3>1, <3>2
    <3>4. /\ Entry(a, m).name = a /\ Entry(a, m).inode_num = m
          /\ Entry(b, n).name = b /\ Entry(b, n).inode_num = n
      BY EntryIs
    <3>5. ASSUME m = n PROVE Append(p, a) = q
      BY <2>1, <3>1, <3>2, <3>3, <3>4, <3>5 DEF Forest
    <3>6. ASSUME Append(p, a) = q PROVE m = n
      <4>1. p = Parent(q) /\ a = b
        BY <3>6, PathCases
      <4> QED BY <2>1, <3>2, <3>3, <3>4, <4>1 DEF Forest
    <3> QED BY <3>5, <3>6
  <2> QED BY <2>2, <2>3
<1>4. NamePaths \subseteq S
  <2> HIDE DEF S
  <2> QED BY <1>2, <1>3, AppendInduction DEF NamePaths
<1> QED BY <1>4

\* With the same listings the paths lead where they led.
LEMMA SamePaths ==
    ASSUME NEW ib, NEW K, NEW L, Leads(ib, K, L), NEW K2, NEW L2, Leads(ib, K2, L2),
           \A d \in ib : K2[d] = K[d]
    PROVE  L2 = L
<1> DEFINE S == {q \in NamePaths : L2[q] = L[q]}
<1>1. <<>> \in S
  BY PathCases DEF Leads
<1>2. ASSUME NEW q \in NamePaths, q \in S, NEW a \in Names
      PROVE  Append(q, a) \in S
  <2>1. L[q] \subseteq ib /\ L2[q] = L[q]
    BY <1>2 DEF Leads
  <2>2. L2[Append(q, a)] = {c \in ib : \E d \in L[q] : Entry(a, c) \in K2[d]}
    BY <2>1 DEF Leads
  <2>3. L[Append(q, a)] = {c \in ib : \E d \in L[q] : Entry(a, c) \in K[d]}
    BY DEF Leads
  <2>4. \A c \in ib : (\E d \in L[q] : Entry(a, c) \in K2[d])
                        <=> (\E d \in L[q] : Entry(a, c) \in K[d])
    BY <2>1
  <2>5. L2[Append(q, a)] = L[Append(q, a)]
    BY <2>2, <2>3, <2>4
  <2> QED BY <2>5, PathCases
<1>3. NamePaths \subseteq S
  <2> HIDE DEF S
  <2> QED BY <1>1, <1>2, AppendInduction DEF NamePaths
<1>4. L \in [NamePaths -> SUBSET ib] /\ L2 \in [NamePaths -> SUBSET ib]
  BY DEF Leads
<1> QED BY <1>3, <1>4

\* A new entry for a new inode that has none, and the paths after it.
AddsPath(ib, K, L, path, parent, new, K2, L2) ==
    /\ path \in NamePaths /\ path # <<>> /\ parent \in L[Parent(path)] /\ L[path] = {}
    /\ new \notin ib /\ K2[new] = {}
    /\ K2[parent] = K[parent] \cup {Entry(Name(path), new)}
    /\ \A d \in ib \ {parent} : K2[d] = K[d]
    /\ Leads(ib \cup {new}, K2, L2)

\* A new entry for a new inode without entries adds the path to it, only.
LEMMA PathAdded ==
    ASSUME NEW ib, NEW K, NEW L, Forest(ib, K), Leads(ib, K, L),
           NEW path, NEW parent, NEW new, NEW K2, NEW L2,
           AddsPath(ib, K, L, path, parent, new, K2, L2)
    PROVE  /\ \A n : n \in L2[path] <=> n = new
           /\ \A q \in NamePaths : q # path => L2[q] = L[q]
<1> DEFINE S == {q \in NamePaths : L2[q] = IF q = path THEN {new} ELSE L[q]}
<1> USE DEF AddsPath
<1>1. \A q \in NamePaths : L[q] \subseteq ib
  BY DEF Leads
<1>2. Parent(path) \in NamePaths /\ Name(path) \in Names /\ parent \in ib
  BY <1>1, PathCases
<1>3. \A d \in ib : \A a : Entry(a, new) \notin K[d]
  BY EntryIs DEF Forest
<1>4. \A q \in NamePaths : \A d \in L[q] : d = parent => q = Parent(path)
  BY <1>2, PathsAreUnique
<1>5. <<>> \in S
  BY PathCases DEF Leads
<1>6. ASSUME NEW q \in NamePaths, q \in S, NEW a \in Names
      PROVE  Append(q, a) \in S
  <2> DEFINE p == Append(q, a)
  <2>1. p \in NamePaths /\ Parent(p) = q /\ Name(p) = a /\ p # <<>>
    BY PathCases
  <2>2. /\ L2[p] = {c \in ib \cup {new} : \E d \in L2[q] : Entry(a, c) \in K2[d]}
        /\ L[p] = {c \in ib : \E d \in L[q] : Entry(a, c) \in K[d]}
    BY DEF Leads
  <2>3. p = path <=> q = Parent(path) /\ a = Name(path)
    BY <2>1, PathCases
  <2> HIDE DEF p
  <2>4. CASE q = path
    <3>1. L2[q] = {new} /\ L[q] = {} /\ p # path
      BY <1>1, <1>2, <1>6, <2>2, <2>3, <2>4, PathsAreUnique
    <3> QED BY <2>1, <2>2, <3>1 DEF p
  <2>5. CASE q # path
    <3>1. L2[q] = L[q] /\ L[q] \subseteq ib
      BY <1>1, <1>6, <2>5
    <3>2. CASE q # Parent(path)
      <4>1. \A d \in L[q] : K2[d] = K[d]
        BY <1>4, <3>1, <3>2
      <4>2. L2[p] = L[p]
        BY <1>3, <2>2, <3>1, <4>1
      <4> QED BY <2>1, <2>3, <3>2, <4>2 DEF p
    <3>3. CASE q = Parent(path)
      <4>1. L[q] = {parent}
        BY <1>2, <3>3, PathsAreUnique
      <4>2. \A c : Entry(a, c) \in K2[parent] <=>
                     Entry(a, c) \in K[parent] \/ (a = Name(path) /\ c = new)
        <5> SUFFICES ASSUME NEW c
                     PROVE  Entry(a, c) \in K2[parent] <=>
                             Entry(a, c) \in K[parent] \/ (a = Name(path) /\ c = new)
          OBVIOUS
        <5>1. Entry(a, c) = Entry(Name(path), new) <=> a = Name(path) /\ c = new
          BY EntryIs
        <5> QED BY <5>1
      <4>3. CASE p = path
        <5>1. \A c \in ib : Entry(a, c) \notin K[parent]
          BY <2>2, <4>1, <4>3
        <5> QED BY <1>3, <2>1, <2>2, <2>3, <3>1, <4>1, <4>2, <4>3, <5>1 DEF p
      <4>4. CASE p # path
        <5>1. L2[p] = L[p]
          BY <1>2, <1>3, <2>2, <2>3, <3>1, <3>3, <4>1, <4>2, <4>4
        <5> QED BY <2>1, <4>4, <5>1 DEF p
      <4> QED BY <4>3, <4>4
    <3> QED BY <3>2, <3>3
  <2> QED BY <2>4, <2>5
<1>7. NamePaths \subseteq S
  <2> HIDE DEF S
  <2> QED BY <1>5, <1>6, AppendInduction DEF NamePaths
<1> QED BY <1>7

\* The entry of an inode that has none is dropped, and the paths after it.
DropsPath(ib, K, L, path, parent, file, K2, L2) ==
    /\ path \in NamePaths /\ path # <<>> /\ parent \in L[Parent(path)]
    /\ file \in ib /\ Entry(Name(path), file) \in K[parent] /\ K[file] = {}
    /\ K2[parent] = K[parent] \ {Entry(Name(path), file)}
    /\ \A d \in ib \ {file, parent} : K2[d] = K[d]
    /\ Leads(ib \ {file}, K2, L2)

\* Dropping the entry of an inode without entries drops the path to it, only.
LEMMA PathDropped ==
    ASSUME NEW ib, NEW K, NEW L, Forest(ib, K), Leads(ib, K, L),
           NEW path, NEW parent, NEW file, NEW K2, NEW L2,
           DropsPath(ib, K, L, path, parent, file, K2, L2)
    PROVE  /\ L[path] = {file}
           /\ \A q \in NamePaths : L2[q] = IF q = path THEN {} ELSE L[q]
<1> DEFINE S == {q \in NamePaths : L2[q] = IF q = path THEN {} ELSE L[q]}
<1> USE DEF DropsPath
<1>1. \A q \in NamePaths : L[q] \subseteq ib
  BY DEF Leads
<1>2. /\ Parent(path) \in NamePaths /\ Name(path) \in Names /\ parent \in ib
      /\ path = Append(Parent(path), Name(path)) /\ parent # file
  BY <1>1, PathCases
<1>3. \A q \in NamePaths : \A d \in L[q] : d = parent => q = Parent(path)
  BY <1>2, PathsAreUnique
<1>4. L[path] = {file}
  <2>1. L[Append(Parent(path), Name(path))] =
          {c \in ib : \E d \in L[Parent(path)] : Entry(Name(path), c) \in K[d]}
    BY <1>2 DEF Leads
  <2>2. file \in L[path]
    BY <1>2, <2>1
  <2> QED BY <2>2, PathsAreUnique
<1>5. \A q \in NamePaths : file \in L[q] => q = path
  BY <1>4, PathsAreUnique
<1>6. \A d \in ib : \A a : Entry(a, file) \in K[d] => d = parent /\ a = Name(path)
  <2> SUFFICES ASSUME NEW d \in ib, NEW a, Entry(a, file) \in K[d]
               PROVE  d = parent /\ a = Name(path)
    OBVIOUS
  <2>1. /\ Entry(a, file).inode_num = file /\ Entry(a, file).name = a
        /\ Entry(Name(path), file).inode_num = file /\ Entry(Name(path), file).name = Name(path)
    BY EntryIs
  <2> QED BY <1>2, <2>1 DEF Forest
<1>7. <<>> \in S
  BY PathCases DEF Leads
<1>8. ASSUME NEW q \in NamePaths, q \in S, NEW a \in Names
      PROVE  Append(q, a) \in S
  <2> DEFINE p == Append(q, a)
  <2>1. p \in NamePaths /\ Parent(p) = q /\ Name(p) = a /\ p # <<>>
    BY PathCases
  <2>2. /\ L2[p] = {c \in ib \ {file} : \E d \in L2[q] : Entry(a, c) \in K2[d]}
        /\ L[p] = {c \in ib : \E d \in L[q] : Entry(a, c) \in K[d]}
    BY DEF Leads
  <2>3. p = path <=> q = Parent(path) /\ a = Name(path)
    BY <1>2, <2>1
  <2> HIDE DEF p
  <2>4. CASE q = path
    <3>1. L2[q] = {} /\ L[q] = {file} /\ p # path
      <4>1. path # Parent(path)
        BY <1>2, <1>4
      <4> QED BY <1>4, <1>8, <2>3, <2>4, <4>1
    <3>2. L2[p] = {} /\ L[p] = {}
      BY <2>2, <3>1
    <3> QED BY <2>1, <3>1, <3>2 DEF p
  <2>5. CASE q # path
    <3>1. L2[q] = L[q] /\ L[q] \subseteq ib \ {file}
      BY <1>1, <1>5, <1>8, <2>5
    <3>2. CASE q # Parent(path)
      <4>1. \A d \in L[q] : K2[d] = K[d] /\ Entry(a, file) \notin K[d]
        BY <1>3, <1>6, <3>1, <3>2
      <4>2. L2[p] = L[p]
        BY <2>2, <3>1, <4>1
      <4> QED BY <2>1, <2>3, <3>2, <4>2 DEF p
    <3>3. CASE q = Parent(path)
      <4>1. L[q] = {parent}
        BY <1>2, <3>3, PathsAreUnique
      <4>2. \A c : Entry(a, c) \in K2[parent] <=>
                     Entry(a, c) \in K[parent] /\ ~(a = Name(path) /\ c = file)
        <5> SUFFICES ASSUME NEW c
                     PROVE  Entry(a, c) \in K2[parent] <=>
                             Entry(a, c) \in K[parent] /\ ~(a = Name(path) /\ c = file)
          OBVIOUS
        <5>1. Entry(a, c) = Entry(Name(path), file) <=> a = Name(path) /\ c = file
          BY EntryIs
        <5> QED BY <5>1
      <4>3. CASE p = path
        <5>1. L[p] = {file} /\ a = Name(path)
          BY <1>4, <2>3, <4>3
        <5>2. \A c \in ib \ {file} : Entry(a, c) \notin K[parent]
          BY <2>2, <4>1, <5>1
        <5>3. L2[p] = {}
          BY <2>2, <3>1, <4>1, <4>2, <5>2
        <5> QED BY <2>1, <4>3, <5>3 DEF p
      <4>4. CASE p # path
        <5>1. a # Name(path)
          BY <2>3, <3>3, <4>4
        <5>2. Entry(a, file) \notin K[parent]
          BY <1>2, <1>6, <5>1
        <5>3. L2[p] = L[p]
          BY <2>2, <3>1, <4>1, <4>2, <5>1, <5>2
        <5> QED BY <2>1, <4>4, <5>3 DEF p
      <4> QED BY <4>3, <4>4
    <3> QED BY <3>2, <3>3
  <2> QED BY <2>4, <2>5
<1>9. NamePaths \subseteq S
  <2> HIDE DEF S
  <2> QED BY <1>7, <1>8, AppendInduction DEF NamePaths
<1> QED BY <1>4, <1>9

\* The listings of the directories are a forest, whatever sizes they have.
LEMMA ForestOf ==
    ASSUME NEW ib, NEW db, NEW T, NEW B, Shaped(ib, db, T, B)
    PROVE  Forest(ib, Nested(ib, T, B))
<1> DEFINE K == Nested(ib, T, B)
           D == Directories(ib, T)
<1>1. ASSUME NEW n \in ib, NEW e \in K[n]
      PROVE  n \in D /\ \E s \in LinksOf(T, B, n) : e = At(T, B, n, s)
  BY <1>1 DEF Nested, Listing, Directories
<1>2. /\ Begun(ib, T, B) /\ Linked(ib, T, B, {}) /\ Unique(ib, T, B)
      /\ Rooted(ib, T, B, {}) /\ D \subseteq ib
  BY DEF Shaped, Directories
<1> HIDE DEF K, D
<1>3. ASSUME NEW n \in ib, NEW e \in K[n]
      PROVE  /\ e = Entry(e.name, e.inode_num)
             /\ e.name \in Names /\ e.inode_num \in ib \ {ROOT_INODE}
  <2>1. PICK s \in LinksOf(T, B, n) : n \in D /\ e = At(T, B, n, s)
    BY <1>1
  <2>2. s \in Places(T[n])
    BY DEF LinksOf, Taken
  <2>3. e \in DirectoryEntry
    BY <2>1, <2>2, PlacesAreAllocated DEF Shaped
  <2>4. e = Entry(e.name, e.inode_num)
    BY <2>3 DEF DirectoryEntry, Entry
  <2>5. e.name \in Names
    BY <1>2, <2>1 DEF Begun, D
  <2>6. e.inode_num \in ib \ {ROOT_INODE}
    BY <1>2, <2>1 DEF Linked, D
  <2> QED BY <2>4, <2>5, <2>6
<1>4. ASSUME NEW c \in ib, NEW d \in ib, NEW e \in K[c], NEW f \in K[d]
      PROVE  /\ e.inode_num = f.inode_num => c = d /\ e = f
             /\ c = d /\ e.name = f.name => e = f
  <2>1. PICK s \in LinksOf(T, B, c) : c \in D /\ e = At(T, B, c, s)
    BY <1>1
  <2>2. PICK t \in LinksOf(T, B, d) : d \in D /\ f = At(T, B, d, t)
    BY <1>1
  <2> QED BY <1>2, <2>1, <2>2 DEF Unique, D
<1>5. ROOT_INODE \in ib
  BY <1>2 DEF Rooted, D
<1> QED BY <1>3, <1>4, <1>5 DEF Forest, K

-----------------------------------------------------------------------------
(* The paths of the state.                                                  *)

ChildrenIn(ib) == Nested(ib, inodes, blocks)
Children == ChildrenIn(inode_bitmap)
Reach == [q \in NamePaths |-> Lookup(q)]

\* A directory finds what it lists.
LEMMA LookupInIsListed ==
    ASSUME NEW ib, NEW db, Shape(ib, db), NEW dir \in ib, NEW name \in Names
    PROVE  LookupIn(dir, name) = {c \in ib : Entry(name, c) \in ChildrenIn(ib)[dir]}
<1>1. CASE dir \notin Directories(ib, inodes)
  BY <1>1 DEF Directories, LookupIn, ChildrenIn, Nested
<1>2. CASE dir \in Directories(ib, inodes)
  <2>1. inodes[dir].type = "DIRECTORY" /\ ChildrenIn(ib)[dir] = Listing(inodes, blocks, dir)
    BY <1>2 DEF Directories, ChildrenIn, Nested
  <2>2. LookupIn(dir, name) = {EntryAt(dir, k).inode_num : k \in Named(dir, name)}
    BY <2>1 DEF LookupIn
  <2>3. Forest(ib, ChildrenIn(ib))
    BY ForestOf DEF Shape, ChildrenIn
  <2>4. ASSUME NEW x \in LookupIn(dir, name)
        PROVE  x \in ib /\ Entry(name, x) \in ChildrenIn(ib)[dir]
    <3>1. PICK k \in Named(dir, name) : x = EntryAt(dir, k).inode_num
      BY <2>2
    <3>2. EntryAt(dir, k).name = name
      BY DEF Named, Firsts
    <3>3. /\ PlaceOf(k) \in LinksOf(inodes, blocks, dir)
          /\ EntryAt(dir, k) = At(inodes, blocks, dir, PlaceOf(k))
          /\ x \in ib
      BY <1>2, <3>1, NamedIsLinkIn
    <3>4. EntryAt(dir, k) \in ChildrenIn(ib)[dir]
      BY <2>1, <3>3 DEF Listing
    <3>5. EntryAt(dir, k) = Entry(name, x)
      BY <2>3, <3>1, <3>2, <3>4 DEF Forest
    <3> QED BY <3>3, <3>4, <3>5
  <2>5. ASSUME NEW c \in ib, Entry(name, c) \in ChildrenIn(ib)[dir]
        PROVE  c \in LookupIn(dir, name)
    <3>1. PICK s \in LinksOf(inodes, blocks, dir) : Entry(name, c) = At(inodes, blocks, dir, s)
      BY <2>1, <2>5 DEF Listing
    <3>2. s \in Taken(inodes, blocks, dir) /\ At(inodes, blocks, dir, s).name = name
      BY <3>1, EntryIs DEF LinksOf
    <3>3. LookupIn(dir, name) # {}
      BY <1>2, <3>2, NotFoundIsNotIn
    <3>4. PICK x \in LookupIn(dir, name) : TRUE
      BY <3>3
    <3>5. Entry(name, x) \in ChildrenIn(ib)[dir]
      BY <2>4
    <3>6. Entry(name, x) = Entry(name, c)
      BY <2>3, <2>5, <3>5, EntryIs DEF Forest
    <3> QED BY <3>4, <3>6, EntryIs
  <2> QED BY <2>4, <2>5
<1> QED BY <1>1, <1>2

\* lookup_path() walks along the names, in whatever its steps do not leave.
LEMMA LookupWalks ==
    ASSUME NEW V, ROOT_INODE \in V,
           \A dir \in V : \A name \in Names : LookupIn(dir, name) \subseteq V,
           NEW path \in Seq(Names)
    PROVE  /\ Lookup(path) \subseteq V
           /\ Lookup(path) = Walk({ROOT_INODE}, path)[Len(path)]
           /\ Walk({ROOT_INODE}, path)[0] = {ROOT_INODE}
           /\ \A i \in 1..Len(path) :
                Walk({ROOT_INODE}, path)[i] = Step(Walk({ROOT_INODE}, path)[i - 1], path[i])
<1> DEFINE U == SUBSET V
<1>1. {ROOT_INODE} \in U
  OBVIOUS
<1>2. \A D \in U : \A name \in Names : Step(D, name) \in U
  BY DEF Step
<1>3. Lookup(path) = Walk({ROOT_INODE}, path)[Len(path)]
  BY DEF Lookup, Walk, IsWalk, Step
<1>4. /\ Walk({ROOT_INODE}, path)[0] = {ROOT_INODE}
      /\ \A i \in 1..Len(path) :
           Walk({ROOT_INODE}, path)[i] = Step(Walk({ROOT_INODE}, path)[i - 1], path[i])
      /\ \A i \in 0..Len(path) : Walk({ROOT_INODE}, path)[i] \in U
  <2> HIDE DEF U
  <2> QED BY <1>1, <1>2, WalkIs
<1>5. Len(path) \in 0..Len(path)
  OBVIOUS
<1> QED BY <1>3, <1>4, <1>5

\* lookup_path() takes one step more for one name more.
LEMMA LookupGoesOn ==
    ASSUME NEW V, ROOT_INODE \in V,
           \A dir \in V : \A name \in Names : LookupIn(dir, name) \subseteq V,
           NEW q \in NamePaths, NEW a \in Names
    PROVE  Lookup(Append(q, a)) = Step(Lookup(q), a)
<1> DEFINE p == Append(q, a)
           n == Len(q)
           w == Walk({ROOT_INODE}, q)
           v == Walk({ROOT_INODE}, p)
           S == {i \in 0..n : v[i] = w[i]}
<1>1. /\ p \in Seq(Names) /\ q \in Seq(Names) /\ n \in Nat /\ Len(p) = n + 1
      /\ p[n + 1] = a /\ \A i \in 1..n : p[i] = q[i]
  BY DEF NamePaths
<1> HIDE DEF p
<1>2. \A path \in Seq(Names) :
        /\ Lookup(path) = Walk({ROOT_INODE}, path)[Len(path)]
        /\ Walk({ROOT_INODE}, path)[0] = {ROOT_INODE}
        /\ \A i \in 1..Len(path) :
             Walk({ROOT_INODE}, path)[i] = Step(Walk({ROOT_INODE}, path)[i - 1], path[i])
  BY LookupWalks
<1>3. /\ Lookup(q) = w[n] /\ w[0] = {ROOT_INODE}
      /\ \A i \in 1..n : w[i] = Step(w[i - 1], q[i])
  BY <1>1, <1>2
<1>4. /\ Lookup(p) = v[n + 1] /\ v[0] = {ROOT_INODE}
      /\ \A i \in 1..n + 1 : v[i] = Step(v[i - 1], p[i])
  BY <1>1, <1>2
<1> HIDE DEF n, w, v
<1>5. 0 \in S
  <2>1. 0 \in 0..n
    BY <1>1
  <2>2. v[0] = w[0]
    BY <1>3, <1>4, Zenon
  <2> QED BY <2>1, <2>2
<1>6. ASSUME NEW i \in 0..n - 1, i \in S
      PROVE  i + 1 \in S
  <2>1. i + 1 \in 1..n /\ i + 1 \in 1..n + 1 /\ i + 1 \in 0..n /\ (i + 1) - 1 = i
    BY <1>1
  <2>2. v[i + 1] = Step(v[i], p[i + 1]) /\ w[i + 1] = Step(w[i], q[i + 1])
    BY <1>3, <1>4, <2>1
  <2> QED BY <1>1, <1>6, <2>1, <2>2
<1>7. 0..n \subseteq S
  <2> HIDE DEF S
  <2> QED BY <1>1, <1>5, <1>6, InductionUpTo
<1>8. v[n] = w[n]
  BY <1>1, <1>7
<1>9. n + 1 \in 1..n + 1 /\ (n + 1) - 1 = n
  BY <1>1
<1>10. v[n + 1] = Step(v[n], p[n + 1])
  BY <1>4, <1>9
<1> QED BY <1>1, <1>3, <1>4, <1>8, <1>10 DEF p

\* The empty path leads to the root.
LEMMA RootPathLeads ==
    ASSUME NEW V, ROOT_INODE \in V,
           \A dir \in V : \A name \in Names : LookupIn(dir, name) \subseteq V
    PROVE  Lookup(<<>>) = {ROOT_INODE}
<1>1. <<>> \in Seq(Names) /\ Len(<<>>) = 0
  OBVIOUS
<1> QED BY <1>1, LookupWalks

\* One name more is one step more where directories have their shape.
LEMMA LookupAppend ==
    ASSUME NEW ib, NEW db, Shape(ib, db), NEW q \in NamePaths, NEW a \in Names
    PROVE  Lookup(Append(q, a)) = Step(Lookup(q), a)
<1>1. ROOT_INODE \in ib
  BY DEF Shape, Shaped, Rooted, Directories
<1>2. \A dir \in ib : \A name \in Names : LookupIn(dir, name) \subseteq ib
  BY LookupInIsIn
<1> QED BY <1>1, <1>2, LookupGoesOn

\* Paths lead where the listings lead, and each to one inode at most.
LEMMA PathsFollowListingsIn ==
    ASSUME NEW ib, NEW db, Shape(ib, db)
    PROVE  Forest(ib, ChildrenIn(ib)) /\ Leads(ib, ChildrenIn(ib), Reach)
<1>1. Forest(ib, ChildrenIn(ib))
  BY ForestOf DEF Shape, ChildrenIn
<1>2. \A q \in NamePaths : Lookup(q) \subseteq ib /\ Reach[q] = Lookup(q)
  BY LookupIsIn DEF Reach, NamePaths
<1>3. Reach \in [NamePaths -> SUBSET ib]
  BY <1>2 DEF Reach
<1>4. Reach[<<>>] = {ROOT_INODE}
  <2>1. <<>> \in Seq(Names) /\ Len(<<>>) = 0
    OBVIOUS
  <2>2. Lookup(<<>>) = Walk({ROOT_INODE}, <<>>)[0] /\ Walk({ROOT_INODE}, <<>>)[0] = {ROOT_INODE}
    BY <2>1, LookupIsIn
  <2> QED BY <1>2, <2>2, PathCases
<1>5. ASSUME NEW q \in NamePaths, NEW a \in Names
      PROVE  Reach[Append(q, a)] =
               {c \in ib : \E d \in Reach[q] : Entry(a, c) \in ChildrenIn(ib)[d]}
  <2>1. Reach[Append(q, a)] = UNION {LookupIn(dir, a) : dir \in Reach[q]}
    BY <1>2, LookupAppend, PathCases DEF Step
  <2>2. \A dir \in Reach[q] :
          LookupIn(dir, a) = {c \in ib : Entry(a, c) \in ChildrenIn(ib)[dir]}
    BY <1>2, LookupInIsListed
  <2> HIDE DEF Reach
  <2> QED BY <2>1, <2>2
<1> QED BY <1>1, <1>3, <1>4, <1>5 DEF Leads

\* The same between operations.
LEMMA PathsFollowListings ==
    SoundNow => Forest(inode_bitmap, Children) /\ Leads(inode_bitmap, Children, Reach)
  BY NowIsShaped, PathsFollowListingsIn DEF Children

-----------------------------------------------------------------------------
(* What the operations do to paths.                                         *)

\* The same at the end of a step.
LEMMA PathsFollowListingsThen ==
    ASSUME SoundNow'
    PROVE  (Forest(inode_bitmap, Children) /\ Leads(inode_bitmap, Children, Reach))'
<1>1. (SoundNow => Forest(inode_bitmap, Children) /\ Leads(inode_bitmap, Children, Reach))'
  BY PathsFollowListings, PTL
<1> QED BY <1>1

\* An inode that is not touched lists what it listed.
LEMMA UntouchedChildren ==
    ASSUME NEW n \in inode_bitmap, n \in inode_bitmap',
           Untouched(inodes, blocks, inodes', blocks', n)
    PROVE  Children'[n] = Children[n]
<1>1. inodes'[n].type = inodes[n].type
  BY DEF Untouched
<1>2. Listing(inodes', blocks', n) = Listing(inodes, blocks, n)
  BY UntouchedListing
<1> QED BY <1>1, <1>2 DEF Children, ChildrenIn, Nested

\* Where directories and their listings stay, the paths do.
LEMMA PathsStay ==
    ASSUME SoundNow, SoundNow', inode_bitmap' = inode_bitmap,
           \A n \in inode_bitmap : Children'[n] = Children[n]
    PROVE  Reach' = Reach
<1>1. Leads(inode_bitmap, Children, Reach)
  BY PathsFollowListings
<1>2. Leads(inode_bitmap, Children', Reach')
  BY PathsFollowListingsThen
<1> QED BY <1>1, <1>2, SamePaths

\* A name is added to the directory its parent path leads to, and no path led
\* there before.
LEMMA WhereANameIsAdded ==
    ASSUME SoundNow, NEW path \in Paths, NEW parent, CanAdd(path, parent)
    PROVE  /\ path \in NamePaths /\ path # <<>>
           /\ parent \in Reach[Parent(path)] /\ Reach[path] = {}
<1>1. path \in NamePaths /\ path # <<>>
  BY PathsAre DEF NamePaths, CanAdd
<1>2. Parent(path) \in NamePaths /\ Name(path) \in Names /\ path = Append(Parent(path), Name(path))
  BY <1>1, PathCases
<1>3. parent \in Lookup(Parent(path)) /\ LookupIn(parent, Name(path)) = {}
  BY DEF CanAdd
<1>4. Lookup(Parent(path)) \in AtMostOne
  BY <1>2, LookupIsAllocated DEF NamePaths
<1>5. Lookup(Parent(path)) = {parent}
  BY <1>3, <1>4 DEF AtMostOne
<1>6. Lookup(path) = Step({parent}, Name(path))
  BY <1>2, <1>5, NowIsShaped, LookupAppend
<1>7. Lookup(path) = {}
  BY <1>3, <1>6 DEF Step
<1> QED BY <1>1, <1>2, <1>3, <1>7 DEF Reach

\* A create that succeeds adds one path.
LEMMA CreateAddsPath ==
    ASSUME SoundNow, SoundNow', NEW path \in Paths, NEW parent, CanAdd(path, parent),
           NEW new \in Inodes \ inode_bitmap, NEW o, Complete(o),
           Adds(o, parent, Name(path), new),
           o.inodes[new].type # "DIRECTORY" \/ Listing(o.inodes, o.blocks, new) = {}
    PROVE  /\ \A n : n \in Reach'[path] <=> n = new
           /\ \A q \in NamePaths : q # path => Reach'[q] = Reach[q]
<1>1. Forest(inode_bitmap, Children) /\ Leads(inode_bitmap, Children, Reach)
  BY PathsFollowListings
<1>2. /\ inode_bitmap' = inode_bitmap \cup {new}
      /\ inodes' = o.inodes /\ blocks' = o.blocks
  BY DEF Complete, Adds
<1>3. Leads(inode_bitmap \cup {new}, Children', Reach')
  BY <1>2, PathsFollowListingsThen
<1>4. Children'[new] = {}
  BY <1>2 DEF Children, ChildrenIn, Nested
<1>5. \A d \in inode_bitmap \ {parent} : Children'[d] = Children[d]
  BY <1>2, UntouchedChildren DEF Adds, Relists
<1>6. Children'[parent] = Children[parent] \cup {Entry(Name(path), new)}
  <2>1. parent \in Directories(inode_bitmap, inodes)
    BY CanAddFacts
  <2> QED BY <1>2, <2>1 DEF Adds, Relists, Children, ChildrenIn, Nested, Directories
<1>7. /\ path \in NamePaths /\ path # <<>>
      /\ parent \in Reach[Parent(path)] /\ Reach[path] = {}
  BY WhereANameIsAdded
<1>8. AddsPath(inode_bitmap, Children, Reach, path, parent, new, Children', Reach')
  BY <1>3, <1>4, <1>5, <1>6, <1>7 DEF AddsPath
<1> QED BY <1>1, <1>8, PathAdded

\* A removal drops one path.
LEMMA RemoveDropsPath ==
    ASSUME SoundNow, SoundNow', NEW path \in Paths, path # <<>>,
           NEW parent \in Directories(inode_bitmap, inodes), parent \in Lookup(Parent(path)),
           NEW file, inodes[file].type # "DIRECTORY",
           Entry(Name(path), file) \in Listing(inodes, blocks, parent),
           NEW o, Complete(o), Drops(o, parent, Name(path), file)
    PROVE  /\ file \in inode_bitmap /\ Reach[path] = {file}
           /\ \A q \in NamePaths : Reach'[q] = IF q = path THEN {} ELSE Reach[q]
<1>1. Forest(inode_bitmap, Children) /\ Leads(inode_bitmap, Children, Reach)
  BY PathsFollowListings
<1>2. /\ inode_bitmap' = inode_bitmap \ {file}
      /\ inodes' = o.inodes /\ blocks' = o.blocks
  BY DEF Complete, Drops
<1>3. Leads(inode_bitmap \ {file}, Children', Reach')
  BY <1>2, PathsFollowListingsThen
<1>4. path \in NamePaths /\ Parent(path) \in NamePaths /\ parent \in Reach[Parent(path)]
  <2>1. path \in NamePaths
    BY PathsAre DEF NamePaths
  <2> QED BY <2>1, PathCases DEF Reach
<1>5. parent \in inode_bitmap /\ inodes[parent].type = "DIRECTORY" /\ parent # file
  BY DEF Directories
<1>6. Entry(Name(path), file) \in Children[parent]
  BY <1>5 DEF Children, ChildrenIn, Nested
<1>7. file \in inode_bitmap
  BY <1>1, <1>5, <1>6, EntryIs DEF Forest
<1>8. Children[file] = {}
  BY <1>7 DEF Children, ChildrenIn, Nested
<1>9. \A d \in inode_bitmap \ {file, parent} : Children'[d] = Children[d]
  BY <1>2, UntouchedChildren DEF Drops, Relists
<1>10. Children'[parent] = Children[parent] \ {Entry(Name(path), file)}
  BY <1>2, <1>5 DEF Drops, Relists, Children, ChildrenIn, Nested
<1>11. DropsPath(inode_bitmap, Children, Reach, path, parent, file, Children', Reach')
  BY <1>3, <1>4, <1>6, <1>7, <1>8, <1>9, <1>10 DEF DropsPath
<1> QED BY <1>1, <1>7, <1>11, PathDropped

-----------------------------------------------------------------------------
(* The contents of files.                                                   *)

Cell(inode, B, p) == B[inode.direct_blocks[p \div BlockSize]].cells[p % BlockSize]

\* The states of a write that began at `from': up to the offset the cells
\* have the value, the others are as they were.
Writing(file, from, size, value) ==
    {w \in Going(file) :
        /\ from <= w.offset /\ w.offset + w.left = from + size
        /\ w.inode.size = Grown(inodes[file].size, w.offset)
        /\ \A p \in 0..w.inode.size - 1 :
             Cell(w.inode, w.data, p) =
               IF from <= p /\ p < w.offset THEN value ELSE Cell(inodes[file], blocks, p)}

\* A cell within the blocks of an inode.
LEMMA CellIsInside ==
    ASSUME NEW inode \in Inode, NEW size \in Nat, size <= inode.blocks_used * BlockSize,
           NEW p \in 0..size - 1
    PROVE  /\ p \div BlockSize \in Indices(inode) /\ p % BlockSize \in 0..BlockSize - 1
           /\ p = (p \div BlockSize) * BlockSize + (p % BlockSize)
<1> DEFINE u == inode.blocks_used
<1>1. u \in Nat
  BY InodeFields
<1> HIDE DEF u
<1>2. p \in Nat /\ BlockSize \in Nat /\ BlockSize > 0 /\ u * BlockSize \in Nat
  BY <1>1
<1>3. p \in 0..u * BlockSize - 1
  BY <1>2 DEF u
<1>4. p \div BlockSize \in 0..u - 1
  BY <1>1, <1>2, <1>3, Division
<1> QED BY <1>2, <1>4, Division DEF Indices, u

\* A turn that gets a block leaves the others, and everything else.
LEMMA EnsuredIs ==
    ASSUME NEW w \in WriteState, NEW index, NEW r \in Ensured(w, index)
    PROVE  /\ r.offset = w.offset /\ r.left = w.left /\ r.data = w.data
           /\ r.order = w.order
           /\ r.inode.size = w.inode.size
           /\ Indices(w.inode) \subseteq Indices(r.inode)
           /\ \A i \in Indices(w.inode) : r.inode.direct_blocks[i] = w.inode.direct_blocks[i]
<1>1. CASE index < w.inode.blocks_used
  BY <1>1 DEF Ensured
<1>2. CASE ~(index < w.inode.blocks_used)
  <2>1. PICK b \in FreeBit(w.used, NumBlocks) :
          /\ index < DirectBlocks
          /\ r = [w EXCEPT !.inode.direct_blocks[index] = b,
                           !.inode.blocks_used = @ + 1,
                           !.used = @ \cup {b}]
    BY <1>2, Zenon DEF Ensured
  <2>2. index \notin Indices(w.inode)
    <3>1. w.inode \in Inode
      BY WriteStateFields
    <3>2. w.inode.blocks_used \in 0..DirectBlocks
      BY <3>1, InodeFields
    <3> QED BY <1>2, <3>2 DEF Indices
  <2>3. /\ w.inode \in Inode /\ Indices(w.inode) \subseteq 0..DirectBlocks - 1
        /\ w.inode.direct_blocks \in [0..DirectBlocks - 1 -> Blocks \cup {INVALID_BLOCK}]
    BY WriteStateFields, InodeFields
  <2>4. w.inode.blocks_used \in Nat /\ r.inode.blocks_used = w.inode.blocks_used + 1
    <3>1. w.inode.blocks_used \in Nat
      BY <2>3, InodeFields
    <3> QED BY <2>1, <3>1 DEF WriteState, Inode
  <2>5. Indices(w.inode) \subseteq Indices(r.inode)
    BY <2>4 DEF Indices
  <2> QED BY <2>1, <2>2, <2>3, <2>5 DEF WriteState, Inode
<1> QED BY <1>1, <1>2

\* A turn that fills a block leaves the others.
LEMMA FilledIs ==
    ASSUME NEW w \in WriteState, NEW value \in Values,
           NEW b, b = w.inode.direct_blocks[w.offset \div BlockSize], b \in Blocks,
           NEW chunk, chunk = IF w.left < BlockSize - (w.offset % BlockSize)
                              THEN w.left ELSE BlockSize - (w.offset % BlockSize)
    PROVE  LET x == Filled(w, value)
               within == w.offset % BlockSize
           IN  /\ x.offset = w.offset + chunk /\ x.left = w.left - chunk
               /\ x.inode.size = Grown(w.inode.size, w.offset + chunk)
               /\ x.inode.direct_blocks = w.inode.direct_blocks
               /\ \A c \in Blocks : c # b => x.data[c] = w.data[c]
               /\ x.data[b].cells = Merged(w.data[b].cells, within..within + chunk - 1, value)
<1> DEFINE x == Filled(w, value)
           within == w.offset % BlockSize
           block == Cells(Merged(w.data[b].cells, within..within + chunk - 1, value))
           size == Grown(w.inode.size, w.offset + chunk)
<1>1. x = [w EXCEPT !.data = With(w.data, b, block),
                    !.offset = w.offset + chunk,
                    !.left = w.left - chunk,
                    !.order = Append(w.order, BlockWrite(b)),
                    !.inode = Resized(w.inode, size)]
  BY ZenonT(30) DEF Filled, With, Resized
<1>2. block.cells = Merged(w.data[b].cells, within..within + chunk - 1, value)
  BY DEF Cells
<1>3. w.data \in [Blocks -> Block] /\ w.inode \in Inode
  BY WriteStateFields DEF Disk
<1> HIDE DEF block, size, within
<1>4. /\ x.offset = w.offset + chunk /\ x.left = w.left - chunk
      /\ x.inode = Resized(w.inode, size) /\ x.data = With(w.data, b, block)
  BY <1>1 DEF WriteState
<1>5. x.inode.size = size /\ x.inode.direct_blocks = w.inode.direct_blocks
  BY <1>3, <1>4 DEF Resized, Inode
<1>6. With(w.data, b, block)[b] = block /\ \A c \in Blocks : c # b => With(w.data, b, block)[c] = w.data[c]
  BY <1>3 DEF With
<1> QED BY <1>2, <1>4, <1>5, <1>6 DEF size, within

\* It notes the write of that block.
LEMMA FilledNotes ==
    ASSUME NEW w \in WriteState, NEW value
    PROVE  /\ Filled(w, value).order =
                Append(w.order, BlockWrite(w.inode.direct_blocks[w.offset \div BlockSize]))
           /\ Filled(w, value).inode.blocks_used = w.inode.blocks_used
<1> DEFINE x == Filled(w, value)
           b == w.inode.direct_blocks[w.offset \div BlockSize]
<1> DEFINE within == w.offset % BlockSize
           chunk == IF w.left < BlockSize - within THEN w.left ELSE BlockSize - within
           block == Cells(Merged(w.data[b].cells, within..within + chunk - 1, value))
           size == Grown(w.inode.size, w.offset + chunk)
<1>1. x = [w EXCEPT !.data = With(w.data, b, block),
                    !.offset = w.offset + chunk,
                    !.left = w.left - chunk,
                    !.order = Append(w.order, BlockWrite(b)),
                    !.inode = Resized(w.inode, size)]
  BY Zenon DEF Filled, With, Resized
<1>2. w.inode \in Inode
  BY WriteStateFields
<1> HIDE DEF x, b, block, size, chunk, within
<1>3. x.inode = Resized(w.inode, size) /\ x.order = Append(w.order, BlockWrite(b))
  BY <1>1 DEF WriteState
<1>4. x.inode.blocks_used = w.inode.blocks_used
  BY <1>2, <1>3 DEF Resized, Inode
<1> QED BY <1>3, <1>4 DEF x, b

\* Where a write has got, in its own file.
LEMMA WritingFacts ==
    ASSUME SoundNow, NEW file \in inode_bitmap, inodes[file].type = "REGULAR",
           NEW from \in Nat, NEW size \in Nat, NEW value, NEW w \in Writing(file, from, size, value)
    PROVE  /\ w \in Going(file) /\ w \in WriteState
           /\ w.inode \in Inode /\ w.offset \in Nat /\ w.left \in Nat
           /\ w.inode.size \in Nat /\ inodes[file].size \in Nat
           /\ w.offset <= w.inode.size
           /\ w.inode.size <= w.inode.blocks_used * BlockSize
           /\ \A p \in 0..w.inode.size - 1 :
                /\ p \div BlockSize \in Indices(w.inode) /\ p % BlockSize \in 0..BlockSize - 1
                /\ p = (p \div BlockSize) * BlockSize + (p % BlockSize)
<1>1. w \in Going(file) /\ w \in WriteState
  BY DEF Writing, Going
<1>2. w.inode \in Inode /\ w.offset \in Nat /\ w.left \in Nat
  BY <1>1, WriteStateFields
<1>3. inodes[file] \in Inode
  BY DirectoryFacts
<1>4. w.inode.size \in Nat /\ inodes[file].size \in Nat
  BY <1>2, <1>3, InodeFields
<1>5. w.offset <= w.inode.size
  BY <1>1 DEF Going
<1>6. w.inode.size <= w.inode.blocks_used * BlockSize
  BY <1>1, GoingFile
<1> QED BY <1>1, <1>2, <1>4, <1>5, <1>6, CellIsInside

\* Getting a block writes nothing.
LEMMA EnsuredWrites ==
    ASSUME SoundNow, NEW file \in inode_bitmap, inodes[file].type = "REGULAR",
           NEW from \in Nat, NEW size \in Nat, NEW value, NEW w \in Writing(file, from, size, value),
           NEW r \in Ensured(w, w.offset \div BlockSize)
    PROVE  r \in Writing(file, from, size, value)
<1>1. /\ w \in Going(file) /\ w \in WriteState
      /\ \A p \in 0..w.inode.size - 1 : p \div BlockSize \in Indices(w.inode)
  BY WritingFacts
<1>2. r \in Going(file)
  BY <1>1, EnsuredKeeps
<1>3. /\ r.offset = w.offset /\ r.left = w.left /\ r.data = w.data
      /\ r.inode.size = w.inode.size
      /\ \A i \in Indices(w.inode) : r.inode.direct_blocks[i] = w.inode.direct_blocks[i]
  BY <1>1, EnsuredIs
<1>4. \A p \in 0..r.inode.size - 1 : Cell(r.inode, r.data, p) = Cell(w.inode, w.data, p)
  BY <1>1, <1>3 DEF Cell
<1> QED BY <1>2, <1>3, <1>4 DEF Writing

\* A file grows to an offset beyond its end.
LEMMA GrownIs ==
    ASSUME NEW s \in Nat, NEW offset \in Nat, NEW more \in Nat
    PROVE  /\ Grown(s, offset) \in Nat /\ Grown(s, offset) \in {s, offset}
           /\ s <= Grown(s, offset) /\ offset <= Grown(s, offset)
           /\ Grown(Grown(s, offset), offset + more) = Grown(s, offset + more)
  BY DEF Grown

\* A turn writes the value to the cells it moves the offset past.
LEMMA FilledWrites ==
    ASSUME SoundNow, NEW file \in inode_bitmap, inodes[file].type = "REGULAR",
           NEW from \in Nat, NEW size \in Nat, NEW value \in Values,
           NEW w \in Writing(file, from, size, value),
           w.offset \div BlockSize \in Indices(w.inode)
    PROVE  Filled(w, value) \in Writing(file, from, size, value)
<1> DEFINE x == Filled(w, value)
           index == w.offset \div BlockSize
           within == w.offset % BlockSize
           chunk == IF w.left < BlockSize - within THEN w.left ELSE BlockSize - within
           b == w.inode.direct_blocks[index]
           T == With(inodes, file, w.inode)
           part == within..within + chunk - 1
<1>1. /\ w \in Going(file) /\ w \in WriteState
      /\ w.inode \in Inode /\ w.offset \in Nat /\ w.left \in Nat
      /\ w.inode.size \in Nat /\ inodes[file].size \in Nat
      /\ w.offset <= w.inode.size
      /\ w.inode.size <= w.inode.blocks_used * BlockSize
      /\ \A p \in 0..w.inode.size - 1 :
           /\ p \div BlockSize \in Indices(w.inode) /\ p % BlockSize \in 0..BlockSize - 1
           /\ p = (p \div BlockSize) * BlockSize + (p % BlockSize)
  BY WritingFacts
<1>2. x \in Going(file)
  BY <1>1, FilledKeeps
<1>3. /\ T[file] = w.inode /\ Sound(inode_bitmap, w.used, T, w.data, {})
  BY <1>1, GoingFile DEF Going
<1>4. /\ \A i \in Indices(w.inode) : w.inode.direct_blocks[i] \in Blocks
      /\ \A i, j \in Indices(w.inode) : w.inode.direct_blocks[i] = w.inode.direct_blocks[j] => i = j
  <2>1. \A i \in Indices(T[file]) : T[file].direct_blocks[i] \in Blocks
    <3> HIDE DEF T
    <3> QED BY <1>3, PlacesAreAllocated DEF Sound
  <2>2. \A i, j \in Indices(T[file]) : T[file].direct_blocks[i] = T[file].direct_blocks[j] => i = j
    <3> HIDE DEF T
    <3> QED BY <1>3 DEF Sound, Accounted
  <2> QED BY <1>3, <2>1, <2>2
<1>5. b \in Blocks
  BY <1>4
<1>6. /\ x.offset = w.offset + chunk /\ x.left = w.left - chunk
      /\ x.inode.size = Grown(w.inode.size, w.offset + chunk)
      /\ x.inode.direct_blocks = w.inode.direct_blocks
      /\ \A c \in Blocks : c # b => x.data[c] = w.data[c]
      /\ x.data[b].cells = Merged(w.data[b].cells, part, value)
  <2> HIDE DEF x, b, chunk
  <2> QED BY <1>1, <1>5, FilledIs, SMTT(30) DEF x, b, chunk
<1>7. BlockSize \in Nat /\ BlockSize > 0 /\ index \in Nat /\ within \in 0..BlockSize - 1
      /\ w.offset = index * BlockSize + within
  <2>1. BlockSize \in Nat /\ BlockSize > 0
    OBVIOUS
  <2>2. w.offset \in Nat
    BY <1>1
  <2> QED BY <2>1, <2>2, Division
<1> HIDE DEF x, T, index, within
<1>8. chunk \in Nat /\ chunk <= w.left /\ within + chunk <= BlockSize
  BY <1>1, <1>7
<1> HIDE DEF chunk, b
<1>9. /\ w.offset \in Nat /\ w.left \in Nat /\ w.inode.size \in Nat
      /\ w.offset <= w.inode.size
      /\ x.offset = w.offset + chunk /\ x.left = w.left - chunk
      /\ x.inode.size = Grown(w.inode.size, w.offset + chunk)
      /\ from <= w.offset /\ w.offset + w.left = from + size
  BY <1>1, <1>6 DEF Writing
<1>10. x.inode.size = Grown(inodes[file].size, x.offset)
  <2>1. w.inode.size = Grown(inodes[file].size, w.offset) /\ inodes[file].size \in Nat
    BY <1>1 DEF Writing
  <2> QED BY <1>8, <1>9, <2>1, GrownIs
<1>11. ASSUME NEW p \in 0..x.inode.size - 1
       PROVE  /\ p \in Nat
              /\ p \in 0..w.inode.size - 1 \/ (w.offset <= p /\ p < w.offset + chunk)
  <2>1. p \in Nat
    OBVIOUS
  <2>2. w.offset + chunk \in Nat
    BY <1>8, <1>9
  <2>3. x.inode.size \in Nat /\ x.inode.size \in {w.inode.size, w.offset + chunk}
    BY <1>8, <1>9, <2>2, GrownIs
  <2>4. p < x.inode.size
    BY <2>1, <2>3
  <2> QED BY <1>9, <2>1, <2>2, <2>3, <2>4
<1>12. ASSUME NEW p \in 0..x.inode.size - 1
       PROVE  Cell(x.inode, x.data, p) =
                IF from <= p /\ p < x.offset THEN value ELSE Cell(inodes[file], blocks, p)
  <2> DEFINE i == p \div BlockSize
             j == p % BlockSize
  <2>1. /\ i \in Nat /\ j \in 0..BlockSize - 1 /\ p = i * BlockSize + j /\ p \in Nat
    BY <1>7, <1>11, Division
  <2>2. p \in 0..w.inode.size - 1 \/ (w.offset <= p /\ p < w.offset + chunk)
    BY <1>11
  <2>3. Cell(x.inode, x.data, p) = x.data[w.inode.direct_blocks[i]].cells[j]
    BY <1>6 DEF Cell
  <2>4. p \in 0..w.inode.size - 1 =>
          /\ i \in Indices(w.inode)
          /\ Cell(w.inode, w.data, p) =
               IF from <= p /\ p < w.offset THEN value ELSE Cell(inodes[file], blocks, p)
    <3> HIDE DEF i
    <3>1. p \in 0..w.inode.size - 1 => i \in Indices(w.inode)
      BY <1>1 DEF i
    <3>2. \A q \in 0..w.inode.size - 1 : Cell(w.inode, w.data, q) =
            IF from <= q /\ q < w.offset THEN value ELSE Cell(inodes[file], blocks, q)
      BY DEF Writing
    <3> QED BY <3>1, <3>2
  <2>5. Cell(w.inode, w.data, p) = w.data[w.inode.direct_blocks[i]].cells[j]
    BY DEF Cell
  <2> HIDE DEF i, j
  <2>6. CASE w.offset <= p /\ p < w.offset + chunk
    <3>1. i = index /\ j \in part
      <4>1. within \in Nat /\ w.offset = index * BlockSize + within
        BY <1>7
      <4>2. p - index * BlockSize \in within..within + chunk - 1
        BY <1>7, <1>8, <2>1, <2>6
      <4> DEFINE k == p - index * BlockSize
      <4>3. k \in 0..BlockSize - 1 /\ p = index * BlockSize + k
        BY <1>7, <1>8, <2>1, <4>2
      <4> HIDE DEF k
      <4>4. index = p \div BlockSize /\ k = p % BlockSize
        BY <1>7, <2>1, <4>3, Division
      <4> QED BY <4>2, <4>4 DEF k, i, j
    <3>2. Cell(x.inode, x.data, p) = value
      BY <1>6, <2>1, <2>3, <3>1 DEF Merged, b
    <3> QED BY <1>8, <1>9, <2>1, <2>6, <3>2
  <2>7. CASE ~(w.offset <= p /\ p < w.offset + chunk)
    <3>1. p \in 0..w.inode.size - 1 /\ i \in Indices(w.inode)
      BY <2>2, <2>4, <2>7
    <3>2. (from <= p /\ p < x.offset) <=> (from <= p /\ p < w.offset)
      BY <1>8, <1>9, <2>1, <2>7
    <3>3. Cell(x.inode, x.data, p) = Cell(w.inode, w.data, p)
      <4>1. CASE i = index
        <5>1. j \notin part
          BY <1>7, <1>8, <2>1, <2>7, <4>1
        <5> QED BY <1>6, <2>1, <2>3, <2>5, <4>1, <5>1 DEF Merged, b
      <4>2. CASE i # index
        <5>1. w.inode.direct_blocks[i] \in Blocks /\ w.inode.direct_blocks[i] # b
          BY <1>4, <3>1, <4>2 DEF b, index
        <5> QED BY <1>6, <2>3, <2>5, <5>1
      <4> QED BY <4>1, <4>2
    <3> QED BY <2>4, <3>1, <3>2, <3>3
  <2> QED BY <2>6, <2>7
<1>13. from <= x.offset /\ x.offset + x.left = from + size
  BY <1>8, <1>9
<1> QED BY <1>2, <1>10, <1>12, <1>13 DEF Writing, x

\* A turn of write_file(), and the whole loop.
LEMMA TurnWrites ==
    ASSUME SoundNow, NEW file \in inode_bitmap, inodes[file].type = "REGULAR",
           NEW from \in Nat, NEW size \in Nat, NEW value \in Values,
           NEW w \in Writing(file, from, size, value)
    PROVE  Turn(w, value) \in Writing(file, from, size, value)
<1> DEFINE room == Ensured(w, w.offset \div BlockSize)
           filled == {Filled(r, value) : r \in room}
           V == Writing(file, from, size, value)
<1>1. ASSUME NEW r \in room
      PROVE  Filled(r, value) \in V
  <2>1. r \in V /\ w \in Going(file)
    BY EnsuredWrites, WritingFacts
  <2>2. r.offset \div BlockSize \in Indices(r.inode)
    BY <2>1, EnsuredKeeps
  <2> QED BY <2>1, <2>2, FilledWrites
<1>2. CASE w.left = 0 \/ room = {}
  BY <1>2 DEF Turn
<1>3. CASE ~(w.left = 0 \/ room = {})
  <2>1. Turn(w, value) = CHOOSE x \in filled : TRUE
    BY <1>3 DEF Turn
  <2>2. filled # {} /\ filled \subseteq V
    BY <1>1, <1>3
  <2> HIDE DEF filled, V
  <2>3. (CHOOSE x \in filled : TRUE) \in filled
    BY <2>2
  <2> QED BY <2>1, <2>2, <2>3 DEF V
<1> QED BY <1>2, <1>3

-----------------------------------------------------------------------------
(* What a step does to the files, whatever the operation.                   *)

\* Nothing that is allocated differs, and nothing else is allocated.
Undisturbed ==
    /\ inode_bitmap' = inode_bitmap /\ Reach' = Reach
    /\ \A n \in inode_bitmap : Untouched(inodes, blocks, inodes', blocks', n)

\* Of these inodes directory dir alone may differ.
AllBut(dir, S) ==
    /\ dir \in S /\ inodes[dir].type = "DIRECTORY" /\ inodes'[dir].type = "DIRECTORY"
    /\ \A n \in S \ {dir} : Untouched(inodes, blocks, inodes', blocks', n)

\* A path leads to a new inode: an empty file, or a directory.
Gained(path, new) ==
    /\ path \in Paths \ {<<>>} /\ new \in Inodes \ inode_bitmap
    /\ inode_bitmap' = inode_bitmap \cup {new}
    /\ inodes'[new] = NewInode("REGULAR") \/ inodes'[new].type = "DIRECTORY"
    /\ Reach[path] = {}
    /\ \A n : n \in Reach'[path] <=> n = new
    /\ \A q \in NamePaths : q # path => Reach'[q] = Reach[q]
    /\ \E dir \in Reach[Parent(path)] : AllBut(dir, inode_bitmap)

\* A path leads nowhere, and the file it led to is freed.
Lost(path, file) ==
    /\ path \in Paths \ {<<>>} /\ file \in inode_bitmap /\ Removable(file)
    /\ inode_bitmap' = inode_bitmap \ {file}
    /\ Reach[path] = {file}
    /\ \A q \in NamePaths : Reach'[q] = IF q = path THEN {} ELSE Reach[q]
    /\ \E dir : AllBut(dir, inode_bitmap \ {file})

\* Paths in use are paths of names, and so are the paths to their parents.
LEMMA ParentIsInUse ==
    ASSUME NEW path \in Paths
    PROVE  path \in NamePaths /\ (path # <<>> => Parent(path) \in Paths)
<1>1. PICK n \in 0..MaxDepth : path \in [1..n -> Names]
  BY DEF Paths
<1>2. n \in Nat /\ path \in Seq(Names) /\ Len(path) = n
  BY <1>1
<1>3. ASSUME path # <<>> PROVE Parent(path) \in Paths
  <2>1. n >= 1
    BY <1>2, <1>3
  <2>2. Parent(path) = SubSeq(path, 1, n - 1)
    BY <1>2 DEF Parent
  <2>3. SubSeq(path, 1, n - 1) \in [1..n - 1 -> Names]
    <3> DEFINE m == n - 1
               s == SubSeq(path, 1, m)
    <3>1. m \in 0..Len(path)
      BY <1>2, <2>1
    <3> HIDE DEF m
    <3>2. s \in Seq(Names) /\ Len(s) = m
      BY <1>2, <3>1
    <3> HIDE DEF s
    <3>3. s \in [1..m -> Names]
      BY <3>2
    <3> QED BY <3>3 DEF m, s
  <2>4. n - 1 \in 0..MaxDepth
    BY <1>1, <2>1
  <2> QED BY <2>2, <2>3, <2>4 DEF Paths
<1> QED BY <1>2, <1>3 DEF NamePaths

\* A disk that is not changed at all.
LEMMA SameDiskIsUndisturbed ==
    ASSUME SoundNow, SoundNow', inode_bitmap' = inode_bitmap, inodes' = inodes, blocks' = blocks
    PROVE  Undisturbed
<1>1. \A n \in inode_bitmap : Untouched(inodes, blocks, inodes', blocks', n)
  BY DEF Untouched, Holds
<1>2. \A n \in inode_bitmap : Children'[n] = Children[n]
  BY <1>1, UntouchedChildren
<1> QED BY <1>1, <1>2, PathsStay DEF Undisturbed

\* An outcome that changes nothing.
LEMMA NothingIsUndisturbed ==
    ASSUME SoundNow, SoundNow', NEW o, Complete(o), ChangesNothing(o)
    PROVE  Undisturbed
<1>1. /\ inode_bitmap' = inode_bitmap
      /\ \A n \in inode_bitmap : Untouched(inodes, blocks, inodes', blocks', n)
  BY DEF Complete, ChangesNothing
<1>2. \A n \in inode_bitmap : Children'[n] = Children[n]
  BY <1>1, UntouchedChildren
<1> QED BY <1>1, <1>2, PathsStay DEF Undisturbed

\* A create that succeeds.
LEMMA AddsIsGained ==
    ASSUME SoundNow, SoundNow', NEW path \in Paths, NEW parent, CanAdd(path, parent),
           NEW new \in Inodes \ inode_bitmap, NEW o, Complete(o),
           Adds(o, parent, Name(path), new),
           \/ o.inodes[new] = NewInode("REGULAR")
           \/ o.inodes[new].type = "DIRECTORY" /\ Listing(o.inodes, o.blocks, new) = {}
    PROVE  Gained(path, new)
<1>1. o.inodes[new].type # "DIRECTORY" \/ Listing(o.inodes, o.blocks, new) = {}
  BY NewInodeIs
<1>2. /\ \A n : n \in Reach'[path] <=> n = new
      /\ \A q \in NamePaths : q # path => Reach'[q] = Reach[q]
  BY <1>1, CreateAddsPath
<1>3. /\ path # <<>> /\ parent \in Reach[Parent(path)] /\ Reach[path] = {}
  BY WhereANameIsAdded
<1>4. parent \in inode_bitmap /\ inodes[parent].type = "DIRECTORY"
  BY CanAddFacts DEF Directories
<1>5. AllBut(parent, inode_bitmap)
  BY <1>4 DEF AllBut, Adds, Relists, Complete
<1>6. inode_bitmap' = inode_bitmap \cup {new} /\ inodes' = o.inodes
  BY DEF Complete, Adds
<1> QED BY <1>2, <1>3, <1>5, <1>6 DEF Gained

\* create_file(): a path is gained, or the disk stays.
LEMMA CreateFileGains ==
    ASSUME SoundNow, SoundNow', NEW path \in Paths, CreateFile(path)
    PROVE  Undisturbed \/ \E new : Gained(path, new)
<1>1. PICK o \in Created(path) : Complete(o)
  BY DEF CreateFile
<1>2. \/ ChangesNothing(o)
      \/ \E parent, new :
           /\ CanAdd(path, parent) /\ new \in Inodes \ inode_bitmap
           /\ Adds(o, parent, Name(path), new)
           /\ o.inodes[new] = NewInode("REGULAR")
  BY CreatedIsSound
<1>3. CASE ChangesNothing(o)
  BY <1>1, <1>3, NothingIsUndisturbed
<1>4. ASSUME NEW parent, NEW new,
             CanAdd(path, parent), new \in Inodes \ inode_bitmap,
             Adds(o, parent, Name(path), new), o.inodes[new] = NewInode("REGULAR")
      PROVE  Gained(path, new)
  BY <1>1, <1>4, AddsIsGained
<1> QED BY <1>2, <1>3, <1>4

\* create_directory(): the same.
LEMMA CreateDirectoryGains ==
    ASSUME SoundNow, SoundNow', NEW path \in Paths, CreateDirectory(path)
    PROVE  Undisturbed \/ \E new : Gained(path, new)
<1>1. PICK o \in MadeDirectory(path) : Complete(o)
  BY DEF CreateDirectory
<1>2. \/ ChangesNothing(o)
      \/ \E parent, new :
           /\ CanAdd(path, parent) /\ new \in Inodes \ inode_bitmap
           /\ Adds(o, parent, Name(path), new)
           /\ o.inodes[new].type = "DIRECTORY"
           /\ Listing(o.inodes, o.blocks, new) = {}
  BY MadeDirectoryIsSound
<1>3. CASE ChangesNothing(o)
  BY <1>1, <1>3, NothingIsUndisturbed
<1>4. ASSUME NEW parent, NEW new,
             CanAdd(path, parent), new \in Inodes \ inode_bitmap,
             Adds(o, parent, Name(path), new),
             o.inodes[new].type = "DIRECTORY", Listing(o.inodes, o.blocks, new) = {}
      PROVE  Gained(path, new)
  BY <1>1, <1>4, AddsIsGained
<1> QED BY <1>2, <1>3, <1>4

\* remove_file(): a path is lost.
LEMMA RemoveFileLoses ==
    ASSUME SoundNow, SoundNow', NEW path \in Paths, RemoveFile(path)
    PROVE  \E file : Lost(path, file)
<1>1. PICK o \in Removed(path) : Complete(o)
  BY DEF RemoveFile
<1>2. path # <<>>
  BY DEF RemoveFile
<1>3. PICK file, parent :
        /\ Removable(file)
        /\ parent \in Lookup(Parent(path)) /\ Drops(o, parent, Name(path), file)
        /\ parent \in Directories(inode_bitmap, inodes)
        /\ Entry(Name(path), file) \in Listing(inodes, blocks, parent)
  BY <1>2, RemovedIsSound
<1>4. inodes[file].type # "DIRECTORY"
  BY <1>3 DEF Removable
<1>5. /\ file \in inode_bitmap /\ Reach[path] = {file}
      /\ \A q \in NamePaths : Reach'[q] = IF q = path THEN {} ELSE Reach[q]
  BY <1>1, <1>2, <1>3, <1>4, RemoveDropsPath
<1>6. inode_bitmap' = inode_bitmap \ {file}
  BY <1>1, <1>3 DEF Complete, Drops
<1>7. AllBut(parent, inode_bitmap \ {file})
  BY <1>1, <1>3, <1>4 DEF AllBut, Drops, Relists, Complete, Directories
<1> QED BY <1>2, <1>3, <1>5, <1>6, <1>7 DEF Lost

\* A write through a descriptor: the disk differs in file, up to the size it
\* then has, in the cells that the offset `from' was moved past.
Wrote(file, from, count, value) ==
    /\ inode_bitmap' = inode_bitmap /\ Reach' = Reach
    /\ file \in inode_bitmap
    /\ inodes[file].type = "REGULAR" /\ inodes'[file].type = "REGULAR"
    /\ inodes'[file].size = Grown(inodes[file].size, from + count)
    /\ \A p \in 0..inodes'[file].size - 1 :
         Cell(inodes'[file], blocks', p) =
           IF from <= p /\ p < from + count THEN value ELSE Cell(inodes[file], blocks, p)
    /\ \A n \in inode_bitmap \ {file} : Untouched(inodes, blocks, inodes', blocks', n)

\* write_file(): some of the cells are written, from the first on.
LEMMA WriteFileWrites ==
    ASSUME Inv, SoundNow', NEW fd, NEW size \in Nat, NEW value \in Values,
           WriteFile(fd, size, value)
    PROVE  \E count \in 0..size :
             /\ Wrote(open_files[fd].inode_num, open_files[fd].offset, count, value)
             /\ open_files' = [open_files EXCEPT ![fd].offset = open_files[fd].offset + count]
<1> DEFINE file == open_files[fd].inode_num
           from == open_files[fd].offset
           start == [inode  |-> inodes[file], data |-> blocks,
                     used   |-> data_bitmap, order |-> <<>>,
                     offset |-> from, left |-> size]
           x == Written(start, value)
<1>1. fd \in DOMAIN open_files
  BY DEF WriteFile
<1>2. PICK w \in WrittenFile(fd, size, value) :
        /\ Complete(w.outcome)
        /\ open_files' = [open_files EXCEPT ![fd].offset = w.offset]
  BY DEF WriteFile
<1>3. /\ file \in inode_bitmap /\ inodes[file].type = "REGULAR"
      /\ from <= inodes[file].size /\ from \in Nat
  BY <1>1 DEF Inv, OpenFilesAreLive, Descriptors
<1>4. /\ file \in Inodes /\ inodes \in InodeTable /\ inodes[file] \in Inode
      /\ blocks \in Disk /\ data_bitmap \in SUBSET Blocks
      /\ Sound(inode_bitmap, data_bitmap, inodes, blocks, {})
  BY <1>3 DEF Inv, SoundNow, Sound, Typed, InodeTable
<1>5. w = [outcome |-> Outcome(inode_bitmap, x.used, [inodes EXCEPT ![file] = x.inode],
                               x.data, Append(x.order, InodeWrite(file)), TRUE),
           offset  |-> x.offset]
  BY Zenon DEF WrittenFile
<1>6. /\ w.outcome.inode_bitmap = inode_bitmap
      /\ w.outcome.inodes = With(inodes, file, x.inode) /\ w.outcome.blocks = x.data
      /\ w.offset = x.offset
  <2> HIDE DEF x, file
  <2> QED BY <1>5, Zenon DEF Outcome, With
<1>7. start \in Writing(file, from, size, value)
  <2>1. <<>> \in Seq({BlockWrite(b) : b \in Blocks})
    OBVIOUS
  <2>2. With(inodes, file, inodes[file]) = inodes
    BY <1>4 DEF With, InodeTable
  <2>3. inodes[file].size \in Nat
    BY <1>4, InodeFields
  <2>4. /\ start.inode = inodes[file] /\ start.data = blocks /\ start.used = data_bitmap
        /\ start.order = <<>> /\ start.offset = from /\ start.left = size
    OBVIOUS
  <2> HIDE DEF file, from
  <2>5. start \in WriteState
    BY <1>3, <1>4, <2>1 DEF WriteState
  <2> HIDE DEF start
  <2>6. \A n \in inode_bitmap : Untouched(inodes, blocks, inodes, blocks, n)
    BY DEF Untouched, Holds
  <2>7. start \in Going(file)
    BY <1>3, <1>4, <2>2, <2>3, <2>4, <2>5, <2>6 DEF Going
  <2>8. Grown(inodes[file].size, from) = inodes[file].size
    BY <1>3, <2>3 DEF Grown
  <2>9. \A p \in Int : ~(from <= p /\ p < from)
    BY <1>3
  <2> QED BY <2>4, <2>7, <2>8, <1>3, <2>3 DEF Writing
<1> HIDE DEF start
<1>8. x \in Writing(file, from, size, value)
  <2>1. \A v \in Writing(file, from, size, value) :
          Turn(v, value) \in Writing(file, from, size, value)
    BY <1>3, TurnWrites DEF Inv
  <2> QED BY <1>7, <2>1, LoopStays
<1> HIDE DEF x
<1>9. /\ x \in Going(file) /\ x.inode \in Inode /\ x.offset \in Nat /\ x.left \in Nat
      /\ x.inode.size \in Nat
  <2> HIDE DEF file
  <2> QED BY <1>3, <1>8, WritingFacts DEF Inv
<1>10. /\ inode_bitmap' = inode_bitmap /\ inodes' = With(inodes, file, x.inode)
       /\ blocks' = x.data
  BY <1>2, <1>6 DEF Complete
<1>11. inodes'[file] = x.inode
  BY <1>4, <1>9, <1>10, TableWith
<1>12. \A n \in inode_bitmap \ {file} : Untouched(inodes, blocks, inodes', blocks', n)
  BY <1>9, <1>10 DEF Going
<1>13. x.inode.type = "REGULAR"
  BY <1>3, <1>9 DEF Going
<1>14. Reach' = Reach
  <2>1. Children'[file] = Children[file]
    BY <1>3, <1>10, <1>11, <1>13 DEF Children, ChildrenIn, Nested
  <2>2. \A n \in inode_bitmap \ {file} : Children'[n] = Children[n]
    BY <1>10, <1>12, UntouchedChildren
  <2> QED BY <1>10, <2>1, <2>2, PathsStay DEF Inv
<1> DEFINE count == x.offset - from
<1>15. count \in 0..size /\ x.offset = from + count
  <2>1. from <= x.offset /\ x.offset + x.left = from + size
    BY <1>8 DEF Writing
  <2> QED BY <1>3, <1>9, <2>1
<1>16. Wrote(file, from, count, value)
  <2>1. /\ x.inode.size = Grown(inodes[file].size, x.offset)
        /\ \A p \in 0..x.inode.size - 1 :
             Cell(x.inode, x.data, p) =
               IF from <= p /\ p < x.offset THEN value ELSE Cell(inodes[file], blocks, p)
    BY <1>8 DEF Writing
  <2>2. file \in inode_bitmap /\ inodes[file].type = "REGULAR"
    BY <1>3
  <2> HIDE DEF count, file, from
  <2> QED BY <1>10, <1>11, <1>12, <1>13, <1>14, <1>15, <2>1, <2>2 DEF Wrote
<1> QED BY <1>2, <1>6, <1>15, <1>16

\* Nothing is left but the root directory.
Formatted ==
    /\ inode_bitmap' = {ROOT_INODE}
    /\ inodes'[ROOT_INODE].type = "DIRECTORY"
    /\ Reach'[<<>>] = {ROOT_INODE}
    /\ \A q \in NamePaths : q # <<>> => Reach'[q] = {}

\* format().
LEMMA FormatIsFormatted ==
    ASSUME SoundNow', Format
    PROVE  Formatted
<1>1. inode_bitmap' = {ROOT_INODE}
  BY DEF Format
<1>2. Forest(inode_bitmap', Children') /\ Leads(inode_bitmap', Children', Reach')
  BY PathsFollowListingsThen
<1>3. inodes'[ROOT_INODE].type = "DIRECTORY"
  BY DEF SoundNow, Sound, Tree, Rooted, Directories
<1>4. ASSUME NEW q \in NamePaths, q # <<>>
      PROVE  Reach'[q] = {}
  <2>1. /\ Parent(q) \in NamePaths /\ Name(q) \in Names
        /\ q = Append(Parent(q), Name(q))
    BY <1>4, PathCases
  <2>2. Reach'[q] = {c \in inode_bitmap' :
                       \E d \in Reach'[Parent(q)] : Entry(Name(q), c) \in Children'[d]}
    BY <1>2, <2>1 DEF Leads
  <2>3. Reach'[Parent(q)] \subseteq inode_bitmap'
    BY <1>2, <2>1 DEF Leads
  <2>4. \A c : \A d \in inode_bitmap' : Entry(Name(q), c) \notin Children'[d]
    BY <1>1, <1>2 DEF Forest
  <2> QED BY <2>2, <2>3, <2>4
<1> QED BY <1>1, <1>2, <1>3, <1>4 DEF Formatted, Leads

\* mount() and a restart read back what memory had.
LEMMA MountIsUndisturbed ==
    ASSUME Inv, SoundNow', Mount \/ Restart
    PROVE  Undisturbed
<1>1. saved = [inodes |-> inode_bitmap, blocks |-> data_bitmap]
  BY DEF Inv, NothingIsUnsaved
<1>2. inode_bitmap' = inode_bitmap /\ inodes' = inodes /\ blocks' = blocks
  BY <1>1 DEF Mount, Restart
<1> QED BY <1>2, SameDiskIsUndisturbed DEF Inv

\* The kinds of steps, formatting apart.
LEMMA StepIs ==
    ASSUME ~RemovesOpenFiles, Inv, [Operation \/ Restart]_vars
    PROVE  \/ Undisturbed
           \/ \E path, new : Gained(path, new)
           \/ \E path, file : Lost(path, file)
           \/ \E file, from, count, value : Wrote(file, from, count, value)
<1>1. SoundNow /\ SoundNow'
  BY InvStep DEF Inv, Next
<1>2. ASSUME NEW path \in Paths, CreateFile(path) \/ CreateDirectory(path)
      PROVE  Undisturbed \/ \E new : Gained(path, new)
  BY <1>1, <1>2, CreateFileGains, CreateDirectoryGains
<1>3. ASSUME NEW path \in Paths, RemoveFile(path)
      PROVE  \E file : Lost(path, file)
  BY <1>1, <1>3, RemoveFileLoses
<1>4. ASSUME NEW fd, NEW size \in Sizes, NEW value \in Values, WriteFile(fd, size, value)
      PROVE  \E file, from, count : Wrote(file, from, count, value)
  BY <1>1, <1>4, WriteFileWrites
<1>5. ASSUME UNCHANGED <<memory, inodes, blocks>>
      PROVE  Undisturbed
  BY <1>1, <1>5, SameDiskIsUndisturbed DEF memory
<1>6. CASE Mount \/ Restart
  BY <1>1, <1>6, MountIsUndisturbed
<1>7. \A path : OpenFile(path) => UNCHANGED <<memory, inodes, blocks>>
  BY DEF OpenFile
<1>8. \A fd, size : ReadFile(fd, size) => UNCHANGED <<memory, inodes, blocks>>
  BY DEF ReadFile
<1>9. \A fd : CloseFile(fd) => UNCHANGED <<memory, inodes, blocks>>
  BY DEF CloseFile
<1>10. UNCHANGED vars => UNCHANGED <<memory, inodes, blocks>>
  BY DEF vars
<1> QED BY <1>2, <1>3, <1>4, <1>5, <1>6, <1>7, <1>8, <1>9, <1>10 DEF Operation

-----------------------------------------------------------------------------
(* The current directory.                                                   *)

\* A path that leads to a directory still does, formatting apart.
LEMMA DirectoryStays ==
    ASSUME ~RemovesOpenFiles, Inv, [Operation \/ Restart]_vars, NEW path \in NamePaths,
           NEW dir \in Reach[path], inodes[dir].type = "DIRECTORY"
    PROVE  \E n \in Reach'[path] : inodes'[n].type = "DIRECTORY"
<1>1. dir \in inode_bitmap
  BY PathsFollowListings DEF Inv, Leads
<1>2. \A n : Untouched(inodes, blocks, inodes', blocks', n) => inodes'[n] = inodes[n]
  BY DEF Untouched
<1>3. CASE Undisturbed
  BY <1>1, <1>2, <1>3 DEF Undisturbed
<1>4. ASSUME NEW p, NEW new, Gained(p, new)
      PROVE  dir \in Reach'[path] /\ inodes'[dir].type = "DIRECTORY"
  BY <1>1, <1>2, <1>4 DEF Gained, AllBut
<1>5. ASSUME NEW p, NEW file, Lost(p, file)
      PROVE  dir \in Reach'[path] /\ inodes'[dir].type = "DIRECTORY"
  BY <1>1, <1>2, <1>5 DEF Lost, AllBut, Removable
<1>6. ASSUME NEW file, NEW from, NEW count, NEW value, Wrote(file, from, count, value)
      PROVE  dir \in Reach'[path] /\ inodes'[dir].type = "DIRECTORY"
  BY <1>1, <1>2, <1>6 DEF Wrote
<1> QED BY <1>3, <1>4, <1>5, <1>6, StepIs

\* What normalize_path() does with one part, and the names after each part.
Pushed(q, part) ==
    CASE part = Dot    -> q
      [] part = DotDot -> StepOut(q)
      [] OTHER         -> Append(q, part)

IsStack(s, q, parts) ==
    s = [n \in 0..Len(parts) |-> IF n = 0 THEN q ELSE Pushed(s[n - 1], parts[n])]
Stack(q, parts) == CHOOSE s : IsStack(s, q, parts)

Parts == Seq(Names \cup {Dot, DotDot})
Start(arg) == IF arg.absolute THEN <<>> ELSE current_dir

\* A part turns names into names.
LEMMA PushedIs ==
    ASSUME NEW q \in NamePaths
    PROVE  /\ Pushed(q, Dot) = q /\ Pushed(q, DotDot) = Parent(q) /\ Parent(q) \in NamePaths
           /\ \A a \in Names : Pushed(q, a) = Append(q, a)
           /\ \A part \in Names \cup {Dot, DotDot} : Pushed(q, part) \in NamePaths
<1>1. Dot # DotDot /\ Dot \notin Names /\ DotDot \notin Names
  BY Numbers
<1>2. Pushed(q, Dot) = q
  BY <1>1 DEF Pushed
<1>3. Pushed(q, DotDot) = Parent(q)
  BY <1>1 DEF Pushed, StepOut
<1>4. \A a \in Names : Pushed(q, a) = Append(q, a)
  BY <1>1 DEF Pushed
<1>5. Parent(q) \in NamePaths
  <2>1. CASE q = <<>>
    BY <2>1 DEF Parent, NamePaths
  <2>2. CASE q # <<>>
    BY <2>2, PathCases
  <2> QED BY <2>1, <2>2
<1>6. ASSUME NEW part \in Names \cup {Dot, DotDot}
      PROVE  Pushed(q, part) \in NamePaths
  <2>1. CASE part = Dot
    BY <1>2, <2>1
  <2>2. CASE part = DotDot
    BY <1>3, <1>5, <2>2
  <2>3. CASE part \in Names
    BY <1>4, <2>3, PathCases
  <2> QED BY <2>1, <2>2, <2>3
<1> QED BY <1>2, <1>3, <1>4, <1>5, <1>6

\* normalize_path() goes part by part, and stays among the paths of names.
LEMMA StackIs ==
    ASSUME NEW q \in NamePaths, NEW parts \in Parts
    PROVE  /\ Stack(q, parts)[0] = q
           /\ \A i \in 1..Len(parts) :
                Stack(q, parts)[i] = Pushed(Stack(q, parts)[i - 1], parts[i])
           /\ \A i \in 0..Len(parts) : Stack(q, parts)[i] \in NamePaths
<1> DEFINE n == Len(parts)
           step == [i \in 1..n |-> [p \in NamePaths |-> Pushed(p, parts[i])]]
           s == Stack(q, parts)
<1>1. n \in Nat /\ \A i \in 1..n : parts[i] \in Names \cup {Dot, DotDot}
  BY DEF Parts
<1>2. \A i \in 1..n : \A p \in NamePaths : Pushed(p, parts[i]) \in NamePaths
  BY <1>1, PushedIs
<1>3. step \in [1..n -> [NamePaths -> NamePaths]]
  BY <1>2
<1>4. \E g : IsStack(g, q, parts)
  <2>1. \A i \in 1..n : \A p \in NamePaths : step[i][p] = Pushed(p, parts[i])
    OBVIOUS
  <2> HIDE DEF n, step
  <2>2. PICK f \in [0..n -> NamePaths] : Iterates(f, n, q, step)
    BY <1>1, <1>3, IterationExists
  <2>3. ASSUME NEW i \in 0..n
        PROVE  f[i] = IF i = 0 THEN q ELSE Pushed(f[i - 1], parts[i])
    <3>1. CASE i = 0
      BY <2>2, <3>1 DEF Iterates
    <3>2. CASE i # 0
      <4>1. i \in 1..n /\ i - 1 \in 0..n
        BY <1>1, <3>2
      <4>2. f[i - 1] \in NamePaths
        BY <4>1
      <4> QED BY <2>1, <2>2, <3>2, <4>1, <4>2 DEF Iterates
    <3> QED BY <3>1, <3>2
  <2>4. f = [i \in 0..n |-> IF i = 0 THEN q ELSE Pushed(f[i - 1], parts[i])]
    BY <2>3
  <2>5. IsStack(f, q, parts)
    BY <2>4 DEF IsStack, n
  <2> QED BY <2>5
<1>5. IsStack(s, q, parts)
  <2>1. s = CHOOSE g : IsStack(g, q, parts)
    BY DEF Stack
  <2> HIDE DEF s
  <2> QED BY <1>4, <2>1, Zenon
<1> HIDE DEF s, step
<1>6. s = [i \in 0..n |-> IF i = 0 THEN q ELSE Pushed(s[i - 1], parts[i])]
  BY <1>5 DEF IsStack
<1> HIDE DEF n
<1>7. /\ s[0] = q
      /\ \A i \in 1..n : s[i] = Pushed(s[i - 1], parts[i])
  <2>1. 0 \in 0..n /\ \A i \in 1..n : i \in 0..n /\ i # 0
    BY <1>1
  <2>2. \A i \in 0..n : s[i] = IF i = 0 THEN q ELSE Pushed(s[i - 1], parts[i])
    BY <1>6, Zenon
  <2> QED BY <2>1, <2>2
<1> DEFINE S == {i \in 0..n : s[i] \in NamePaths}
<1>8. 0 \in S
  BY <1>1, <1>7
<1>9. ASSUME NEW i \in 0..n - 1, i \in S
      PROVE  i + 1 \in S
  <2>1. i + 1 \in 1..n /\ i + 1 \in 0..n /\ (i + 1) - 1 = i
    BY <1>1
  <2>2. s[i + 1] = Pushed(s[i], parts[i + 1])
    BY <1>7, <2>1
  <2> QED BY <1>2, <1>9, <2>1, <2>2
<1>10. 0..n \subseteq S
  <2> HIDE DEF S
  <2> QED BY <1>1, <1>8, <1>9, InductionUpTo
<1> QED BY <1>7, <1>10 DEF s, n

\* The parts of what is typed, and the path it stands for.
LEMMA NormalizeIs ==
    ASSUME current_dir \in NamePaths, NEW arg \in Args
    PROVE  /\ arg.parts \in Parts /\ Start(arg) \in NamePaths
           /\ Normalize(arg) = Stack(Start(arg), arg.parts)[Len(arg.parts)]
           /\ Normalize(arg) \in NamePaths
<1>1. arg.parts \in Parts
  <2>1. arg.parts \in UNION {[1..n -> Names \cup {Dot, DotDot}] : n \in 0..ArgLength}
    BY DEF Args
  <2>2. PICK n \in 0..ArgLength : arg.parts \in [1..n -> Names \cup {Dot, DotDot}]
    BY <2>1
  <2>3. n \in Nat
    OBVIOUS
  <2> QED BY <2>2, <2>3 DEF Parts
<1>2. Start(arg) \in NamePaths
  BY PathCases DEF Start
<1>3. Normalize(arg) = Stack(Start(arg), arg.parts)[Len(arg.parts)]
  BY DEF Normalize, Stack, IsStack, Pushed, Start
<1>4. Len(arg.parts) \in 0..Len(arg.parts)
  BY <1>1 DEF Parts
<1> QED BY <1>1, <1>2, <1>3, <1>4, StackIs

\* "." leads to the directory itself, ".." to a directory that lists it; from
\* the root both lead to the root.
LEMMA DotsAre ==
    ASSUME NEW ib, NEW db, Shape(ib, db), NEW dir \in Directories(ib, inodes)
    PROVE  /\ LookupIn(dir, Dot) = {dir}
           /\ LookupIn(dir, DotDot) \subseteq ib
           /\ dir = ROOT_INODE => LookupIn(dir, DotDot) = {ROOT_INODE}
           /\ \A up \in ib : \A a : Entry(a, dir) \in ChildrenIn(ib)[up] =>
                LookupIn(dir, DotDot) = {up}
<1> DEFINE D == Directories(ib, inodes)
           dots == At(inodes, blocks, dir, <<0, 1>>)
<1>1. /\ Begun(ib, inodes, blocks) /\ Linked(ib, inodes, blocks, {})
      /\ Rooted(ib, inodes, blocks, {})
  BY DEF Shape, Shaped
<1>2. At(inodes, blocks, dir, <<0, 0>>) = Entry(Dot, dir) /\ dots.name = DotDot
  BY <1>1 DEF Begun
<1>3. <<0, 0>> \in Heads /\ <<0, 1>> \in Heads
  BY DEF Heads
<1>4. LookupIn(dir, Dot) = {dir}
  BY <1>2, <1>3, HeadIsFoundIn, EntryIs
<1>5. LookupIn(dir, DotDot) = {dots.inode_num}
  <2>1. At(inodes, blocks, dir, <<0, 1>>).name = DotDot
    BY <1>2
  <2> QED BY <1>3, <2>1, HeadIsFoundIn
<1>6. ASSUME NEW up \in D, NEW s \in LinksOf(inodes, blocks, up),
             At(inodes, blocks, up, s).inode_num = dir
      PROVE  dots = Entry(DotDot, up)
  BY <1>1, <1>6 DEF Linked
<1>7. dir = ROOT_INODE => dots.inode_num = ROOT_INODE
  BY <1>1, EntryIs DEF Rooted
<1>8. ASSUME NEW up \in ib, NEW a, Entry(a, dir) \in ChildrenIn(ib)[up]
      PROVE  dots.inode_num = up
  <2>1. up \in D /\ Entry(a, dir) \in Listing(inodes, blocks, up)
    BY <1>8 DEF ChildrenIn, Nested, Directories
  <2>2. PICK s \in LinksOf(inodes, blocks, up) : Entry(a, dir) = At(inodes, blocks, up, s)
    BY <2>1 DEF Listing
  <2>3. At(inodes, blocks, up, s).inode_num = dir
    BY <2>2, EntryIs
  <2> QED BY <1>6, <2>1, <2>3, EntryIs
<1>9. dots.inode_num \in ib
  <2>1. CASE dir = ROOT_INODE
    BY <1>7, <2>1 DEF Directories
  <2>2. CASE dir # ROOT_INODE
    <3>1. dir \in ib \ ({ROOT_INODE} \cup {})
      BY <2>2 DEF Directories
    <3>2. PICK up \in D : \E s \in LinksOf(inodes, blocks, up) :
            At(inodes, blocks, up, s).inode_num = dir
      BY <1>1, <3>1 DEF Linked
    <3>3. dots = Entry(DotDot, up)
      BY <1>6, <3>2
    <3> QED BY <3>3, EntryIs DEF Directories
  <2> QED BY <2>1, <2>2
<1> QED BY <1>4, <1>5, <1>7, <1>8, <1>9

\* The same along the path to a directory: ".." leads where one name less leads.
LEMMA DotsLead ==
    ASSUME NEW ib, NEW db, Shape(ib, db), NEW q \in NamePaths, NEW dir \in Reach[q],
           inodes[dir].type = "DIRECTORY"
    PROVE  LookupIn(dir, Dot) = Reach[q] /\ LookupIn(dir, DotDot) = Reach[Parent(q)]
<1>1. Forest(ib, ChildrenIn(ib)) /\ Leads(ib, ChildrenIn(ib), Reach)
  BY PathsFollowListingsIn
<1>2. dir \in Directories(ib, inodes)
  BY <1>1 DEF Leads, Directories
<1>3. Parent(q) \in NamePaths
  BY PushedIs
<1>4. \A p \in NamePaths : \A x \in Reach[p] : Reach[p] = {x}
  BY <1>1, PathsAreUnique
<1>5. CASE q = <<>>
  <2>1. Parent(q) = <<>>
    BY <1>5 DEF Parent
  <2>2. dir = ROOT_INODE /\ Reach[q] = {ROOT_INODE} /\ Reach[Parent(q)] = {ROOT_INODE}
    BY <1>1, <1>5, <2>1 DEF Leads
  <2> QED BY <1>2, <2>2, DotsAre
<1>6. CASE q # <<>>
  <2>1. Name(q) \in Names /\ q = Append(Parent(q), Name(q))
    BY <1>6, PathCases
  <2>2. PICK up \in Reach[Parent(q)] : Entry(Name(q), dir) \in ChildrenIn(ib)[up]
    <3> DEFINE p == Parent(q)
               a == Name(q)
    <3>1. Reach[Append(p, a)] = {c \in ib : \E d \in Reach[p] : Entry(a, c) \in ChildrenIn(ib)[d]}
      BY <1>1, <1>3, <2>1 DEF Leads
    <3>2. dir \in Reach[Append(p, a)]
      BY <2>1
    <3> HIDE DEF p, a
    <3> QED BY <3>1, <3>2 DEF p, a
  <2>3. up \in ib
    BY <1>1, <1>3 DEF Leads
  <2>4. Reach[q] = {dir} /\ Reach[Parent(q)] = {up}
    BY <1>3, <1>4
  <2>5. LookupIn(dir, Dot) = {dir} /\ LookupIn(dir, DotDot) = {up}
    BY <1>2, <2>2, <2>3, DotsAre
  <2> QED BY <2>4, <2>5
<1> QED BY <1>5, <1>6

\* Lookups stay in V, each leads to one inode at most, one name more is one step
\* more, and "." and ".." of a directory lead to itself and to its parent.
Navigable(V) ==
    /\ Lookup(<<>>) = {ROOT_INODE}
    /\ \A q \in NamePaths :
         /\ Lookup(q) \subseteq V
         /\ \A x \in Lookup(q) : Lookup(q) = {x}
         /\ \A a \in Names : Lookup(Append(q, a)) = Step(Lookup(q), a)
         /\ \A dir \in Lookup(q) : inodes[dir].type = "DIRECTORY" =>
              LookupIn(dir, Dot) = Lookup(q) /\ LookupIn(dir, DotDot) = Lookup(Parent(q))
    /\ \A dir \in V : \A part \in Names \cup {Dot, DotDot} : LookupIn(dir, part) \subseteq V

\* This is so where the directories have their shape.
LEMMA ShapeIsNavigable ==
    ASSUME NEW ib, NEW db, Shape(ib, db)
    PROVE  Navigable(ib)
<1>1. /\ Leads(ib, ChildrenIn(ib), Reach)
      /\ \A p \in NamePaths : \A x \in Reach[p] : Reach[p] = {x}
  BY PathsFollowListingsIn, PathsAreUnique
<1>2. \A p \in NamePaths : Reach[p] = Lookup(p)
  BY DEF Reach
<1>3. Lookup(<<>>) = {ROOT_INODE}
  BY <1>1, <1>2, PathCases DEF Leads
<1>4. ASSUME NEW q \in NamePaths
      PROVE  /\ Lookup(q) \subseteq ib
             /\ \A x \in Lookup(q) : Lookup(q) = {x}
             /\ \A a \in Names : Lookup(Append(q, a)) = Step(Lookup(q), a)
             /\ \A dir \in Lookup(q) : inodes[dir].type = "DIRECTORY" =>
                  LookupIn(dir, Dot) = Lookup(q) /\ LookupIn(dir, DotDot) = Lookup(Parent(q))
  <2>1. Parent(q) \in NamePaths
    BY PushedIs
  <2>2. Lookup(q) \subseteq ib /\ \A x \in Lookup(q) : Lookup(q) = {x}
    BY <1>1, <1>2 DEF Leads
  <2>3. \A a \in Names : Lookup(Append(q, a)) = Step(Lookup(q), a)
    BY LookupAppend
  <2>4. \A dir \in Reach[q] : inodes[dir].type = "DIRECTORY" =>
          LookupIn(dir, Dot) = Reach[q] /\ LookupIn(dir, DotDot) = Reach[Parent(q)]
    BY DotsLead
  <2> QED BY <1>2, <2>1, <2>2, <2>3, <2>4
<1>5. ASSUME NEW dir \in ib, NEW part \in Names \cup {Dot, DotDot}
      PROVE  LookupIn(dir, part) \subseteq ib
  <2>1. CASE inodes[dir].type # "DIRECTORY"
    BY <2>1 DEF LookupIn
  <2>2. CASE inodes[dir].type = "DIRECTORY" /\ part \in {Dot, DotDot}
    BY <2>2, DotsAre DEF Directories
  <2>3. CASE part \in Names
    BY <2>3, LookupInIsIn
  <2> QED BY <2>1, <2>2, <2>3
<1> QED BY <1>3, <1>4, <1>5 DEF Navigable

\* What is typed leads, followed on the disk, where its normalized path leads.
LEMMA FollowedAgrees ==
    ASSUME NEW U, Navigable(U), current_dir \in NamePaths, NEW arg \in Args,
           Followed(arg) # {}
    PROVE  Lookup(Normalize(arg)) = Followed(arg)
<1> DEFINE parts == arg.parts
           n == Len(parts)
           s == Stack(Start(arg), parts)
           from == IF arg.absolute THEN {ROOT_INODE} ELSE Lookup(current_dir)
           w == Walk(from, parts)
           V == SUBSET U
<1>1. /\ parts \in Parts /\ Start(arg) \in NamePaths
      /\ Normalize(arg) = s[n] /\ Normalize(arg) \in NamePaths
  BY NormalizeIs
<1>2. n \in Nat /\ \A i \in 1..n : parts[i] \in Names \cup {Dot, DotDot}
  BY <1>1 DEF Parts
<1>3. /\ s[0] = Start(arg)
      /\ \A i \in 1..n : s[i] = Pushed(s[i - 1], parts[i])
      /\ \A i \in 0..n : s[i] \in NamePaths
  BY <1>1, StackIs
<1>4. \A p \in NamePaths : Lookup(p) \subseteq U /\ \A x \in Lookup(p) : Lookup(p) = {x}
  BY DEF Navigable
<1>5. from = Lookup(Start(arg)) /\ from \in V
  <2>1. from = Lookup(Start(arg))
    BY DEF Start, Navigable
  <2> QED BY <1>1, <1>4, <2>1
<1>6. ASSUME NEW E \in V, NEW part \in Names \cup {Dot, DotDot}
      PROVE  Step(E, part) \in V
  BY DEF Step, Navigable
<1>7. /\ w[0] = from
      /\ \A i \in 1..n : w[i] = Step(w[i - 1], parts[i])
      /\ \A i \in 0..n : w[i] \in V
  <2> HIDE DEF from, V
  <2> QED BY <1>1, <1>5, <1>6, WalkIs DEF Parts
<1>8. Followed(arg) = w[n]
  BY DEF Followed, Walk, IsWalk, Step
<1> HIDE DEF w, s, from, n, parts
<1> DEFINE S == {i \in 0..n : w[i] # {} => w[i] = Lookup(s[i])}
<1>9. 0 \in S
  BY <1>2, <1>3, <1>5, <1>7
<1>10. ASSUME NEW i \in 0..n - 1, i \in S
       PROVE  i + 1 \in S
  <2>1. i + 1 \in 1..n /\ i + 1 \in 0..n /\ (i + 1) - 1 = i /\ i \in 0..n
    BY <1>2
  <2> DEFINE part == parts[i + 1]
             q == s[i]
  <2>2. /\ w[i + 1] = Step(w[i], part) /\ s[i + 1] = Pushed(q, part)
        /\ part \in Names \cup {Dot, DotDot} /\ q \in NamePaths
    BY <1>2, <1>3, <1>7, <2>1
  <2> HIDE DEF part, q
  <2> SUFFICES ASSUME w[i + 1] # {} PROVE w[i + 1] = Lookup(s[i + 1])
    BY <2>1
  <2>3. PICK dir \in w[i] : LookupIn(dir, part) # {}
    BY <2>2 DEF Step
  <2>4. inodes[dir].type = "DIRECTORY"
    BY <2>3 DEF LookupIn
  <2>5. w[i] = Lookup(q) /\ Lookup(q) = {dir}
    BY <1>4, <1>10, <2>2, <2>3 DEF q
  <2>6. w[i + 1] = LookupIn(dir, part)
    BY <2>2, <2>5 DEF Step
  <2>7. CASE part = Dot
    BY <2>2, <2>4, <2>5, <2>6, <2>7, PushedIs DEF Navigable
  <2>8. CASE part = DotDot
    <3>1. LookupIn(dir, DotDot) = Lookup(Parent(q))
      BY <2>2, <2>4, <2>5 DEF Navigable
    <3>2. s[i + 1] = Parent(q)
      BY <2>2, <2>8, PushedIs
    <3> QED BY <2>6, <2>8, <3>1, <3>2
  <2>9. CASE part \in Names
    <3>1. Lookup(Append(q, part)) = Step(Lookup(q), part)
      BY <2>2, <2>9 DEF Navigable
    <3> QED BY <2>2, <2>5, <2>9, <3>1, PushedIs
  <2> QED BY <2>2, <2>7, <2>8, <2>9
<1>11. 0..n \subseteq S
  <2> HIDE DEF S
  <2> QED BY <1>2, <1>9, <1>10, InductionUpTo
<1>12. w[n] = Lookup(s[n])
  BY <1>2, <1>8, <1>11
<1> QED BY <1>1, <1>8, <1>12

\* The invariant of a session: the current directory is one.
SessionInv ==
    /\ Inv
    /\ current_dir \in NamePaths
    /\ \E n \in Reach[current_dir] : inodes[n].type = "DIRECTORY"

\* A path leads to a directory.
LEMMA IsDirectoryIs ==
    ASSUME NEW path \in NamePaths
    PROVE  IsDirectory(path) <=> \E n \in Reach[path] : inodes[n].type = "DIRECTORY"
  BY DEF IsDirectory, Reach

\* A session starts in the root directory.
LEMMA SessionStarts == SessionInit => SessionInv
<1> SUFFICES ASSUME SessionInit PROVE SessionInv
  OBVIOUS
<1>1. Inv /\ current_dir = <<>>
  BY FirstState DEF SessionInit
<1>2. ROOT_INODE \in Reach[<<>>] /\ inodes[ROOT_INODE].type = "DIRECTORY"
  <2>1. Reach[<<>>] = {ROOT_INODE}
    BY <1>1, PathsFollowListings DEF Inv, Leads
  <2>2. inodes[ROOT_INODE].type = "DIRECTORY"
    BY <1>1 DEF Inv, SoundNow, Sound, Tree, Rooted, Directories
  <2> QED BY <2>1, <2>2
<1> QED BY <1>1, <1>2, PathCases DEF SessionInv

\* Every step of a session keeps this.
LEMMA SessionStep ==
    ASSUME ~RemovesOpenFiles, SessionInv, [Session]_cwdVars
    PROVE  SessionInv'
<1>1. [Next]_vars
  BY DEF Session, FormatHere, Leave, ChangeDirectory, cwdVars, Next
<1>2. Inv /\ Inv'
  BY <1>1, InvStep DEF SessionInv
<1>3. ASSUME [Operation \/ Restart]_vars, current_dir' = current_dir
      PROVE  SessionInv'
  <2>1. PICK dir \in Reach[current_dir] : inodes[dir].type = "DIRECTORY"
    BY DEF SessionInv
  <2>2. \E n \in Reach'[current_dir] : inodes'[n].type = "DIRECTORY"
    BY <1>2, <1>3, <2>1, DirectoryStays DEF SessionInv
  <2> QED BY <1>2, <1>3, <2>2 DEF SessionInv
<1>4. ASSUME FormatHere \/ Leave
      PROVE  SessionInv'
  <2>1. current_dir' = <<>>
    BY <1>4 DEF FormatHere, Leave
  <2>2. Leads(inode_bitmap', Children', Reach')
    BY <1>2, PathsFollowListingsThen DEF Inv
  <2>3. Reach'[<<>>] = {ROOT_INODE} /\ inodes'[ROOT_INODE].type = "DIRECTORY"
    BY <1>2, <2>2 DEF Leads, Inv, SoundNow, Sound, Tree, Rooted, Directories
  <2>4. \E n \in Reach'[current_dir'] : inodes'[n].type = "DIRECTORY"
    BY <2>1, <2>3
  <2> QED BY <1>2, <2>1, <2>4, PathCases DEF SessionInv
<1>5. ASSUME NEW arg \in Args, ChangeDirectory(arg)
      PROVE  SessionInv'
  <2>1. UNCHANGED vars /\ current_dir' = Normalize(arg) /\ IsDirectory(Normalize(arg))
    BY <1>5 DEF ChangeDirectory
  <2> DEFINE path == Normalize(arg)
  <2>2. path \in NamePaths
    BY NormalizeIs DEF SessionInv
  <2>3. PICK n \in Reach[path] : inodes[n].type = "DIRECTORY"
    <3>1. IsDirectory(path)
      BY <2>1
    <3> HIDE DEF path
    <3> QED BY <2>2, <3>1, IsDirectoryIs
  <2>4. inode_bitmap' = inode_bitmap /\ inodes' = inodes /\ blocks' = blocks
    BY <2>1 DEF vars, memory
  <2>5. Reach' = Reach
    BY <1>2, <2>4, SameDiskIsUndisturbed DEF Inv, Undisturbed
  <2>6. current_dir' = path
    BY <2>1
  <2> HIDE DEF path
  <2> QED BY <1>2, <2>2, <2>3, <2>4, <2>5, <2>6 DEF SessionInv
<1> QED BY <1>3, <1>4, <1>5 DEF Session, cwdVars, Leave

\* As long as no file is removed or formatted away while it is open, the
\* current directory exists and is a directory.
THEOREM SessionInvHolds == ASSUME ~RemovesOpenFiles PROVE SessionSpec => []SessionInv
<1>1. SessionInit => SessionInv
  BY SessionStarts
<1>2. SessionInv /\ [Session]_cwdVars => SessionInv'
  BY SessionStep
<1> QED BY <1>1, <1>2, PTL DEF SessionSpec

\* Nothing that a session does takes the current directory away: rm refuses
\* directories, and a format out of one is left out by the assumption.
THEOREM CurrentDirectoryIsAlwaysLive ==
    ASSUME ~RemovesOpenFiles PROVE SessionSpec => []CurrentDirectoryIsLive
<1>1. SessionInv => CurrentDirectoryIsLive
  BY IsDirectoryIs DEF SessionInv, CurrentDirectoryIsLive
<1> QED BY <1>1, SessionInvHolds, PTL

\* normalize_path() may work on the names alone: in every session, if the
\* entries of the disk lead somewhere along what is typed, "." and ".."
\* included, they lead where the normalized path leads.
THEOREM NormalizedPathsAlwaysAgree ==
    ASSUME ~RemovesOpenFiles PROVE SessionSpec => []NormalizedPathsAgree
<1>1. SessionInv => NormalizedPathsAgree
  BY NowIsShaped, ShapeIsNavigable, FollowedAgrees DEF SessionInv, Inv, NormalizedPathsAgree
<1> QED BY <1>1, SessionInvHolds, PTL

-----------------------------------------------------------------------------
(* The tree of files of module FileStore: what its variables stand for, and *)
(* how its actions read in terms of them.                                   *)

StoredNames == [path \in {p \in Paths : Lookup(p) # {}} |-> CHOOSE n \in Lookup(path) : TRUE]
StoredData ==
    [n \in {m \in inode_bitmap : inodes[m].type = "REGULAR"} |-> Contents(inodes[n])]
StoredOpen ==
    [fd \in DOMAIN open_files |->
       [file |-> open_files[fd].inode_num, offset |-> open_files[fd].offset]]
Stored == <<StoredNames, StoredData, StoredOpen>>

\* A new path names a new file, which is empty if it is a regular one.
LEMMA MakeReads ==
    ASSUME NEW path, NEW file \in Inodes,
           path \in DOMAIN StoredNames' \ DOMAIN StoredNames,
           Parent(path) \in DOMAIN StoredNames,
           StoredNames[Parent(path)] \notin DOMAIN StoredData,
           \A other \in DOMAIN StoredNames : StoredNames[other] # file,
           StoredNames' = [z \in DOMAIN StoredNames \cup {path} |->
                             IF z = path THEN file ELSE StoredNames[z]],
           \/ StoredData' = [z \in DOMAIN StoredData \cup {file} |->
                               IF z = file THEN <<>> ELSE StoredData[z]]
           \/ StoredData' = StoredData,
           StoredOpen' = StoredOpen
    PROVE  Store!Next
<1>1. Store!Name(path, file)
  BY Zenon DEF Store!Name, Store!Parent, Store!With, Parent, StoredNames, StoredData
<1>2. Store!MakeFile(path, file) \/ Store!MakeDirectory(path, file)
  BY <1>1, Zenon DEF Store!MakeFile, Store!MakeDirectory, Store!With, StoredData
<1>3. Store!Rename
  BY <1>2, Zenon DEF Store!Rename, StoredNames
<1> QED BY <1>3, Zenon DEF Store!Next, StoredOpen

\* A file that nobody has open loses its path and its data.
LEMMA RemoveReads ==
    ASSUME NEW path,
           path \in DOMAIN StoredNames \ DOMAIN StoredNames',
           StoredNames[path] \in DOMAIN StoredData,
           \A fd \in DOMAIN StoredOpen : StoredOpen[fd].file # StoredNames[path],
           StoredData' = [z \in DOMAIN StoredData \ {StoredNames[path]} |-> StoredData[z]],
           StoredNames' = [z \in DOMAIN StoredNames \ {path} |-> StoredNames[z]],
           StoredOpen' = StoredOpen
    PROVE  Store!Next
<1>1. Store!Remove(path)
  BY Zenon DEF Store!Remove, Store!Except, StoredNames, StoredData, StoredOpen
<1>2. Store!Rename
  BY <1>1, Zenon DEF Store!Rename, StoredNames
<1> QED BY <1>2, Zenon DEF Store!Next, StoredOpen

\* A path to a regular file is opened at offset 0.
LEMMA OpenReads ==
    ASSUME NEW path \in DOMAIN StoredNames, NEW fd \in DOMAIN StoredOpen' \ DOMAIN StoredOpen,
           StoredNames[path] \in DOMAIN StoredData,
           StoredOpen' = [z \in DOMAIN StoredOpen \cup {fd} |->
                            IF z = fd THEN [file |-> StoredNames[path], offset |-> 0]
                            ELSE StoredOpen[z]],
           StoredNames' = StoredNames, StoredData' = StoredData
    PROVE  Store!Next
<1>1. Store!Open(path, fd)
  BY Zenon DEF Store!Open, Store!With, StoredNames, StoredData, StoredOpen
<1> QED BY <1>1, Zenon DEF Store!Next, StoredNames, StoredOpen

\* A descriptor goes.
LEMMA CloseReads ==
    ASSUME NEW fd \in DOMAIN StoredOpen,
           StoredOpen' = [z \in DOMAIN StoredOpen \ {fd} |-> StoredOpen[z]],
           StoredNames' = StoredNames, StoredData' = StoredData
    PROVE  Store!Next
<1>1. Store!Close(fd)
  BY Zenon DEF Store!Close, Store!Except, StoredNames, StoredData, StoredOpen
<1> QED BY <1>1, Zenon DEF Store!Next, StoredOpen

\* An offset moves on by the size asked for, or by what is left of the file.
LEMMA ReadReads ==
    ASSUME NEW fd \in DOMAIN StoredOpen, NEW size \in Sizes, NEW rest,
           rest = Len(StoredData[StoredOpen[fd].file]) - StoredOpen[fd].offset,
           StoredOpen' = [StoredOpen EXCEPT ![fd].offset = @ + (IF size < rest THEN size ELSE rest)],
           StoredNames' = StoredNames, StoredData' = StoredData
    PROVE  Store!Next
<1>1. Store!Read(fd, size)
  BY Zenon DEF Store!Read, StoredNames, StoredData, StoredOpen
<1> QED BY <1>1, Zenon DEF Store!Next, StoredOpen

\* Part of the size asked for, or all of it, is written where the offset is.
LEMMA WriteReads ==
    ASSUME NEW fd \in DOMAIN StoredOpen, NEW size \in Sizes, NEW value \in Values,
           NEW count \in 0..size,
           StoredOpen' = [StoredOpen EXCEPT ![fd].offset = @ + count],
           StoredNames' = StoredNames,
           StoredData' = [StoredData EXCEPT ![StoredOpen[fd].file] =
                            Store!Written(@, StoredOpen[fd].offset, count, value)]
    PROVE  Store!Next
<1>1. Store!Write(fd, size, value)
  BY Zenon DEF Store!Write, Store!Overwrite, StoredNames, StoredData, StoredOpen
<1> QED BY <1>1, Zenon DEF Store!Next, StoredOpen

\* Nothing is left but the root.
LEMMA FormatReads ==
    ASSUME DOMAIN StoredOpen = {},
           StoredData' = [file \in {} |-> <<>>],
           StoredNames' = [path \in {<<>>} |-> ROOT_INODE],
           StoredOpen' = StoredOpen
    PROVE  Store!Next
<1>1. Store!Format
  BY Zenon DEF Store!Format, StoredNames, StoredData, StoredOpen
<1> QED BY <1>1, Zenon DEF Store!Next

\* The descriptors go and the files stay.
LEMMA RestartReads ==
    ASSUME StoredOpen' = [fd \in {} |-> 0],
           StoredNames' = StoredNames, StoredData' = StoredData
    PROVE  Store!Next
<1>1. Store!Restart
  BY Zenon DEF Store!Restart, StoredNames, StoredData, StoredOpen
<1> QED BY <1>1, Zenon DEF Store!Next

-----------------------------------------------------------------------------
(* What the variables of the tree of files depend on.                       *)

\* Every allocated inode is a file or a directory.
Kinds == \A n \in inode_bitmap : inodes[n].type # "NONE"

FilesOf(ib, T) == {m \in ib : T[m].type = "REGULAR"}
NamesVia(R) == [p \in {q \in Paths : R[q] # {}} |-> CHOOSE n \in R[p] : TRUE]
ContentsIn(inode, B) == [i \in 1..inode.size |-> Cell(inode, B, i - 1)]
DataIn(ib, T, B) == [n \in FilesOf(ib, T) |-> ContentsIn(T[n], B)]

\* The names depend on where paths lead, the data on files and their cells.
LEMMA StoredIs ==
    /\ StoredNames = NamesVia(Reach) /\ StoredNames' = NamesVia(Reach')
    /\ StoredData = DataIn(inode_bitmap, inodes, blocks)
    /\ StoredData' = DataIn(inode_bitmap', inodes', blocks')
<1>1. \A p \in Paths : p \in NamePaths
  BY ParentIsInUse
<1>2. StoredNames = NamesVia(Reach)
  <2>1. \A p \in Paths : Reach[p] = Lookup(p)
    BY <1>1 DEF Reach
  <2> HIDE DEF Reach
  <2>2. {p \in Paths : Lookup(p) # {}} = {q \in Paths : Reach[q] # {}}
    BY <2>1
  <2> QED BY <2>1, <2>2 DEF StoredNames, NamesVia
<1>3. (StoredNames = NamesVia(Reach))'
  BY <1>2, PTL
<1>4. StoredData = DataIn(inode_bitmap, inodes, blocks)
  BY DEF StoredData, DataIn, FilesOf, Contents, ContentsIn, Cell
<1>5. (StoredData = DataIn(inode_bitmap, inodes, blocks))'
  BY <1>4, PTL
<1>6. NamesVia(Reach)' = NamesVia(Reach')
  BY DEF NamesVia
<1>7. DataIn(inode_bitmap, inodes, blocks)' = DataIn(inode_bitmap', inodes', blocks')
  BY DEF DataIn, FilesOf, ContentsIn, Cell
<1> QED BY <1>2, <1>3, <1>4, <1>5, <1>6, <1>7

\* A path that leads somewhere is the name of the inode it leads to.
LEMMA NamesAre ==
    ASSUME SoundNow, NEW path \in Paths
    PROVE  /\ path \in DOMAIN StoredNames <=> Reach[path] # {}
           /\ \A n \in Reach[path] : StoredNames[path] = n /\ n \in inode_bitmap
<1>1. path \in NamePaths /\ Reach[path] \subseteq inode_bitmap
  BY ParentIsInUse, PathsFollowListings DEF Leads
<1>2. \A m, n \in Reach[path] : m = n
  BY <1>1, PathsFollowListings, PathsAreUnique
<1>3. path \in DOMAIN StoredNames <=> Reach[path] # {}
  BY StoredIs DEF NamesVia
<1>4. ASSUME NEW n \in Reach[path] PROVE StoredNames[path] = n
  <2>1. StoredNames[path] = CHOOSE m \in Reach[path] : TRUE
    BY <1>3, <1>4, StoredIs DEF NamesVia
  <2>2. (CHOOSE m \in Reach[path] : TRUE) \in Reach[path]
    BY <1>4
  <2> QED BY <1>2, <1>4, <2>1, <2>2
<1> QED BY <1>1, <1>3, <1>4

\* Numbered values are a sequence as long as they are many.
LEMMA LenIs ==
    ASSUME NEW n \in Nat, NEW f, DOMAIN f = 1..n, f = [i \in 1..n |-> f[i]]
    PROVE  Len(f) = n
<1> DEFINE S == {f[i] : i \in 1..n}
<1>1. f \in [1..n -> S]
  OBVIOUS
<1> HIDE DEF S
<1>2. f \in Seq(S) /\ Len(f) = n
  BY <1>1
<1> QED BY <1>2

\* The contents of a file have its size.
LEMMA ContentsAre ==
    ASSUME NEW inode \in Inode, NEW B
    PROVE  /\ inode.size \in Nat /\ Len(ContentsIn(inode, B)) = inode.size
           /\ DOMAIN ContentsIn(inode, B) = 1..inode.size
           /\ \A i \in 1..inode.size : ContentsIn(inode, B)[i] = Cell(inode, B, i - 1)
<1> DEFINE f == ContentsIn(inode, B)
           n == inode.size
<1>1. n \in Nat
  BY InodeFields
<1>2. DOMAIN f = 1..n /\ f = [i \in 1..n |-> f[i]] /\ \A i \in 1..n : f[i] = Cell(inode, B, i - 1)
  BY DEF ContentsIn
<1> HIDE DEF f, n
<1>3. Len(f) = n
  BY <1>1, <1>2, LenIs
<1> QED BY <1>1, <1>2, <1>3 DEF f, n

\* A file that is not touched has the contents it had.
LEMMA UntouchedContents ==
    ASSUME SoundNow, NEW n \in inode_bitmap, inodes[n].type = "REGULAR",
           Untouched(inodes, blocks, inodes', blocks', n)
    PROVE  ContentsIn(inodes'[n], blocks') = ContentsIn(inodes[n], blocks)
<1>1. inodes[n] \in Inode /\ inodes'[n] = inodes[n]
  BY DirectoryFacts DEF Untouched
<1>2. inodes[n].size \in Nat /\ inodes[n].size <= inodes[n].blocks_used * BlockSize
  <2>1. n \in inode_bitmap \ Directories(inode_bitmap, inodes)
    BY DEF Directories
  <2> QED BY <1>1, <2>1, InodeFields DEF SoundNow, Sound, Covered
<1>3. ASSUME NEW i \in 1..inodes[n].size
      PROVE  Cell(inodes'[n], blocks', i - 1) = Cell(inodes[n], blocks, i - 1)
  <2>1. i - 1 \in 0..inodes[n].size - 1
    BY <1>2
  <2>2. (i - 1) \div BlockSize \in Indices(inodes[n])
    BY <1>1, <1>2, <2>1, CellIsInside
  <2> QED BY <1>1, <2>2 DEF Untouched, Holds, Cell
<1> QED BY <1>1, <1>3 DEF ContentsIn

\* A new file is empty.
LEMMA NewContents == \A B : ContentsIn(NewInode("REGULAR"), B) = <<>>
<1> TAKE B
<1> DEFINE f == ContentsIn(NewInode("REGULAR"), B)
<1>1. NewInode("REGULAR").size = 0
  BY NewInodeIs
<1>2. f = [i \in {} |-> Cell(NewInode("REGULAR"), B, i - 1)]
  BY <1>1 DEF ContentsIn
<1> HIDE DEF f
<1>3. f \in Seq({}) /\ Len(f) = 0
  BY <1>2
<1>4. f = <<>>
  BY <1>3
<1> QED BY <1>4 DEF f

\* The files that are not touched have the data they had.
LEMMA DataKept ==
    ASSUME SoundNow, NEW S \in SUBSET FilesOf(inode_bitmap, inodes),
           \A n \in S : Untouched(inodes, blocks, inodes', blocks', n)
    PROVE  \A n \in S : /\ inodes'[n].type = "REGULAR"
                        /\ ContentsIn(inodes'[n], blocks') = StoredData[n]
<1> TAKE n \in S
<1>1. n \in inode_bitmap /\ inodes[n].type = "REGULAR" /\ n \in FilesOf(inode_bitmap, inodes)
  BY DEF FilesOf
<1>2. StoredData[n] = ContentsIn(inodes[n], blocks)
  BY <1>1, StoredIs DEF DataIn
<1> QED BY <1>1, <1>2, UntouchedContents DEF Untouched

\* Where nothing that is allocated differs, the tree of files is the same.
LEMMA UndisturbedStore ==
    ASSUME SoundNow, Undisturbed
    PROVE  StoredNames' = StoredNames /\ StoredData' = StoredData
<1>1. StoredNames' = StoredNames
  BY StoredIs DEF Undisturbed
<1> DEFINE S == FilesOf(inode_bitmap, inodes)
<1>2. \A n \in S : /\ inodes'[n].type = "REGULAR"
                   /\ ContentsIn(inodes'[n], blocks') = StoredData[n]
  BY DataKept DEF Undisturbed, FilesOf
<1>3. FilesOf(inode_bitmap', inodes') = S
  BY DEF Undisturbed, Untouched, FilesOf
<1> HIDE DEF S
<1>4. StoredData' = [n \in S |-> ContentsIn(inodes'[n], blocks')]
  BY <1>3, StoredIs DEF DataIn
<1>5. StoredData = [n \in S |-> StoredData[n]]
  BY StoredIs DEF DataIn, S
<1> QED BY <1>1, <1>2, <1>4, <1>5

\* A path gained is a file made, or a directory.
LEMMA GainedStore ==
    ASSUME SoundNow, NEW path, NEW new, Gained(path, new), StoredOpen' = StoredOpen
    PROVE  Store!Next
<1> DEFINE up == Parent(path)
           S == FilesOf(inode_bitmap, inodes)
<1>1. /\ path \in Paths /\ path # <<>> /\ new \in Inodes /\ new \notin inode_bitmap
      /\ inode_bitmap' = inode_bitmap \cup {new}
      /\ Reach[path] = {} /\ \A n : n \in Reach'[path] <=> n = new
      /\ \A q \in NamePaths : q # path => Reach'[q] = Reach[q]
  BY DEF Gained
<1>2. PICK dir \in Reach[up] : AllBut(dir, inode_bitmap)
  BY DEF Gained
<1>3. up \in Paths /\ path \in NamePaths /\ \A p \in Paths : p \in NamePaths
  BY <1>1, ParentIsInUse
<1>4. path \notin DOMAIN StoredNames
  BY <1>1, NamesAre
<1>5. up \in DOMAIN StoredNames /\ StoredNames[up] = dir
  BY <1>2, <1>3, NamesAre
<1>6. DOMAIN StoredData = S
  BY StoredIs DEF DataIn
<1>7. StoredNames[up] \notin DOMAIN StoredData
  BY <1>2, <1>5, <1>6 DEF AllBut, FilesOf
<1>8. DOMAIN StoredNames = {q \in Paths : Reach[q] # {}}
  BY StoredIs DEF NamesVia
<1>9. \A other \in DOMAIN StoredNames : StoredNames[other] # new
  BY <1>1, <1>8, NamesAre
<1>10. StoredNames' = [z \in DOMAIN StoredNames \cup {path} |->
                         IF z = path THEN new ELSE StoredNames[z]]
  <2>1. {q \in Paths : Reach'[q] # {}} = DOMAIN StoredNames \cup {path}
    BY <1>1, <1>3, <1>8
  <2>2. \A q \in DOMAIN StoredNames : (CHOOSE n \in Reach'[q] : TRUE) = StoredNames[q]
    BY <1>1, <1>3, <1>4, <1>8, StoredIs DEF NamesVia
  <2>3. (CHOOSE n \in Reach'[path] : TRUE) = new
    BY <1>1
  <2> DEFINE D == DOMAIN StoredNames \cup {path}
             value(q) == CHOOSE n \in Reach'[q] : TRUE
  <2>4. StoredNames' = [q \in D |-> value(q)]
    BY <2>1, StoredIs DEF NamesVia
  <2>5. \A q \in D : value(q) = IF q = path THEN new ELSE StoredNames[q]
    BY <2>2, <2>3
  <2> HIDE DEF D, value
  <2>6. StoredNames' = [z \in D |-> IF z = path THEN new ELSE StoredNames[z]]
    BY <2>4, <2>5
  <2> QED BY <2>6 DEF D
<1>11. path \in DOMAIN StoredNames'
  BY <1>10
<1>12. \A n \in S : /\ inodes'[n].type = "REGULAR"
                    /\ ContentsIn(inodes'[n], blocks') = StoredData[n]
  BY <1>2, DataKept DEF AllBut, FilesOf
<1>13. \A n \in inode_bitmap : inodes'[n].type = "REGULAR" => n \in S
  BY <1>2 DEF AllBut, Untouched, FilesOf
<1>14. new \notin S
  BY <1>1 DEF FilesOf
<1>15. CASE inodes'[new] = NewInode("REGULAR")
  <2>1. FilesOf(inode_bitmap', inodes') = S \cup {new}
    BY <1>1, <1>12, <1>13, <1>15, NewInodeIs DEF FilesOf
  <2>2. ContentsIn(inodes'[new], blocks') = <<>>
    BY <1>15, NewContents
  <2> HIDE DEF S
  <2>3. StoredData' = [z \in S \cup {new} |-> IF z = new THEN <<>> ELSE StoredData[z]]
    BY <1>12, <1>14, <2>1, <2>2, StoredIs DEF DataIn
  <2> QED BY <1>1, <1>4, <1>5, <1>6, <1>7, <1>9, <1>10, <1>11, <2>3, MakeReads
<1>16. CASE inodes'[new].type = "DIRECTORY"
  <2>1. FilesOf(inode_bitmap', inodes') = S
    BY <1>1, <1>12, <1>13, <1>16 DEF FilesOf
  <2> HIDE DEF S
  <2>2. StoredData' = [z \in S |-> StoredData[z]]
    BY <1>12, <2>1, StoredIs DEF DataIn
  <2>3. StoredData = [z \in S |-> StoredData[z]]
    BY StoredIs DEF DataIn, S
  <2> QED BY <1>1, <1>4, <1>5, <1>7, <1>9, <1>10, <1>11, <2>2, <2>3, MakeReads
<1> QED BY <1>15, <1>16 DEF Gained

\* A path lost is a file removed.
LEMMA LostStore ==
    ASSUME SoundNow, Kinds, ~RemovesOpenFiles, NEW path, NEW file, Lost(path, file),
           StoredOpen' = StoredOpen
    PROVE  Store!Next
<1> DEFINE S == FilesOf(inode_bitmap, inodes)
<1>1. /\ path \in Paths /\ path \in NamePaths /\ file \in inode_bitmap
      /\ inode_bitmap' = inode_bitmap \ {file}
      /\ Reach[path] = {file}
      /\ \A q \in NamePaths : Reach'[q] = IF q = path THEN {} ELSE Reach[q]
  BY ParentIsInUse DEF Lost
<1>2. PICK dir : AllBut(dir, inode_bitmap \ {file})
  BY DEF Lost
<1>3. \A p \in Paths : p \in NamePaths
  BY ParentIsInUse
<1>4. file \in S /\ ~IsOpen(file)
  <2>1. inodes[file] \in Inode /\ inodes[file].type # "DIRECTORY" /\ ~IsOpen(file)
    BY <1>1, DirectoryFacts DEF Lost, Removable
  <2> QED BY <1>1, <2>1, InodeFields DEF Kinds, FilesOf
<1>5. path \in DOMAIN StoredNames /\ StoredNames[path] = file
  BY <1>1, NamesAre
<1>6. DOMAIN StoredData = S
  BY StoredIs DEF DataIn
<1>7. \A fd \in DOMAIN StoredOpen : StoredOpen[fd].file # StoredNames[path]
  BY <1>4, <1>5 DEF StoredOpen, IsOpen
<1>8. DOMAIN StoredNames = {q \in Paths : Reach[q] # {}}
  BY StoredIs DEF NamesVia
<1>9. StoredNames' = [z \in DOMAIN StoredNames \ {path} |-> StoredNames[z]]
  <2>1. {q \in Paths : Reach'[q] # {}} = DOMAIN StoredNames \ {path}
    BY <1>1, <1>3, <1>8
  <2>2. \A q \in DOMAIN StoredNames \ {path} : (CHOOSE n \in Reach'[q] : TRUE) = StoredNames[q]
    BY <1>1, <1>3, <1>8, StoredIs DEF NamesVia
  <2> QED BY <2>1, <2>2, StoredIs DEF NamesVia
<1>10. path \notin DOMAIN StoredNames'
  BY <1>9
<1>11. StoredData' = [z \in S \ {file} |-> StoredData[z]]
  <2>1. \A n \in S \ {file} : /\ inodes'[n].type = "REGULAR"
                              /\ ContentsIn(inodes'[n], blocks') = StoredData[n]
    <3>1. \A n \in S \ {file} : Untouched(inodes, blocks, inodes', blocks', n)
      <4>1. \A n \in S \ {file} : n \in (inode_bitmap \ {file}) \ {dir}
        BY <1>2 DEF AllBut, FilesOf
      <4> QED BY <1>2, <4>1 DEF AllBut
    <3>2. S \ {file} \in SUBSET FilesOf(inode_bitmap, inodes)
      OBVIOUS
    <3> HIDE DEF S
    <3> QED BY <3>1, <3>2, DataKept
  <2>2. FilesOf(inode_bitmap', inodes') = S \ {file}
    <3>1. \A n \in inode_bitmap \ {file} : inodes'[n].type = "REGULAR" => n \in S
      BY <1>2 DEF AllBut, Untouched, FilesOf
    <3> QED BY <1>1, <2>1, <3>1 DEF FilesOf
  <2> HIDE DEF S
  <2> QED BY <2>1, <2>2, StoredIs DEF DataIn
<1> QED BY <1>4, <1>5, <1>6, <1>7, <1>9, <1>10, <1>11, RemoveReads

\* The offset of a descriptor is moved.
LEMMA OffsetMoves ==
    ASSUME Descriptors, NEW fd \in DOMAIN open_files, NEW offset \in Nat,
           open_files' = [open_files EXCEPT ![fd].offset = offset]
    PROVE  /\ fd \in DOMAIN StoredOpen
           /\ StoredOpen[fd].file = open_files[fd].inode_num
           /\ StoredOpen[fd].offset = open_files[fd].offset
           /\ StoredOpen' = [StoredOpen EXCEPT ![fd].offset = offset]
<1> DEFINE R == [inode_num : Inodes, offset : Nat]
           D == DOMAIN open_files
           r == [open_files[fd] EXCEPT !.offset = offset]
<1>1. open_files \in [D -> R] /\ open_files[fd] \in R
  BY DEF Descriptors
<1>2. r.inode_num = open_files[fd].inode_num /\ r.offset = offset
  BY <1>1
<1>3. open_files' = [open_files EXCEPT ![fd] = r]
  OBVIOUS
<1> HIDE DEF R, r, D
<1>4. DOMAIN open_files' = D /\ \A g \in D : open_files'[g] = IF g = fd THEN r ELSE open_files[g]
  BY <1>1, <1>3 DEF D
<1>5. /\ DOMAIN StoredOpen = D
      /\ \A g \in D : StoredOpen[g] = [file |-> open_files[g].inode_num, offset |-> open_files[g].offset]
  BY DEF StoredOpen, D
<1>6. StoredOpen' = [g \in D |-> [file |-> open_files'[g].inode_num, offset |-> open_files'[g].offset]]
  BY <1>4 DEF StoredOpen
<1> DEFINE new == [file |-> open_files[fd].inode_num, offset |-> offset]
<1>7. StoredOpen' = [g \in D |-> IF g = fd THEN new ELSE StoredOpen[g]]
  BY <1>2, <1>4, <1>5, <1>6
<1>8. [StoredOpen[fd] EXCEPT !.offset = offset] = new
  BY <1>5 DEF D
<1>9. StoredOpen = [g \in D |-> StoredOpen[g]]
  BY DEF StoredOpen, D
<1>10. [StoredOpen EXCEPT ![fd].offset = offset] = [g \in D |-> IF g = fd THEN new ELSE StoredOpen[g]]
  BY <1>8, <1>9
<1> QED BY <1>5, <1>7, <1>10 DEF D

\* Every allocated inode stays a file or a directory.
LEMMA KindsStay ==
    ASSUME ~RemovesOpenFiles, Inv, Kinds, [Next]_vars
    PROVE  Kinds'
<1>1. SoundNow'
  BY InvStep DEF Inv
<1>2. \A n : Untouched(inodes, blocks, inodes', blocks', n) => inodes'[n] = inodes[n]
  BY DEF Untouched
<1>3. CASE Undisturbed
  BY <1>2, <1>3 DEF Kinds, Undisturbed
<1>4. ASSUME NEW path, NEW new, Gained(path, new) PROVE Kinds'
  <2>1. \A n \in inode_bitmap : inodes'[n].type # "NONE"
    BY <1>2, <1>4 DEF Kinds, Gained, AllBut
  <2>2. inodes'[new].type # "NONE"
    BY <1>4, NewInodeIs DEF Gained
  <2> QED BY <1>4, <2>1, <2>2 DEF Kinds, Gained
<1>5. ASSUME NEW path, NEW file, Lost(path, file) PROVE Kinds'
  BY <1>2, <1>5 DEF Kinds, Lost, AllBut
<1>6. ASSUME NEW file, NEW from, NEW count, NEW value, Wrote(file, from, count, value)
      PROVE  Kinds'
  BY <1>2, <1>6 DEF Kinds, Wrote
<1>7. CASE Format
  BY <1>1, <1>7, FormatIsFormatted DEF Kinds, Formatted
<1> QED BY <1>3, <1>4, <1>5, <1>6, <1>7, StepIs DEF Next

\* A write is a write of as many values as the offset is moved by.
LEMMA WriteStore ==
    ASSUME Inv, SoundNow', NEW fd, NEW size \in Sizes, NEW value \in Values,
           WriteFile(fd, size, value)
    PROVE  Store!Next
<1> DEFINE file == open_files[fd].inode_num
           from == open_files[fd].offset
           S == FilesOf(inode_bitmap, inodes)
           old == StoredData[file]
<1>1. PICK count \in 0..size :
        /\ Wrote(file, from, count, value)
        /\ open_files' = [open_files EXCEPT ![fd].offset = from + count]
  BY WriteFileWrites
<1>2. fd \in DOMAIN open_files
  BY DEF WriteFile
<1>3. /\ file \in inode_bitmap /\ inodes[file].type = "REGULAR"
      /\ from <= inodes[file].size /\ from \in Nat
  BY <1>2 DEF Inv, OpenFilesAreLive, Descriptors
<1>4. file \in S /\ inodes[file] \in Inode /\ inodes'[file] \in Inode
  <2>1. file \in inode_bitmap'
    BY <1>1, <1>3 DEF Wrote
  <2>2. inodes'[file] \in Inode
    BY <2>1 DEF SoundNow, Sound, Typed, InodeTable
  <2> QED BY <1>3, <2>2, DirectoryFacts DEF Inv, FilesOf
<1>5. \A n \in S \ {file} : /\ inodes'[n].type = "REGULAR"
                            /\ ContentsIn(inodes'[n], blocks') = StoredData[n]
  <2>1. S \ {file} \in SUBSET FilesOf(inode_bitmap, inodes)
    OBVIOUS
  <2>2. \A n \in S \ {file} : Untouched(inodes, blocks, inodes', blocks', n)
    BY <1>1 DEF Wrote, FilesOf
  <2> HIDE DEF S
  <2> QED BY <2>1, <2>2, DataKept DEF Inv
<1>6. FilesOf(inode_bitmap', inodes') = S
  BY <1>1, <1>4, <1>5 DEF Wrote, Untouched, FilesOf
<1>7. old = ContentsIn(inodes[file], blocks)
  BY <1>4, StoredIs DEF DataIn
<1> DEFINE s == inodes[file].size
           t == inodes'[file].size
<1>8. /\ s \in Nat /\ Len(old) = s
      /\ \A i \in 1..s : old[i] = Cell(inodes[file], blocks, i - 1)
  BY <1>4, <1>7, ContentsAre
<1>9. count \in Nat /\ from <= s /\ from \in Nat /\ t = Grown(s, from + count)
  BY <1>1, <1>3 DEF Wrote
<1>10. \A p \in 0..t - 1 : Cell(inodes'[file], blocks', p) =
         IF from <= p /\ p < from + count THEN value ELSE Cell(inodes[file], blocks, p)
  BY <1>1 DEF Wrote
<1> HIDE DEF s, t, old, file, from
<1>11. ContentsIn(inodes'[file], blocks') = Store!Written(old, from, count, value)
  <2>1. t = IF Len(old) > from + count THEN Len(old) ELSE from + count
    BY <1>8, <1>9 DEF Grown
  <2>2. ASSUME NEW i \in 1..t
        PROVE  Cell(inodes'[file], blocks', i - 1) =
                 IF i \in from + 1..from + count THEN value ELSE old[i]
    <3>1. t \in Nat /\ i - 1 \in 0..t - 1
      BY <1>8, <1>9, <2>1
    <3>2. CASE i \in from + 1..from + count
      BY <1>9, <1>10, <3>1, <3>2
    <3>3. CASE i \notin from + 1..from + count
      <4>1. i \in 1..s /\ ~(from <= i - 1 /\ i - 1 < from + count)
        BY <1>8, <1>9, <2>1, <3>1, <3>3
      <4> QED BY <1>8, <1>10, <3>1, <3>3, <4>1
    <3> QED BY <3>2, <3>3
  <2>3. ContentsIn(inodes'[file], blocks') = [i \in 1..t |-> Cell(inodes'[file], blocks', i - 1)]
    BY DEF ContentsIn, t
  <2>4. ContentsIn(inodes'[file], blocks') =
          [i \in 1..t |-> IF i \in from + 1..from + count THEN value ELSE old[i]]
    BY <2>2, <2>3
  <2> QED BY <2>1, <2>4 DEF Store!Written
<1>12. StoredData' = [StoredData EXCEPT ![file] = Store!Written(old, from, count, value)]
  <2>1. StoredData' = [n \in S |-> ContentsIn(inodes'[n], blocks')]
    BY <1>6, StoredIs DEF DataIn
  <2>2. StoredData = [n \in S |-> StoredData[n]]
    BY StoredIs DEF DataIn
  <2> DEFINE new == Store!Written(old, from, count, value)
  <2> HIDE DEF S, new
  <2>3. StoredData' = [n \in S |-> IF n = file THEN new ELSE StoredData[n]]
    BY <1>5, <1>11, <2>1 DEF new
  <2>4. [StoredData EXCEPT ![file] = new] = [n \in S |-> IF n = file THEN new ELSE StoredData[n]]
    BY <2>2
  <2> QED BY <2>3, <2>4 DEF new
<1>13. StoredNames' = StoredNames
  BY <1>1, StoredIs DEF Wrote
<1>14. /\ fd \in DOMAIN StoredOpen /\ StoredOpen[fd].file = file /\ StoredOpen[fd].offset = from
       /\ StoredOpen' = [StoredOpen EXCEPT ![fd].offset = from + count]
  <2> DEFINE offset == from + count
  <2>1. offset \in Nat
    BY <1>9
  <2>2. open_files' = [open_files EXCEPT ![fd].offset = offset]
    BY <1>1 DEF file, from
  <2> HIDE DEF offset
  <2>3. /\ fd \in DOMAIN StoredOpen
        /\ StoredOpen[fd].file = open_files[fd].inode_num
        /\ StoredOpen[fd].offset = open_files[fd].offset
        /\ StoredOpen' = [StoredOpen EXCEPT ![fd].offset = offset]
    BY <1>2, <2>1, <2>2, OffsetMoves DEF Inv
  <2> QED BY <2>3 DEF file, from, offset
<1> QED BY <1>1, <1>12, <1>13, <1>14, WriteReads DEF old

\* Where no path but the empty one leads anywhere, the root alone is named.
LEMMA RootIsNamed ==
    ASSUME NEW R, R[<<>>] = {ROOT_INODE}, \A q \in NamePaths : q # <<>> => R[q] = {}
    PROVE  NamesVia(R) = [path \in {<<>>} |-> ROOT_INODE]
<1>1. <<>> \in Paths /\ \A q \in Paths : q \in NamePaths
  <2>1. 0 \in 0..MaxDepth /\ <<>> \in [1..0 -> Names]
    OBVIOUS
  <2> QED BY <2>1, ParentIsInUse DEF Paths
<1>2. {q \in Paths : R[q] # {}} = {<<>>}
  BY <1>1
<1>3. (CHOOSE n \in R[<<>>] : TRUE) = ROOT_INODE
  OBVIOUS
<1> QED BY <1>2, <1>3 DEF NamesVia

\* Opening, closing and reading change the descriptors alone.
LEMMA DescriptorsStore ==
    ASSUME Inv, SoundNow', UNCHANGED <<memory, saved, inodes, blocks>>
    PROVE  StoredNames' = StoredNames /\ StoredData' = StoredData
<1>1. inode_bitmap' = inode_bitmap /\ inodes' = inodes /\ blocks' = blocks
  BY DEF memory
<1> QED BY <1>1, SameDiskIsUndisturbed, UndisturbedStore DEF Inv

\* open_file() opens a path in the tree of files.
LEMMA OpenStore ==
    ASSUME Inv, SoundNow', NEW path \in Paths, OpenFile(path)
    PROVE  Store!Next
<1>1. PICK file \in Lookup(path) :
        /\ inodes[file].type = "REGULAR"
        /\ open_files' =
             [fd \in DOMAIN open_files \cup {next_fd} |->
                IF fd = next_fd THEN [inode_num |-> file, offset |-> 0] ELSE open_files[fd]]
  BY DEF OpenFile
<1>2. StoredNames' = StoredNames /\ StoredData' = StoredData
  BY DescriptorsStore DEF OpenFile
<1>3. file \in Reach[path]
  BY ParentIsInUse DEF Reach
<1>4. path \in DOMAIN StoredNames /\ StoredNames[path] = file /\ file \in inode_bitmap
  BY <1>3, NamesAre DEF Inv
<1>5. file \in DOMAIN StoredData
  BY <1>1, <1>4, StoredIs DEF DataIn, FilesOf
<1>6. next_fd \notin DOMAIN open_files
  BY DEF Inv, Descriptors
<1> DEFINE D == DOMAIN open_files
<1>7. DOMAIN StoredOpen = D /\ DOMAIN StoredOpen' = D \cup {next_fd}
  BY <1>1 DEF StoredOpen
<1>8. StoredOpen' = [z \in D \cup {next_fd} |->
                       IF z = next_fd THEN [file |-> file, offset |-> 0] ELSE StoredOpen[z]]
  BY <1>1, <1>6 DEF StoredOpen
<1> QED BY <1>2, <1>4, <1>5, <1>6, <1>7, <1>8, OpenReads

\* close_file() closes a descriptor in the tree of files.
LEMMA CloseStore ==
    ASSUME Inv, SoundNow', NEW fd, CloseFile(fd)
    PROVE  Store!Next
<1>1. fd \in DOMAIN open_files /\ open_files' = [g \in DOMAIN open_files \ {fd} |-> open_files[g]]
  BY DEF CloseFile
<1>2. StoredNames' = StoredNames /\ StoredData' = StoredData
  BY DescriptorsStore DEF CloseFile
<1>3. DOMAIN StoredOpen = DOMAIN open_files
  BY DEF StoredOpen
<1>4. StoredOpen' = [z \in DOMAIN StoredOpen \ {fd} |-> StoredOpen[z]]
  BY <1>1 DEF StoredOpen
<1> QED BY <1>1, <1>2, <1>3, <1>4, CloseReads

\* A read gets to the end of the file: its blocks reach there.
LEMMA ReadStore ==
    ASSUME Inv, SoundNow', NEW fd, NEW size \in Sizes, ReadFile(fd, size)
    PROVE  Store!Next
<1> DEFINE file == open_files[fd].inode_num
           from == open_files[fd].offset
           s == inodes[file].size
           most == inodes[file].blocks_used * BlockSize
           end == IF s < most THEN s ELSE most
           rest == IF from < end THEN end - from ELSE 0
           moved == from + (IF size < rest THEN size ELSE rest)
<1>1. fd \in DOMAIN open_files /\ open_files' = [open_files EXCEPT ![fd].offset = moved]
  BY DEF ReadFile
<1>2. /\ file \in inode_bitmap /\ inodes[file].type = "REGULAR" /\ inodes[file] \in Inode
      /\ from <= s /\ from \in Nat
  BY <1>1, DirectoryFacts DEF Inv, OpenFilesAreLive, Descriptors
<1>3. file \in DOMAIN StoredData /\ StoredData[file] = ContentsIn(inodes[file], blocks)
  BY <1>2, StoredIs DEF DataIn, FilesOf
<1>4. s \in Nat /\ Len(StoredData[file]) = s
  BY <1>2, <1>3, ContentsAre
<1>5. s <= most /\ most \in Nat
  <2>1. file \in inode_bitmap \ Directories(inode_bitmap, inodes)
    BY <1>2 DEF Directories
  <2>2. inodes[file].blocks_used \in Nat /\ BlockSize \in Nat
    BY <1>2, InodeFields
  <2> QED BY <2>1, <2>2 DEF Inv, SoundNow, Sound, Covered
<1>6. StoredNames' = StoredNames /\ StoredData' = StoredData
  BY DescriptorsStore DEF ReadFile
<1> HIDE DEF most, s, file, from
<1>7. rest = Len(StoredData[file]) - from /\ moved \in Nat
  BY <1>2, <1>4, <1>5
<1> HIDE DEF rest
<1>8. moved = from + (IF size < rest THEN size ELSE rest)
  OBVIOUS
<1> HIDE DEF moved
<1>9. /\ fd \in DOMAIN StoredOpen /\ StoredOpen[fd].file = file /\ StoredOpen[fd].offset = from
      /\ StoredOpen' = [StoredOpen EXCEPT ![fd].offset = moved]
  BY <1>1, <1>7, OffsetMoves DEF Inv, file, from
<1> QED BY <1>6, <1>7, <1>8, <1>9, ReadReads

\* Formatting is done without open files, and leaves the root alone.
LEMMA FormatStore ==
    ASSUME Inv, SoundNow', ~RemovesOpenFiles, Format
    PROVE  Store!Next
<1>1. Formatted
  BY FormatIsFormatted
<1>2. open_files = <<>> /\ open_files' = <<>>
  BY DEF Format, files
<1>3. DOMAIN StoredOpen = {} /\ StoredOpen' = StoredOpen
  BY <1>2 DEF StoredOpen
<1>4. StoredData' = [file \in {} |-> <<>>]
  <2>1. FilesOf(inode_bitmap', inodes') = {}
    BY <1>1 DEF Formatted, FilesOf
  <2> QED BY <2>1, StoredIs DEF DataIn
<1>5. StoredNames' = [path \in {<<>>} |-> ROOT_INODE]
  <2>1. Reach'[<<>>] = {ROOT_INODE} /\ \A q \in NamePaths : q # <<>> => Reach'[q] = {}
    BY <1>1 DEF Formatted
  <2>2. NamesVia(Reach') = [path \in {<<>>} |-> ROOT_INODE]
    BY <2>1, RootIsNamed
  <2> QED BY <2>2, StoredIs
<1> QED BY <1>3, <1>4, <1>5, FormatReads

\* A restart leaves the disk and takes the descriptors.
LEMMA RestartStore ==
    ASSUME Inv, SoundNow', Restart
    PROVE  Store!Next
<1>1. StoredNames' = StoredNames /\ StoredData' = StoredData
  BY MountIsUndisturbed, UndisturbedStore DEF Inv
<1>2. open_files' = <<>>
  BY DEF Restart
<1>3. StoredOpen' = [fd \in {} |-> 0]
  BY <1>2 DEF StoredOpen
<1> QED BY <1>1, <1>3, RestartReads

\* The file system starts as an empty tree.
LEMMA InitImplements == Init => Store!Init
<1> SUFFICES ASSUME Init PROVE Store!Init
  OBVIOUS
<1>1. Inv
  BY FirstState
<1>2. /\ inode_bitmap = {ROOT_INODE} /\ open_files = <<>>
  BY DEF Init
<1>3. inodes[ROOT_INODE].type = "DIRECTORY"
  BY <1>1 DEF Inv, SoundNow, Sound, Tree, Rooted, Directories
<1>4. StoredNames = [path \in {<<>>} |-> ROOT_INODE]
  <2>1. Reach[<<>>] = {ROOT_INODE} /\ \A q \in NamePaths : Reach[q] \subseteq {ROOT_INODE}
    BY <1>1, <1>2, PathsFollowListings DEF Inv, Leads
  <2>2. \A q \in NamePaths : q # <<>> => Reach[q] = {}
    BY <1>1, <2>1, PathCases, PathsFollowListings, PathsAreUnique DEF Inv
  <2>3. NamesVia(Reach) = [path \in {<<>>} |-> ROOT_INODE]
    BY <2>1, <2>2, RootIsNamed
  <2> QED BY <2>3, StoredIs
<1>5. StoredData = [file \in {} |-> <<>>]
  <2>1. FilesOf(inode_bitmap, inodes) = {}
    BY <1>2, <1>3 DEF FilesOf
  <2> QED BY <2>1, StoredIs DEF DataIn
<1>6. StoredOpen = [fd \in {} |-> 0]
  BY <1>2 DEF StoredOpen
<1> QED BY <1>4, <1>5, <1>6, Zenon DEF Store!Init, StoredNames, StoredData, StoredOpen

\* Every step of the file system is a step of the tree of files, or none.
LEMMA NextImplements ==
    ASSUME ~RemovesOpenFiles, Inv, Kinds, [Next]_vars
    PROVE  [Store!Next]_Stored
<1>1. SoundNow /\ SoundNow'
  BY InvStep DEF Inv
<1>2. ASSUME Undisturbed, UNCHANGED files
      PROVE  UNCHANGED Stored
  <2>1. StoredOpen' = StoredOpen
    BY <1>2 DEF StoredOpen, files
  <2> QED BY <1>1, <1>2, <2>1, UndisturbedStore DEF Stored
<1>3. UNCHANGED files => StoredOpen' = StoredOpen
  BY DEF StoredOpen, files
<1>4. ASSUME NEW path \in Paths, CreateFile(path) \/ CreateDirectory(path)
      PROVE  Store!Next \/ UNCHANGED Stored
  <2>1. UNCHANGED files
    BY <1>4 DEF CreateFile, CreateDirectory
  <2>2. Undisturbed \/ \E new : Gained(path, new)
    BY <1>1, <1>4, CreateFileGains, CreateDirectoryGains
  <2> QED BY <1>1, <1>2, <1>3, <2>1, <2>2, GainedStore
<1>5. ASSUME NEW path \in Paths, RemoveFile(path)
      PROVE  Store!Next
  <2>1. UNCHANGED files
    BY <1>5 DEF RemoveFile
  <2>2. \E file : Lost(path, file)
    BY <1>1, <1>5, RemoveFileLoses
  <2> QED BY <1>1, <1>3, <2>1, <2>2, LostStore
<1>6. ASSUME NEW path \in Paths, OpenFile(path) PROVE Store!Next
  BY <1>1, <1>6, OpenStore
<1>7. ASSUME NEW fd, NEW size \in Sizes, ReadFile(fd, size) PROVE Store!Next
  BY <1>1, <1>7, ReadStore
<1>8. ASSUME NEW fd, NEW size \in Sizes, NEW value \in Values, WriteFile(fd, size, value)
      PROVE  Store!Next
  BY <1>1, <1>8, WriteStore
<1>9. ASSUME NEW fd, CloseFile(fd) PROVE Store!Next
  BY <1>1, <1>9, CloseStore
<1>10. CASE Mount
  <2>1. UNCHANGED files
    BY <1>10 DEF Mount
  <2> QED BY <1>1, <1>2, <1>10, <2>1, MountIsUndisturbed
<1>11. CASE Format
  BY <1>1, <1>11, FormatStore
<1>12. CASE Restart
  BY <1>1, <1>12, RestartStore
<1>13. CASE UNCHANGED vars
  <2>1. /\ UNCHANGED files /\ inode_bitmap' = inode_bitmap
        /\ inodes' = inodes /\ blocks' = blocks
    BY <1>13 DEF vars, memory
  <2> QED BY <1>1, <1>2, <2>1, SameDiskIsUndisturbed
<1> QED BY <1>4, <1>5, <1>6, <1>7, <1>8, <1>9, <1>10, <1>11, <1>12, <1>13
        DEF Next, Operation

\* As long as no file is removed or formatted away while it is open, the
\* blocks, bitmaps, inodes and directory slots implement a tree of names for
\* files that read as they were written, through refused and failed
\* operations and restarts, on disks of every size (module FileStore).
THEOREM DiskImplementsFileStore ==
    ASSUME ~RemovesOpenFiles PROVE Spec => ImplementsFileStore
<1>1. Init => Store!Init
  BY InitImplements
<1>2. Init => Kinds
  <2>1. Init => inode_bitmap = {ROOT_INODE} /\ Inv
    BY FirstState DEF Init
  <2> QED BY <2>1 DEF Kinds, Inv, SoundNow, Sound, Tree, Rooted, Directories
<1>3. Inv /\ Kinds /\ [Next]_vars => Kinds'
  BY KindsStay
<1>4. Inv /\ Kinds /\ [Next]_vars => [Store!Next]_Stored
  BY NextImplements
<1>5. Spec => []Inv
  BY InvHolds
<1> QED BY <1>1, <1>2, <1>3, <1>4, <1>5, PTL
        DEF Spec, Store!Spec, Store!store, ImplementsFileStore, Stored,
            StoredNames, StoredData, StoredOpen
=============================================================================
