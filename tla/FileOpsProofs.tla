---------------------------- MODULE FileOpsProofs ----------------------------
(***************************************************************************)
(* Proofs about FileOps, for every finite set of names, every set of       *)
(* inodes, blocks, trees and paths, every number of slots and requests and *)
(* every buffer that holds the longest name.                               *)
(*                                                                         *)
(* First what holds whatever the slaves do to each other (OpsInv): the     *)
(* files stay a tree, nothing that has a name or a descriptor is gone, and *)
(* a copy knows what it has read.  Then what holds of a request that no    *)
(* other has come near (AloneInv): how the files have come from those it   *)
(* has found, and what it knows of them.                                   *)
(***************************************************************************)
EXTENDS FileOps, FiniteSetTheorems, SequenceTheorems, TLAPS

-----------------------------------------------------------------------------
(* The file system: entries of directories, and what holds of the inodes   *)
(* whatever calls are made.                                                *)

FsType(f) == f = [i \in Inodes |-> f[i]] /\ \A i \in Inodes : IsNode(f[i])

\* x is the entry n of directory d.
Entered(f, d, n, x) == Is(f, d, "dir") /\ f[d].has[n] = x
InTree(f, i) == \E d \in Inodes, n \in Names : Entered(f, d, n, i)

\* No inode has two names, the root has none, what has a name is not free, and a directory
\* without a name is empty.
Sound(f) ==
    /\ FsType(f)
    /\ f[Root].kind = "dir" /\ ~InTree(f, Root)
    /\ \A i \in Inodes : \A d, e \in Inodes, n, m \in Names :
          Entered(f, d, n, i) /\ Entered(f, e, m, i) => d = e /\ n = m
    /\ \A i \in Inodes : InTree(f, i) => f[i].kind # "free"
    /\ \A d \in Inodes \ {Root} :
          f[d].kind = "dir" /\ ~InTree(f, d) => \A n \in Names : f[d].has[n] = None

\* Root, None and Junk are what they are meant to be.
LEMMA Constants ==
    /\ Root \in Inodes /\ None \notin Inodes /\ Junk \in Names
    /\ \A i \in Inodes : i # None
  BY FileOpsAssumption

\* What the kind of a node says of it.
LEMMA NodeKinds ==
    ASSUME NEW v, IsNode(v)
    PROVE  /\ v.kind \in {"free", "file", "dir", "link"}
           /\ v.kind = "free" <=> v = Free
           /\ v.kind = "file" => v = File(v.data) /\ v.data \in Seq(Blocks)
           /\ v.kind = "dir" => v = Dir(v.has) /\ v.has \in [Names -> Inodes \union {None}]
           /\ v.kind = "link" => v = Link(v.to) /\ v.to \in Seq(Names)
  BY DEF IsNode, Free

\* The nodes that the calls make.
LEMMA Nodes ==
    /\ IsNode(Free) /\ Free.kind = "free"
    /\ \A d \in Seq(Blocks) : IsNode(File(d)) /\ File(d).kind = "file" /\ File(d).data = d
    /\ \A p \in Seq(Names) : IsNode(Link(p)) /\ Link(p).kind = "link" /\ Link(p).to = p
    /\ \A h \in [Names -> Inodes \union {None}] :
          IsNode(Dir(h)) /\ Dir(h).kind = "dir" /\ Dir(h).has = h
    /\ IsNode(EmptyDir) /\ EmptyDir.kind = "dir"
    /\ \A n \in Names : EmptyDir.has[n] = None
  BY DEF IsNode, Free, File, Link, Dir, EmptyDir

\* An entry of a directory is changed.
LEMMA PutEntry ==
    ASSUME NEW v, IsNode(v), v.kind = "dir", NEW n \in Names, NEW x \in Inodes \union {None}
    PROVE  /\ IsNode([v EXCEPT !.has[n] = x]) /\ [v EXCEPT !.has[n] = x].kind = "dir"
           /\ [v EXCEPT !.has[n] = x].has = [v.has EXCEPT ![n] = x]
  <1>1. v = Dir(v.has) /\ v.has \in [Names -> Inodes \union {None}]
    BY NodeKinds
  <1>2. PICK h \in [Names -> Inodes \union {None}] : h = v.has /\ v = Dir(h)
    BY <1>1
  <1>3. [v EXCEPT !.has[n] = x] = Dir([h EXCEPT ![n] = x])
    BY <1>2 DEF Dir
  <1>4. [h EXCEPT ![n] = x] \in [Names -> Inodes \union {None}]
    OBVIOUS
  <1>5. QED
    BY <1>2, <1>3, <1>4, Nodes

\* The contents of a file are changed.
LEMMA PutData ==
    ASSUME NEW v, IsNode(v), v.kind = "file", NEW d \in Seq(Blocks)
    PROVE  [v EXCEPT !.data = d] = File(d)
  <1>1. v = File(v.data)
    BY NodeKinds
  <1>2. PICK c : v = File(c)
    BY <1>1
  <1>3. QED
    BY <1>2 DEF File

\* What has a name, as the model says it.
LEMMA LinkedTree ==
    ASSUME NEW f, FsType(f), NEW i \in Inodes
    PROVE  i \in Linked(f) <=> InTree(f, i)
  BY Constants DEF Linked, Held, InTree, Entered, Is

\* Where a path has led: a directory of the tree, a name and what that name is in it.
Located(f, w) ==
    /\ w.dir \in Inodes /\ Is(f, w.dir, "dir") /\ (w.dir = Root \/ InTree(f, w.dir))
    /\ w.name \in Names /\ w.ino = f[w.dir].has[w.name] /\ w.ino \in Inodes \union {None}

\* What changes one entry of one directory, and nothing else.
Put(f, d, n, x) == [f EXCEPT ![d].has[n] = x]

\* One entry is changed, and no kind.
LEMMA EntrySet ==
    ASSUME NEW f, FsType(f), NEW d \in Inodes, f[d].kind = "dir",
           NEW n \in Names, NEW x, x \in Inodes \/ x = None
    PROVE  /\ FsType(Put(f, d, n, x))
           /\ \A i \in Inodes : Put(f, d, n, x)[i].kind = f[i].kind
           /\ \A i \in Inodes \ {d} : Put(f, d, n, x)[i] = f[i]
           /\ Put(f, d, n, x)[d].has[n] = x
           /\ \A m \in Names \ {n} : Put(f, d, n, x)[d].has[m] = f[d].has[m]
           /\ \A e \in Inodes, m \in Names, i \in Inodes :
                 Entered(Put(f, d, n, x), e, m, i)
                    <=> ((e = d /\ m = n /\ i = x) \/ (~(e = d /\ m = n) /\ Entered(f, e, m, i)))
  <1> DEFINE g == Put(f, d, n, x)
  <1>1. IsNode(f[d]) /\ f[d].has \in [Names -> Inodes \union {None}]
    BY NodeKinds DEF FsType
  <1>2. PICK v : v = [f[d] EXCEPT !.has[n] = x]
    OBVIOUS
  <1>3. IsNode(v) /\ v.kind = "dir" /\ v.has = [f[d].has EXCEPT ![n] = x]
    BY <1>1, <1>2, PutEntry
  <1>4. g = [i \in Inodes |-> IF i = d THEN v ELSE f[i]]
    BY <1>2 DEF FsType, Put
  <1> HIDE DEF g
  <1>5. FsType(g) /\ \A i \in Inodes : g[i].kind = f[i].kind
    BY <1>3, <1>4 DEF FsType
  <1>6. g[d] = v /\ \A i \in Inodes \ {d} : g[i] = f[i]
    BY <1>4
  <1>7. ASSUME NEW e \in Inodes, NEW m \in Names, NEW i \in Inodes
        PROVE  Entered(g, e, m, i)
                  <=> ((e = d /\ m = n /\ i = x) \/ (~(e = d /\ m = n) /\ Entered(f, e, m, i)))
    BY <1>1, <1>3, <1>6, Constants DEF Entered, Is
  <1>8. g[d].has[n] = x /\ \A m \in Names \ {n} : g[d].has[m] = f[d].has[m]
    BY <1>1, <1>3, <1>6
  <1>9. QED
    BY <1>5, <1>6, <1>7, <1>8 DEF g

\* A new inode is put into a directory.
LEMMA Created ==
    ASSUME NEW f, Sound(f), NEW w, Located(f, w), Creatable(f, w),
           NEW node, IsNode(node), node.kind # "free",
           node.kind = "dir" => \A n \in Names : node.has[n] = None
    PROVE  \E u \in Unused(f) : \E g :
              /\ g = Create(f, w, node)
              /\ FsType(g) /\ Sound(g)
              /\ g[u] = node /\ u # w.dir
              /\ \A i \in Inodes \ {u} : g[i].kind = f[i].kind
              /\ \A i \in Inodes \ {u, w.dir} : g[i] = f[i]
              /\ \A e \in Inodes, m \in Names, i \in Inodes :
                    Entered(g, e, m, i) <=> IF e = w.dir /\ m = w.name THEN i = u ELSE Entered(f, e, m, i)
              /\ \A i \in Inodes : InTree(g, i) <=> InTree(f, i) \/ i = u
  <1>0. w.dir \in Inodes /\ f[w.dir].kind = "dir" /\ w.name \in Names /\ f[w.dir].has[w.name] = None
        /\ FsType(f)
    BY DEF Located, Creatable, Is, Sound
  <1>1. PICK u \in Unused(f) : u = CHOOSE x \in Unused(f) : TRUE
    BY DEF Creatable
  <1>2. u \in Inodes /\ f[u] = Free /\ f[u].kind = "free"
    BY Nodes DEF Unused
  <1>3. PICK h : h = Put(f, w.dir, w.name, u)
    OBVIOUS
  <1>4. /\ FsType(h) /\ \A i \in Inodes : h[i].kind = f[i].kind
        /\ \A i \in Inodes \ {w.dir} : h[i] = f[i]
        /\ \A e \in Inodes, m \in Names, i \in Inodes :
              Entered(h, e, m, i) <=> IF e = w.dir /\ m = w.name THEN i = u ELSE Entered(f, e, m, i)
    <2>1. u \in Inodes \/ u = None
      BY <1>2
    <2>2. FsType(f) /\ w.dir \in Inodes /\ f[w.dir].kind = "dir" /\ w.name \in Names
      BY <1>0
    <2>3. QED
      BY <1>3, <2>1, <2>2, EntrySet
  <1>5. PICK g : g = [h EXCEPT ![u] = node]
    OBVIOUS
  <1>6. g = Create(f, w, node)
    BY <1>1, <1>3, <1>5 DEF Create, Put
  <1>7. g = [i \in Inodes |-> IF i = u THEN node ELSE h[i]]
    BY <1>4, <1>5 DEF FsType
  <1>8. u # w.dir /\ g[u] = node /\ (\A i \in Inodes \ {u} : g[i] = h[i]) /\ FsType(g)
    BY <1>0, <1>2, <1>4, <1>7 DEF FsType
  <1>9. ASSUME NEW e \in Inodes, NEW m \in Names, NEW i \in Inodes
        PROVE  Entered(g, e, m, i) <=> IF e = w.dir /\ m = w.name THEN i = u ELSE Entered(f, e, m, i)
    <2>1. CASE e = u
      <3>1. ~Entered(g, e, m, i)
        BY <1>8, <2>1, Constants DEF Entered, Is
      <3>2. ~Entered(f, e, m, i) /\ e # w.dir
        BY <1>2, <1>8, <2>1 DEF Entered, Is
      <3>3. QED
        BY <3>1, <3>2
    <2>2. CASE e # u
      <3>1. Entered(g, e, m, i) <=> Entered(h, e, m, i)
        BY <1>8, <2>2 DEF Entered, Is
      <3>2. QED
        BY <3>1, <1>4
    <2>3. QED
      BY <2>1, <2>2
  <1>10. ~InTree(f, u)
    BY <1>2 DEF Sound
  <1>11. \A i \in Inodes : InTree(g, i) <=> InTree(f, i) \/ i = u
    <2>1. \A i \in Inodes : ~Entered(f, w.dir, w.name, i)
      BY <1>0, Constants DEF Entered
    <2>2. \A i \in Inodes : InTree(f, i) => InTree(g, i)
      BY <1>9, <2>1 DEF InTree
    <2>3. InTree(g, u)
      BY <1>0, <1>2, <1>9 DEF InTree
    <2>4. \A i \in Inodes : InTree(g, i) => InTree(f, i) \/ i = u
      BY <1>9 DEF InTree
    <2>5. QED
      BY <2>2, <2>3, <2>4
  <1>12. \A i \in Inodes \ {u} : g[i].kind = f[i].kind
    BY <1>4, <1>8
  <1>13. \A i \in Inodes \ {u, w.dir} : g[i] = f[i]
    BY <1>4, <1>8
  <1>14. u # Root
    BY <1>2 DEF Sound
  <1>15. g[Root].kind = "dir" /\ ~InTree(g, Root)
    BY <1>11, <1>12, <1>14, Constants DEF Sound
  <1>16. ASSUME NEW i \in Inodes, NEW d \in Inodes, NEW e \in Inodes, NEW n \in Names, NEW m \in Names,
                Entered(g, d, n, i), Entered(g, e, m, i)
         PROVE  d = e /\ n = m
    <2>1. CASE i = u
      <3>1. ~Entered(f, d, n, i) /\ ~Entered(f, e, m, i)
        BY <1>10, <2>1 DEF InTree
      <3>2. QED
        BY <1>9, <1>16, <3>1
    <2>2. CASE i # u
      <3>1. Entered(f, d, n, i) /\ Entered(f, e, m, i)
        BY <1>9, <1>16, <2>2
      <3>2. QED
        BY <3>1 DEF Sound
    <2>3. QED
      BY <2>1, <2>2
  <1>17. \A i \in Inodes : InTree(g, i) => g[i].kind # "free"
    BY <1>8, <1>11, <1>12 DEF Sound
  <1>18. ASSUME NEW d \in Inodes \ {Root}, g[d].kind = "dir", ~InTree(g, d), NEW n \in Names
         PROVE  g[d].has[n] = None
    <2>1. d # u /\ ~InTree(f, d)
      BY <1>11, <1>18
    <2>2. d # w.dir
      BY <1>18, <2>1 DEF Located
    <2>3. g[d] = f[d]
      BY <2>1, <2>2, <1>13
    <2>4. QED
      BY <1>18, <2>1, <2>3 DEF Sound
  <1>19. Sound(g)
    BY <1>8, <1>15, <1>16, <1>17, <1>18 DEF Sound
  <1>20. QED
    BY <1>6, <1>8, <1>9, <1>11, <1>12, <1>13, <1>19

\* A name is taken away; a directory has to be empty.
LEMMA Taken ==
    ASSUME NEW f, Sound(f), NEW w, Located(f, w), w.ino # None,
           f[w.ino].kind = "dir" => f[w.ino] = EmptyDir
    PROVE  \E g : /\ g = Take(f, w)
                  /\ FsType(g) /\ Sound(g)
                  /\ \A i \in Inodes : g[i].kind = f[i].kind
                  /\ \A i \in Inodes \ {w.dir} : g[i] = f[i]
                  /\ \A e \in Inodes, m \in Names, i \in Inodes :
                        Entered(g, e, m, i) <=> ~(e = w.dir /\ m = w.name) /\ Entered(f, e, m, i)
                  /\ \A i \in Inodes : InTree(g, i) <=> InTree(f, i) /\ i # w.ino
  <1>0. w.dir \in Inodes /\ f[w.dir].kind = "dir" /\ w.name \in Names /\ f[w.dir].has[w.name] = w.ino
        /\ FsType(f) /\ w.ino \in Inodes
    BY DEF Located, Is, Sound
  <1>1. PICK g : g = Take(f, w)
    OBVIOUS
  <1>2. /\ FsType(g) /\ \A i \in Inodes : g[i].kind = f[i].kind
        /\ \A i \in Inodes \ {w.dir} : g[i] = f[i]
        /\ \A e \in Inodes, m \in Names, i \in Inodes :
              Entered(g, e, m, i) <=> IF e = w.dir /\ m = w.name THEN i = None ELSE Entered(f, e, m, i)
        /\ g[w.dir].has[w.name] = None
        /\ \A m \in Names \ {w.name} : g[w.dir].has[m] = f[w.dir].has[m]
    <2>1. None \in Inodes \/ None = None
      OBVIOUS
    <2>2. g = Put(f, w.dir, w.name, None)
      BY <1>1 DEF Take, Put
    <2>3. QED
      BY <1>0, <2>1, <2>2, EntrySet
  <1>3. \A e \in Inodes, m \in Names, i \in Inodes :
           Entered(g, e, m, i) <=> ~(e = w.dir /\ m = w.name) /\ Entered(f, e, m, i)
    BY <1>2, Constants
  <1>4. Entered(f, w.dir, w.name, w.ino)
    BY <1>0, Constants DEF Entered, Is
  <1>5. \A d \in Inodes, n \in Names : Entered(f, d, n, w.ino) => d = w.dir /\ n = w.name
    BY <1>0, <1>4 DEF Sound
  <1>6. \A i \in Inodes : InTree(g, i) <=> InTree(f, i) /\ i # w.ino
    <2>1. ~InTree(g, w.ino)
      BY <1>3, <1>5, <1>0 DEF InTree
    <2>2. \A i \in Inodes : InTree(g, i) => InTree(f, i)
      BY <1>3 DEF InTree
    <2>3. ASSUME NEW i \in Inodes, InTree(f, i), i # w.ino PROVE InTree(g, i)
      <3>1. PICK d \in Inodes, n \in Names : Entered(f, d, n, i)
        BY <2>3 DEF InTree
      <3>2. ~(d = w.dir /\ n = w.name)
        BY <3>1, <2>3, <1>0 DEF Entered
      <3>3. QED
        BY <1>3, <3>1, <3>2 DEF InTree
    <2>4. QED
      BY <2>1, <2>2, <2>3
  <1>7. g[Root].kind = "dir" /\ ~InTree(g, Root)
    BY <1>2, <1>6, Constants DEF Sound
  <1>8. \A i \in Inodes : \A d, e \in Inodes, n, m \in Names :
           Entered(g, d, n, i) /\ Entered(g, e, m, i) => d = e /\ n = m
    BY <1>3 DEF Sound
  <1>9. \A i \in Inodes : InTree(g, i) => g[i].kind # "free"
    BY <1>2, <1>6 DEF Sound
  <1>10. ASSUME NEW d \in Inodes \ {Root}, g[d].kind = "dir", ~InTree(g, d), NEW n \in Names
         PROVE  g[d].has[n] = None
    <2>1. f[d].kind = "dir"
      BY <1>2, <1>10
    <2>2. f[d].has[n] = None
      <3>1. CASE d = w.ino
        BY <2>1, <3>1, Nodes
      <3>2. CASE d # w.ino
        BY <1>6, <1>10, <2>1, <3>2 DEF Sound
      <3>3. QED
        BY <3>1, <3>2
    <2>3. CASE d = w.dir
      <3>1. f[d].has \in [Names -> Inodes \union {None}]
        BY <1>0, <2>1, NodeKinds DEF FsType
      <3>2. QED
        BY <1>2, <2>2, <2>3, <3>1
    <2>4. CASE d # w.dir
      BY <1>2, <2>2, <2>4
    <2>5. QED
      BY <2>3, <2>4
  <1>11. Sound(g)
    BY <1>2, <1>7, <1>8, <1>9, <1>10 DEF Sound
  <1>12. QED
    BY <1>1, <1>2, <1>3, <1>6, <1>11

\* A file is moved to another name.  What had that name loses it: a file, or an empty folder.
LEMMA Renamed ==
    ASSUME NEW f, Sound(f), NEW w, Located(f, w), NEW v, Located(f, v), Renamable(f, w, v)
    PROVE  \E g : /\ g = Rename(f, w, v)
                  /\ FsType(g) /\ Sound(g)
                  /\ \A i \in Inodes : g[i].kind = f[i].kind
                  /\ \A i \in Inodes \ {w.dir, v.dir} : g[i] = f[i]
                  /\ g[v.dir].has[v.name] = w.ino
                  /\ \A i \in Inodes : InTree(f, i) => InTree(g, i) \/ i = v.ino
  <1>0. /\ w.dir \in Inodes /\ f[w.dir].kind = "dir" /\ w.name \in Names /\ f[w.dir].has[w.name] = w.ino
        /\ v.dir \in Inodes /\ f[v.dir].kind = "dir" /\ v.name \in Names /\ f[v.dir].has[v.name] = v.ino
        /\ FsType(f) /\ w.ino \in Inodes /\ v.ino \in Inodes \union {None} /\ w.ino # None
    BY DEF Located, Is, Sound, Renamable
  <1>1. CASE v.ino = w.ino
    <2>1. Rename(f, w, v) = f
      BY <1>1 DEF Rename
    <2>2. QED
      BY <1>0, <1>1, <2>1
  <1>2. CASE v.ino # w.ino
    <2>1. PICK h : h = Put(f, w.dir, w.name, None)
      OBVIOUS
    <2>2. h = Take(f, w)
      BY <2>1 DEF Take, Put
    <2>3. PICK g : g = Put(h, v.dir, v.name, w.ino)
      OBVIOUS
    <2>4. g = Rename(f, w, v)
      BY <1>2, <2>2, <2>3 DEF Rename, Put
    <2>5. /\ FsType(h) /\ \A i \in Inodes : h[i].kind = f[i].kind
          /\ \A i \in Inodes \ {w.dir} : h[i] = f[i]
          /\ \A e \in Inodes, m \in Names, i \in Inodes :
                Entered(h, e, m, i)
                   <=> ((e = w.dir /\ m = w.name /\ i = None) \/ (~(e = w.dir /\ m = w.name) /\ Entered(f, e, m, i)))
          /\ h[w.dir].has[w.name] = None
          /\ \A m \in Names \ {w.name} : h[w.dir].has[m] = f[w.dir].has[m]
      BY <1>0, <2>1, EntrySet
    <2>6. /\ FsType(g) /\ \A i \in Inodes : g[i].kind = h[i].kind
          /\ \A i \in Inodes \ {v.dir} : g[i] = h[i]
          /\ \A e \in Inodes, m \in Names, i \in Inodes :
                Entered(g, e, m, i)
                   <=> ((e = v.dir /\ m = v.name /\ i = w.ino) \/ (~(e = v.dir /\ m = v.name) /\ Entered(h, e, m, i)))
          /\ g[v.dir].has[v.name] = w.ino
          /\ \A m \in Names \ {v.name} : g[v.dir].has[m] = h[v.dir].has[m]
      <3>1. h[v.dir].kind = "dir" /\ (w.ino \in Inodes \/ w.ino = None)
        BY <1>0, <2>5
      <3>2. QED
        BY <1>0, <2>3, <2>5, <3>1, EntrySet
    <2>7. \A i \in Inodes : g[i].kind = f[i].kind
      BY <2>5, <2>6
    <2>8. \A i \in Inodes \ {w.dir, v.dir} : g[i] = f[i]
      BY <2>5, <2>6
    <2>9. Entered(f, w.dir, w.name, w.ino) /\ ~(w.dir = v.dir /\ w.name = v.name)
      BY <1>0, <1>2, Constants DEF Entered, Is
    <2>10. \A e \in Inodes, m \in Names, i \in Inodes :
              Entered(g, e, m, i) <=> IF e = v.dir /\ m = v.name THEN i = w.ino
                                      ELSE ~(e = w.dir /\ m = w.name) /\ Entered(f, e, m, i)
      BY <2>5, <2>6, Constants
    <2>11. \A d \in Inodes, n \in Names : Entered(f, d, n, w.ino) => d = w.dir /\ n = w.name
      BY <1>0, <2>9 DEF Sound
    <2>12. InTree(f, w.ino) /\ InTree(g, w.ino)
      BY <1>0, <2>9, <2>10 DEF InTree
    <2>13. \A i \in Inodes : InTree(g, i) => InTree(f, i)
      <3>1. \A i \in Inodes, e \in Inodes, m \in Names : Entered(g, e, m, i) => i = w.ino \/ Entered(f, e, m, i)
        BY <2>10
      <3>2. QED
        BY <2>12, <3>1 DEF InTree
    <2>14. ASSUME NEW i \in Inodes, InTree(f, i), i # v.ino PROVE InTree(g, i)
      <3>1. PICK d \in Inodes, n \in Names : Entered(f, d, n, i)
        BY <2>14 DEF InTree
      <3>2. CASE i = w.ino
        BY <2>12, <3>2
      <3>3. CASE i # w.ino
        <4>1. ~(d = w.dir /\ n = w.name) /\ ~(d = v.dir /\ n = v.name)
          BY <1>0, <2>14, <3>1, <3>3 DEF Entered
        <4>2. QED
          BY <2>10, <3>1, <4>1 DEF InTree
      <3>4. QED
        BY <3>2, <3>3
    <2>15. g[Root].kind = "dir" /\ ~InTree(g, Root)
      BY <2>7, <2>13, Constants DEF Sound
    <2>16. ASSUME NEW i \in Inodes, NEW d \in Inodes, NEW e \in Inodes, NEW n \in Names, NEW m \in Names,
                  Entered(g, d, n, i), Entered(g, e, m, i)
           PROVE  d = e /\ n = m
      <3>1. CASE i = w.ino
        <4>1. d = v.dir /\ n = v.name
          BY <2>10, <2>11, <2>16, <3>1
        <4>2. e = v.dir /\ m = v.name
          BY <2>10, <2>11, <2>16, <3>1
        <4>3. QED
          BY <4>1, <4>2
      <3>2. CASE i # w.ino
        <4>1. Entered(f, d, n, i) /\ Entered(f, e, m, i)
          BY <2>10, <2>16, <3>2
        <4>2. QED
          BY <4>1 DEF Sound
      <3>3. QED
        BY <3>1, <3>2
    <2>17. \A i \in Inodes : InTree(g, i) => g[i].kind # "free"
      BY <2>7, <2>13 DEF Sound
    <2>18. ASSUME NEW d \in Inodes \ {Root}, g[d].kind = "dir", ~InTree(g, d), NEW n \in Names
           PROVE  g[d].has[n] = None
      <3>1. f[d].kind = "dir" /\ d # w.ino
        BY <2>7, <2>12, <2>18
      <3>2. f[d].has[n] = None /\ d # w.dir /\ d # v.dir
        <4>1. CASE InTree(f, d)
          <5>1. d = v.ino
            BY <2>14, <2>18, <4>1
          <5>2. f[d] = EmptyDir
            BY <5>1, <3>1, <1>0, <1>2, Constants DEF Renamable
          <5>3. \A m \in Names : f[d].has[m] = None
            BY <5>2, Nodes
          <5>4. d # w.dir
            BY <5>3, <1>0
          <5>5. d # v.dir
            BY <5>1, <5>3, <1>0, Constants
          <5>6. QED
            BY <5>3, <5>4, <5>5
        <4>2. CASE ~InTree(f, d)
          BY <2>18, <3>1, <4>2 DEF Located, Sound
        <4>3. QED
          BY <4>1, <4>2
      <3>3. QED
        BY <2>8, <3>2
    <2>19. Sound(g)
      BY <2>6, <2>15, <2>16, <2>17, <2>18 DEF Sound
    <2>20. QED
      BY <2>4, <2>6, <2>7, <2>8, <2>14, <2>19
  <1>3. QED
    BY <1>1, <1>2

\* The contents of a file are changed.
LEMMA DataSet ==
    ASSUME NEW f, Sound(f), NEW o \in Inodes, f[o].kind = "file", NEW d \in Seq(Blocks)
    PROVE  \E g : /\ g = [f EXCEPT ![o].data = d]
                  /\ FsType(g) /\ Sound(g)
                  /\ \A i \in Inodes : g[i].kind = f[i].kind
                  /\ g[o].data = d /\ \A i \in Inodes \ {o} : g[i] = f[i]
                  /\ \A e \in Inodes, m \in Names, i \in Inodes : Entered(g, e, m, i) <=> Entered(f, e, m, i)
                  /\ \A i \in Inodes : InTree(g, i) <=> InTree(f, i)
  <1>0. FsType(f) /\ IsNode(f[o])
    BY DEF Sound, FsType
  <1>1. PICK g : g = [f EXCEPT ![o].data = d]
    OBVIOUS
  <1>2. [f[o] EXCEPT !.data = d] = File(d)
    BY <1>0, PutData
  <1>3. g = [i \in Inodes |-> IF i = o THEN File(d) ELSE f[i]]
    BY <1>0, <1>1, <1>2 DEF FsType
  <1>4. IsNode(File(d)) /\ File(d).kind = "file" /\ File(d).data = d
    BY Nodes
  <1>5. g[o] = File(d) /\ \A i \in Inodes \ {o} : g[i] = f[i]
    BY <1>3
  <1>6. FsType(g) /\ \A i \in Inodes : g[i].kind = f[i].kind
    BY <1>0, <1>3, <1>4, <1>5 DEF FsType
  <1>7. \A e \in Inodes, m \in Names, i \in Inodes : Entered(g, e, m, i) <=> Entered(f, e, m, i)
    BY <1>4, <1>5 DEF Entered, Is
  <1>8. \A i \in Inodes : InTree(g, i) <=> InTree(f, i)
    BY <1>7 DEF InTree
  <1>9. \A e \in Inodes : f[e].kind = "dir" => g[e] = f[e]
    BY <1>5
  <1>10. g[Root].kind = "dir" /\ ~InTree(g, Root)
    BY <1>6, <1>8, Constants DEF Sound
  <1>11. \A i \in Inodes : \A d1, e \in Inodes, n, m \in Names :
            Entered(g, d1, n, i) /\ Entered(g, e, m, i) => d1 = e /\ n = m
    BY <1>7 DEF Sound
  <1>12. \A i \in Inodes : InTree(g, i) => g[i].kind # "free"
    BY <1>6, <1>8 DEF Sound
  <1>13. \A e \in Inodes \ {Root} :
            g[e].kind = "dir" /\ ~InTree(g, e) => \A n \in Names : g[e].has[n] = None
    BY <1>6, <1>8, <1>9 DEF Sound
  <1>14. Sound(g)
    BY <1>6, <1>10, <1>11, <1>12, <1>13 DEF Sound
  <1>15. QED
    BY <1>1, <1>4, <1>5, <1>6, <1>7, <1>8, <1>14

\* What has neither a name nor a descriptor goes, and nothing that is still used.
LEMMA KeptSound ==
    ASSUME NEW f, Sound(f), NEW jobs, \A i \in Inodes : i \in Opened(jobs) => f[i].kind # "free"
    PROVE  \E k : /\ k = Kept(f, jobs)
                  /\ FsType(k) /\ Sound(k)
                  /\ \A i \in Inodes : k[i] = IF i = Root \/ InTree(f, i) \/ i \in Opened(jobs) THEN f[i] ELSE Free
                  /\ \A e \in Inodes, m \in Names, i \in Inodes : Entered(k, e, m, i) <=> Entered(f, e, m, i)
                  /\ \A i \in Inodes : InTree(k, i) <=> InTree(f, i)
                  /\ \A i \in Inodes \ {Root} : k[i].kind = "free" <=> ~InTree(k, i) /\ i \notin Opened(jobs)
  <1>0. FsType(f)
    BY DEF Sound
  <1>1. PICK k : k = Kept(f, jobs)
    OBVIOUS
  <1>2. k = [i \in Inodes |-> IF i \in {Root} \union Linked(f) \union Opened(jobs) THEN f[i] ELSE Free]
    BY <1>1 DEF Kept
  <1>3. \A i \in Inodes : k[i] = IF i = Root \/ InTree(f, i) \/ i \in Opened(jobs) THEN f[i] ELSE Free
    BY <1>0, <1>2, LinkedTree
  <1>4. FsType(k)
    BY <1>0, <1>2, <1>3, Nodes DEF FsType
  <1>5. ASSUME NEW e \in Inodes, NEW m \in Names, NEW i \in Inodes
        PROVE  Entered(k, e, m, i) <=> Entered(f, e, m, i)
    <2>1. CASE e = Root \/ InTree(f, e) \/ e \in Opened(jobs)
      BY <1>3, <2>1 DEF Entered, Is
    <2>2. CASE ~(e = Root \/ InTree(f, e) \/ e \in Opened(jobs))
      <3>1. k[e].kind = "free"
        BY <1>3, <2>2, Nodes
      <3>2. ~Entered(f, e, m, i)
        BY <2>2, Constants DEF Entered, Is, Sound
      <3>3. QED
        BY <3>1, <3>2 DEF Entered, Is
    <2>3. QED
      BY <2>1, <2>2
  <1>6. \A i \in Inodes : InTree(k, i) <=> InTree(f, i)
    BY <1>5 DEF InTree
  <1>7. k[Root].kind = "dir" /\ ~InTree(k, Root)
    BY <1>3, <1>6, Constants DEF Sound
  <1>8. \A i \in Inodes : \A d, e \in Inodes, n, m \in Names :
           Entered(k, d, n, i) /\ Entered(k, e, m, i) => d = e /\ n = m
    BY <1>5 DEF Sound
  <1>9. \A i \in Inodes : InTree(k, i) => k[i].kind # "free"
    BY <1>3, <1>6 DEF Sound
  <1>10. \A d \in Inodes : k[d].kind = "dir" => k[d] = f[d]
    BY <1>3, Nodes
  <1>11. \A d \in Inodes \ {Root} :
            k[d].kind = "dir" /\ ~InTree(k, d) => \A n \in Names : k[d].has[n] = None
    BY <1>6, <1>10 DEF Sound
  <1>12. Sound(k)
    BY <1>4, <1>7, <1>8, <1>9, <1>11 DEF Sound
  <1>13. \A i \in Inodes \ {Root} : k[i].kind = "free" <=> ~InTree(k, i) /\ i \notin Opened(jobs)
    BY <1>3, <1>6, Nodes DEF Sound
  <1>14. QED
    BY <1>1, <1>3, <1>4, <1>5, <1>6, <1>12, <1>13

-----------------------------------------------------------------------------
(* Walks along paths.                                                      *)

Start(p) == [Nowhere EXCEPT !.ino = Root, !.rest = p]

\* Where a walk starts, and where it is when it has got nowhere.
LEMMA StartIs ==
    ASSUME NEW p
    PROVE  /\ Start(p).dir = None /\ Start(p).name = Junk /\ Start(p).ino = Root /\ Start(p).rest = p
           /\ Nowhere.dir = None /\ Nowhere.name = Junk /\ Nowhere.ino = None /\ Nowhere.rest = <<>>
  BY DEF Start, Nowhere

\* What holds at the start of a walk and is kept by a step holds at its end.
LEMMA Hopping ==
    ASSUME NEW S, 0 \in S, \A n \in 1..Hops : n - 1 \in S => n \in S
    PROVE  Hops \in S
  <1>1. 1 \in S /\ 2 \in S /\ 3 \in S /\ 4 \in S
    BY DEF Hops
  <1>2. 5 \in S /\ 6 \in S /\ 7 \in S /\ 8 \in S
    BY <1>1 DEF Hops
  <1>3. QED
    BY <1>2 DEF Hops

\* g is the walk along p: its steps in a row.
Goes(g, f, p, follow) ==
    /\ g[0] = Start(p)
    /\ \A n \in 1..Hops : g[n] = Along(f, g[n - 1], follow)
    /\ Hopped(f, p, follow) = g[Hops]
    /\ Walk(f, p, follow) = IF g[Hops].rest = <<>> THEN g[Hops] ELSE Nowhere

\* Every path has such a walk.
LEMMA WalkGoes ==
    ASSUME NEW f, NEW p, NEW follow
    PROVE  \E g : Goes(g, f, p, follow)
  <1> DEFINE G(h) == [n \in 0..Hops |-> IF n = 0 THEN [Nowhere EXCEPT !.ino = Root, !.rest = p]
                                        ELSE CHOOSE v \in {Along(f, w, follow) : w \in {h[n - 1]}} : TRUE]
  <1> DEFINE go == CHOOSE h : h = G(h)
  <1>0. Hopped(f, p, follow) = go[Hops]
    BY DEF Hopped
  <1>1. Walk(f, p, follow) = CHOOSE v \in {IF w.rest = <<>> THEN w ELSE Nowhere : w \in {go[Hops]}} : TRUE
    BY <1>0 DEF Walk
  <1>2. \A w : (CHOOSE v \in {Along(f, x, follow) : x \in {w}} : TRUE) = Along(f, w, follow)
    OBVIOUS
  <1>3. \A w : (CHOOSE v \in {IF x.rest = <<>> THEN x ELSE Nowhere : x \in {w}} : TRUE)
               = IF w.rest = <<>> THEN w ELSE Nowhere
    OBVIOUS
  <1>4. \E h : h = G(h)
    <2>1. PICK c0, c1, c2, c3, c4, c5, c6, c7, c8 :
             /\ c0 = Start(p) /\ c1 = Along(f, c0, follow)
             /\ c2 = Along(f, c1, follow) /\ c3 = Along(f, c2, follow)
             /\ c4 = Along(f, c3, follow) /\ c5 = Along(f, c4, follow)
             /\ c6 = Along(f, c5, follow) /\ c7 = Along(f, c6, follow)
             /\ c8 = Along(f, c7, follow)
      OBVIOUS
    <2>2. PICK h : h = [n \in 0..Hops |-> IF n = 0 THEN c0 ELSE IF n = 1 THEN c1 ELSE IF n = 2 THEN c2
                           ELSE IF n = 3 THEN c3 ELSE IF n = 4 THEN c4 ELSE IF n = 5 THEN c5
                           ELSE IF n = 6 THEN c6 ELSE IF n = 7 THEN c7 ELSE c8]
      OBVIOUS
    <2>3. /\ h[0] = c0 /\ h[1] = c1 /\ h[2] = c2 /\ h[3] = c3 /\ h[4] = c4
          /\ h[5] = c5 /\ h[6] = c6 /\ h[7] = c7 /\ h[8] = c8
      BY <2>2 DEF Hops
    <2>4. \A n \in 1..Hops : h[n] = Along(f, h[n - 1], follow)
      <3>1. \A n \in 1..Hops : n = 1 \/ n = 2 \/ n = 3 \/ n = 4 \/ n = 5 \/ n = 6 \/ n = 7 \/ n = 8
        BY DEF Hops
      <3>2. 1 - 1 = 0 /\ 2 - 1 = 1 /\ 3 - 1 = 2 /\ 4 - 1 = 3 /\ 5 - 1 = 4 /\ 6 - 1 = 5 /\ 7 - 1 = 6 /\ 8 - 1 = 7
        OBVIOUS
      <3>3. QED
        BY <2>1, <2>3, <3>1, <3>2
    <2>5. \A n \in 0..Hops : h[n] = IF n = 0 THEN Start(p) ELSE Along(f, h[n - 1], follow)
      BY <2>1, <2>3, <2>4
    <2>6. h = [n \in 0..Hops |-> h[n]]
      BY <2>2
    <2>7. h = [n \in 0..Hops |-> IF n = 0 THEN Start(p) ELSE Along(f, h[n - 1], follow)]
      BY <2>5, <2>6
    <2>8. G(h) = [n \in 0..Hops |-> IF n = 0 THEN Start(p) ELSE Along(f, h[n - 1], follow)]
      BY <1>2 DEF Start
    <2>9. QED
      BY <2>7, <2>8
  <1>5. go = G(go)
    BY <1>4
  <1>6. go = [n \in 0..Hops |-> IF n = 0 THEN Start(p) ELSE Along(f, go[n - 1], follow)]
    <2>1. PICK h : h = go /\ h = G(h)
      BY <1>5
    <2>2. G(h) = [n \in 0..Hops |-> IF n = 0 THEN Start(p) ELSE Along(f, h[n - 1], follow)]
      BY <1>2 DEF Start
    <2>3. QED
      BY <2>1, <2>2
  <1>7. Walk(f, p, follow) = IF go[Hops].rest = <<>> THEN go[Hops] ELSE Nowhere
    BY <1>1, <1>3
  <1>8. PICK h : h = go
    OBVIOUS
  <1> HIDE DEF go
  <1>9. h = [n \in 0..Hops |-> IF n = 0 THEN Start(p) ELSE Along(f, h[n - 1], follow)]
    BY <1>6, <1>8
  <1>10. h[0] = Start(p) /\ \A n \in 1..Hops : h[n] = Along(f, h[n - 1], follow)
    BY <1>9 DEF Hops
  <1>11. Walk(f, p, follow) = IF h[Hops].rest = <<>> THEN h[Hops] ELSE Nowhere
    BY <1>7, <1>8
  <1>12. Hopped(f, p, follow) = h[Hops]
    BY <1>0, <1>8
  <1>13. QED
    BY <1>10, <1>11, <1>12 DEF Goes

\* Where a walk can be: at the root with all of a path before it, at an entry of a directory
\* of the tree, or nowhere.
Visit(f, follow, w) ==
    /\ w.ino \in Inodes \union {None} /\ w.rest \in Seq(Names)
    /\ w.dir # None => Located(f, w)
    /\ w.dir = None => w.ino \in {Root, None}
    /\ w.ino # None /\ f[w.ino].kind = "link" => ~follow /\ w.rest = <<>>

\* A walk starts at such a place.
LEMMA VisitStart ==
    ASSUME NEW f, Sound(f), NEW follow
    PROVE  /\ \A p \in Seq(Names) : Visit(f, follow, Start(p))
           /\ Visit(f, follow, Nowhere)
  <1>1. f[Root].kind = "dir" /\ <<>> \in Seq(Names)
    BY DEF Sound
  <1>2. QED
    BY <1>1, StartIs, Constants DEF Visit

\* A step leads from such a place to such a place.
LEMMA VisitAlong ==
    ASSUME NEW f, Sound(f), NEW follow, NEW w, Visit(f, follow, w)
    PROVE  Visit(f, follow, Along(f, w, follow))
  <1>1. CASE w.rest = <<>>
    BY <1>1 DEF Along
  <1>2. CASE w.rest # <<>> /\ (w.ino = None \/ f[w.ino].kind # "dir")
    BY <1>2, VisitStart DEF Along
  <1>3. CASE w.rest # <<>> /\ w.ino # None /\ f[w.ino].kind = "dir"
    <2>1. PICK n : n = Head(w.rest)
      OBVIOUS
    <2>2. PICK i : i = f[w.ino].has[n]
      OBVIOUS
    <2>3. n \in Names /\ Tail(w.rest) \in Seq(Names) /\ w.ino \in Inodes
      BY <1>3, <2>1 DEF Visit
    <2>4. IsNode(f[w.ino]) /\ f[w.ino].has \in [Names -> Inodes \union {None}]
      BY <1>3, <2>3, NodeKinds DEF Sound, FsType
    <2>5. i \in Inodes \union {None}
      BY <2>2, <2>3, <2>4
    <2>6. CASE i # None /\ f[i].kind = "link" /\ (follow \/ Len(w.rest) > 1)
      <3>1. Along(f, w, follow) = Start(f[i].to \o Tail(w.rest))
        BY <1>3, <2>1, <2>2, <2>6 DEF Along, Start
      <3>2. i \in Inodes /\ IsNode(f[i])
        BY <2>5, <2>6 DEF Sound, FsType
      <3>3. f[i].to \in Seq(Names)
        BY <3>2, <2>6, NodeKinds
      <3>4. f[i].to \o Tail(w.rest) \in Seq(Names)
        BY <2>3, <3>3
      <3>5. QED
        BY <3>1, <3>4, VisitStart
    <2>7. CASE ~(i # None /\ f[i].kind = "link" /\ (follow \/ Len(w.rest) > 1))
      <3>1. PICK v : v = [dir |-> w.ino, name |-> n, ino |-> i, rest |-> Tail(w.rest)]
        OBVIOUS
      <3>2. Along(f, w, follow) = v
        BY <1>3, <2>1, <2>2, <2>7, <3>1 DEF Along
      <3>3. v.dir = w.ino /\ v.name = n /\ v.ino = i /\ v.rest = Tail(w.rest)
        BY <3>1
      <3>4. w.ino = Root \/ InTree(f, w.ino)
        <4>1. CASE w.dir = None
          BY <1>3, <4>1 DEF Visit
        <4>2. CASE w.dir # None
          <5>1. w.dir \in Inodes /\ w.name \in Names /\ Entered(f, w.dir, w.name, w.ino)
            BY <4>2 DEF Visit, Located, Entered
          <5>2. QED
            BY <5>1 DEF InTree
        <4>3. QED
          BY <4>1, <4>2
      <3>5. Located(f, v)
        BY <1>3, <2>2, <2>3, <2>5, <3>3, <3>4 DEF Located, Is
      <3>6. i # None /\ f[i].kind = "link" => ~follow /\ Tail(w.rest) = <<>>
        <4>1. ~(Len(w.rest) > 1) => Tail(w.rest) = <<>>
          BY <1>3 DEF Visit
        <4>2. QED
          BY <2>7, <4>1
      <3>7. Visit(f, follow, v)
        BY <1>3, <2>3, <2>5, <3>3, <3>5, <3>6 DEF Visit
      <3>8. QED
        BY <3>2, <3>7
    <2>8. QED
      BY <2>6, <2>7
  <1>4. QED
    BY <1>1, <1>2, <1>3

\* Where a path leads.
LEMMA WalkType ==
    ASSUME NEW f, Sound(f), NEW p \in Seq(Names), NEW follow
    PROVE  Visit(f, follow, Walk(f, p, follow)) /\ Walk(f, p, follow).rest = <<>>
  <1>1. PICK g : Goes(g, f, p, follow)
    BY WalkGoes
  <1> DEFINE S == {n \in 0..Hops : Visit(f, follow, g[n])}
  <1>2. 0 \in S
    <2>1. Visit(f, follow, Start(p))
      BY VisitStart
    <2>2. QED
      BY <1>1, <2>1 DEF Goes, Hops
  <1>3. \A n \in 1..Hops : n - 1 \in S => n \in S
    BY <1>1, VisitAlong DEF Goes, Hops
  <1>4. Hops \in S
    BY <1>2, <1>3, Hopping
  <1>5. QED
    BY <1>1, <1>4, VisitStart, StartIs DEF Goes

-----------------------------------------------------------------------------
(* The requests.                                                           *)

Chars == Names \union {"/", "nul"}
Visits == [path : Seq(Names), last : BOOLEAN]

\* Which function a slave is in.
Stage(j) ==
    /\ j.op \in OnePath \union TwoPath \union {"none"}
    /\ j.pc \in {"exists", "mkdir"} => j.op = "mkdir"
    /\ j.pc = "rename" => j.op = "move"
    /\ j.pc \in {"source", "target", "fstat", "sendfile"} => j.op = "copy"
    /\ j.pc = "unlink" => j.op = "remove"
    /\ j.pc = "tree" => j.op = "rmtree"
    /\ j.pc \in {"cp", "cpwrite"} => j.op = "cptree"
    /\ j.pc \in {"access", "isdir", "size"} => j.op = "stat"
    /\ j.pc \in {"fopen", "fread"} => j.op = "md5"
    /\ j.pc \in {"readlink", "symlink"} => j.op = "symlink"
    /\ j.pc \in {"opendir", "entry", "entrysize"} => j.op = "ls"
    /\ j.op = "none" <=> j.pc = "free"

\* A request and its locals, while the files are f.
JobType(j, f) ==
    /\ DOMAIN j = DOMAIN NoJob
    /\ Stage(j)
    /\ j.p \in Seq(Names) /\ j.q \in Seq(Names)
    /\ j.op # "ls" => j.at \in Seq(Names)
    /\ j.in \in Inodes \union {None} /\ j.out \in Inodes \union {None}
    /\ j.in # None => f[j.in].kind # "free"
    /\ j.out # None => f[j.out].kind = "file"
    /\ j.pc \notin {"target", "fstat", "sendfile", "cpwrite", "fread", "done"} => j.in = None
    /\ j.pc \notin {"fstat", "sendfile", "cpwrite", "done"} => j.out = None
    /\ j.spoilt \in BOOLEAN /\ j.missed \in BOOLEAN
    /\ j.pc = "tree" => j.todo \in Seq(Visits) /\ j.todo # <<>>
    /\ j.pc \in {"entry", "entrysize"} => j.todo \in Seq(Names)
    /\ j.pc = "entrysize" => j.todo # <<>>
    /\ j.pc = "fread" => j.in # None
    /\ j.used \in Nat /\ j.used <= BufferSize - 2
    /\ j.answer \in {"none", "ACTION_COMPLETED", "ERROR_OCCURED"}
    /\ j.answer # "none" <=> j.pc = "done"

\* All of the source is in the copy.
Whole(j, f) ==
    /\ IsPrefix(f[j.in].data, f[j.out].data)
    /\ j.op = "cptree" => f[j.out].data = f[j.in].data

\* What a copy relies on as it goes on: the size is that of its source, cp's target is empty
\* and is not its source.
CopyInv(j, f) ==
    /\ j.pc = "sendfile" =>
          /\ j.size \in Int /\ (j.in # None => 0 <= j.size)
          /\ ~j.spoilt /\ Is(f, j.in, "file") => j.size = Len(f[j.in].data)
    /\ j.pc = "cpwrite" =>
          /\ j.in # None /\ j.out # None /\ j.in # j.out /\ f[j.in].kind = "file"
          /\ ~j.spoilt => f[j.out].data = <<>>
    /\ j.op \in {"copy", "cptree"} /\ j.answer = "ACTION_COMPLETED" /\ j.in # None =>
          /\ f[j.in].kind = "file" /\ j.out # None
          /\ ~j.spoilt /\ ~j.missed => Whole(j, f)

\* The locals of a request.
LEMMA JobFields ==
    DOMAIN NoJob = {"op", "pc", "p", "q", "at", "in", "out", "size", "todo", "got", "sum",
                    "used", "before", "spoilt", "missed", "answer"}
  BY DEF NoJob

\* The same request, but for what others have done to it.
Like(k, j) ==
    /\ DOMAIN k = DOMAIN NoJob
    /\ k.op = j.op /\ k.pc = j.pc /\ k.p = j.p /\ k.q = j.q /\ k.at = j.at /\ k.in = j.in
    /\ k.out = j.out /\ k.size = j.size /\ k.todo = j.todo /\ k.got = j.got /\ k.sum = j.sum
    /\ k.used = j.used /\ k.missed = j.missed /\ k.answer = j.answer
    /\ k.spoilt \in BOOLEAN /\ (j.spoilt => k.spoilt)

\* What the request has open is the same in g, unless k says that it is not; it is of the
\* same kind in any case.
Undisturbed(f, g, j, k) ==
    /\ j.in # None => g[j.in].kind = f[j.in].kind
    /\ j.out # None => g[j.out].kind = f[j.out].kind
    /\ ~k.spoilt /\ j.pc # "free" =>
          (j.in # None => g[j.in] = f[j.in]) /\ (j.out # None => g[j.out] = f[j.out])

\* A request depends on the files only through what it has open.
LEMMA JobStable ==
    ASSUME NEW f, NEW g, NEW j, JobType(j, f), CopyInv(j, f), NEW k, Like(k, j),
           Undisturbed(f, g, j, k)
    PROVE  JobType(k, g) /\ CopyInv(k, g)
  <1>0. /\ j.in # None => g[j.in].kind = f[j.in].kind
        /\ j.out # None => g[j.out].kind = f[j.out].kind
        /\ ~k.spoilt /\ j.pc # "free" =>
              (j.in # None => g[j.in] = f[j.in]) /\ (j.out # None => g[j.out] = f[j.out])
    BY DEF Undisturbed
  <1>1. JobType(k, g)
    <2>1. Stage(k)
      BY DEF JobType, Like, Stage
    <2>2. QED
      BY <1>0, <2>1 DEF JobType, Like
  <1>2. ~k.spoilt => ~j.spoilt
    BY DEF Like
  <1>3. k.pc = "sendfile" =>
          /\ k.size \in Int /\ (k.in # None => 0 <= k.size)
          /\ ~k.spoilt /\ Is(g, k.in, "file") => k.size = Len(g[k.in].data)
    BY <1>0, <1>2 DEF Like, CopyInv, Is
  <1>4. k.pc = "cpwrite" =>
          /\ k.in # None /\ k.out # None /\ k.in # k.out /\ g[k.in].kind = "file"
          /\ ~k.spoilt => g[k.out].data = <<>>
    BY <1>0, <1>2 DEF Like, CopyInv
  <1>5. k.op \in {"copy", "cptree"} /\ k.answer = "ACTION_COMPLETED" /\ k.in # None =>
          /\ g[k.in].kind = "file" /\ k.out # None
          /\ ~k.spoilt /\ ~k.missed => Whole(k, g)
    <2>1. j.answer = "ACTION_COMPLETED" => j.pc # "free"
      BY DEF JobType
    <2>2. QED
      BY <1>0, <1>2, <2>1 DEF Like, CopyInv, Whole
  <1>6. QED
    BY <1>1, <1>3, <1>4, <1>5 DEF CopyInv

\* What holds of the files, the slots and the slaves.
OpsInv ==
    /\ Sound(fs)
    /\ \A i \in Inodes \ {Root} : fs[i].kind = "free" <=> ~InTree(fs, i) /\ i \notin Opened(job)
    /\ DOMAIN job = Slots /\ \A s \in Slots : JobType(job[s], fs) /\ CopyInv(job[s], fs)
    /\ mem \in [Slots -> [1..Cells -> Chars]]
    /\ asked \in 0..Requests

\* There is room in the buffer for the answer code.
LEMMA BufferLarge == BufferSize - 2 \in Nat
  <1>1. NameLen[Junk] \in 1..255 /\ NameLen[Junk] + MinRemaining <= BufferSize /\ BufferSize \in Nat
    BY FileOpsAssumption
  <1>2. QED
    BY <1>1 DEF MinRemaining

\* Nothing is open in a free slot.
LEMMA FreeSlot == ASSUME NEW f PROVE JobType(NoJob, f) /\ CopyInv(NoJob, f)
  <1>1. Stage(NoJob)
    BY DEF Stage, NoJob, OnePath, TwoPath
  <1>2. <<>> \in Seq(Names)
    OBVIOUS
  <1>3. QED
    BY <1>1, <1>2, BufferLarge DEF JobType, CopyInv, NoJob

\* The server starts with a tree and free slots.
LEMMA InitOps == Init => OpsInv
  <1> SUFFICES ASSUME Init PROVE OpsInv
    OBVIOUS
  <1>1. /\ fs = [i \in Inodes |-> fs[i]] /\ \A i \in Inodes : IsNode(fs[i])
        /\ fs[Root].kind = "dir" /\ Root \notin Linked(fs)
        /\ \A i \in Inodes \ {Root} : fs[i] = Free <=> i \notin Linked(fs)
        /\ \A i \in Inodes : \A x, y \in NamesOf(fs, i) : x = y
    BY TreesAssumption DEF Init
  <1>2. FsType(fs)
    BY <1>1 DEF FsType
  <1>3. \A i \in Inodes : i \in Linked(fs) <=> InTree(fs, i)
    BY <1>2, LinkedTree
  <1>4. \A i \in Inodes : fs[i].kind = "free" <=> fs[i] = Free
    BY <1>1, NodeKinds
  <1>5. ASSUME NEW i \in Inodes, NEW d \in Inodes, NEW e \in Inodes, NEW n \in Names, NEW m \in Names,
               Entered(fs, d, n, i), Entered(fs, e, m, i)
        PROVE  d = e /\ n = m
    <2>1. <<d, n>> \in NamesOf(fs, i) /\ <<e, m>> \in NamesOf(fs, i)
      BY <1>5 DEF NamesOf, Entered
    <2>2. <<d, n>> = <<e, m>>
      BY <1>1, <2>1
    <2>3. QED
      BY <2>2
  <1>6. \A i \in Inodes : InTree(fs, i) => fs[i].kind # "free"
    <2>1. \A i \in Inodes \ {Root} : InTree(fs, i) => fs[i].kind # "free"
      BY <1>1, <1>3, <1>4
    <2>2. QED
      BY <1>1, <2>1
  <1>7. \A d \in Inodes \ {Root} : fs[d].kind = "dir" => InTree(fs, d)
    BY <1>1, <1>3, Nodes
  <1>8. Sound(fs)
    BY <1>1, <1>2, <1>3, <1>5, <1>6, <1>7, Constants DEF Sound
  <1>9. \A s \in Slots : job[s] = NoJob
    BY DEF Init
  <1>10. \A i \in Inodes : i \notin Opened(job)
    BY <1>9, Constants DEF Opened, NoJob
  <1>11. \A i \in Inodes \ {Root} : fs[i].kind = "free" <=> ~InTree(fs, i) /\ i \notin Opened(job)
    BY <1>1, <1>3, <1>4, <1>10
  <1>12. JobType(NoJob, fs) /\ CopyInv(NoJob, fs)
    BY FreeSlot
  <1>13. mem \in [Slots -> [1..Cells -> Chars]]
    BY DEF Init, Chars
  <1>14. DOMAIN job = Slots /\ asked \in 0..Requests
    BY FileOpsAssumption DEF Init
  <1>15. QED
    BY <1>8, <1>9, <1>11, <1>12, <1>13, <1>14 DEF OpsInv

\* A call of slot s: its locals become j, the files f, but for what is not used any more.
LEMMA CallKeeps ==
    ASSUME OpsInv, NEW s \in Slots, NEW j, NEW f, NEW m \in [1..Cells -> Chars], CallOn(s, j, f, m),
           Sound(f), \A i \in Inodes : fs[i].kind # "free" => f[i].kind = fs[i].kind,
           JobType(j, f), CopyInv(j, f)
    PROVE  OpsInv'
  <1> DEFINE jobs == [job EXCEPT ![s] = j]
  <1>0. DOMAIN job = Slots /\ \A t \in Slots : JobType(job[t], fs) /\ CopyInv(job[t], fs)
    BY DEF OpsInv
  <1>1. PICK after \in {Kept(f, jobs)} :
                     /\ fs' = after /\ mem' = [mem EXCEPT ![s] = m]
                     /\ job' = [t \in Slots |->
                           IF t = s THEN j
                           ELSE IF after = fs \/ job[t].pc = "free" THEN job[t]
                           ELSE [job[t] EXCEPT !.before = None,
                                    !.spoilt = @ \/ \E i \in {job[t].in, job[t].out} \ {None} : after[i] # fs[i]]]
                     /\ asked' = asked
    BY Zenon DEF CallOn
  <1>2. ASSUME NEW t \in Slots, t # s
        PROVE  Like(job'[t], job[t])
    <2>1. PICK x \in BOOLEAN : x = (job[t].spoilt \/ \E i \in {job[t].in, job[t].out} \ {None} : after[i] # fs[i])
      BY <1>0 DEF JobType
    <2>2. DOMAIN job[t] = DOMAIN NoJob /\ job[t].spoilt \in BOOLEAN
      BY <1>0 DEF JobType
    <2>3. CASE job'[t] = job[t]
      BY <2>2, <2>3 DEF Like
    <2>4. CASE job'[t] = [job[t] EXCEPT !.before = None, !.spoilt = x]
      BY <2>1, <2>2, <2>4, JobFields DEF Like
    <2>5. job'[t] = job[t] \/ job'[t] = [job[t] EXCEPT !.before = None, !.spoilt = x]
      BY <1>1, <1>2, <2>1
    <2>6. QED
      BY <2>3, <2>4, <2>5
  <1>3. job'[s] = j /\ DOMAIN job' = Slots
    BY <1>1
  <1>4. /\ \A t \in Slots : jobs[t].in = job'[t].in /\ jobs[t].out = job'[t].out
    BY <1>0, <1>2, <1>3 DEF Like
  <1>5. Opened(jobs) = Opened(job')
    BY <1>4 DEF Opened
  <1> HIDE DEF jobs
  <1>6. \A i \in Inodes : i \in Opened(job') => f[i].kind # "free"
    <2>1. \A t \in Slots : t # s => \A i \in Inodes : i \in {job'[t].in, job'[t].out} => f[i].kind # "free"
      <3>1. SUFFICES ASSUME NEW t \in Slots, t # s, NEW i \in Inodes, i \in {job[t].in, job[t].out}
                     PROVE  f[i].kind # "free"
        BY <1>2 DEF Like
      <3>2. fs[i].kind # "free"
        BY <1>0, <3>1, Constants DEF JobType
      <3>3. QED
        BY <3>2
    <2>2. \A i \in Inodes : i \in {job'[s].in, job'[s].out} => f[i].kind # "free"
      BY <1>3, Constants DEF JobType
    <2>3. QED
      BY <2>1, <2>2 DEF Opened
  <1>7. /\ FsType(after) /\ Sound(after)
        /\ \A i \in Inodes : after[i] = IF i = Root \/ InTree(f, i) \/ i \in Opened(job') THEN f[i] ELSE Free
        /\ \A i \in Inodes \ {Root} : after[i].kind = "free" <=> ~InTree(after, i) /\ i \notin Opened(job')
    <2>1. \A i \in Inodes : i \in Opened(jobs) => f[i].kind # "free"
      BY <1>5, <1>6
    <2>2. PICK k : /\ k = Kept(f, jobs)
                   /\ FsType(k) /\ Sound(k)
                   /\ \A i \in Inodes : k[i] = IF i = Root \/ InTree(f, i) \/ i \in Opened(jobs) THEN f[i] ELSE Free
                   /\ \A i \in Inodes \ {Root} : k[i].kind = "free" <=> ~InTree(k, i) /\ i \notin Opened(jobs)
      BY <2>1, KeptSound
    <2>3. k = after
      BY <1>1, <2>2
    <2>4. QED
      BY <1>5, <2>2, <2>3
  <1>8. JobType(j, after) /\ CopyInv(j, after)
    <2>1. Like(j, j)
      BY DEF Like, JobType
    <2>2. \A i \in Inodes : i \in {j.in, j.out} => after[i] = f[i]
      BY <1>3, <1>7 DEF Opened
    <2>3. j.in \in Inodes \union {None} /\ j.out \in Inodes \union {None}
      BY DEF JobType
    <2>4. (j.in # None => after[j.in] = f[j.in]) /\ (j.out # None => after[j.out] = f[j.out])
      BY <2>2, <2>3
    <2>5. (j.in # None => after[j.in].kind = f[j.in].kind) /\ (j.out # None => after[j.out].kind = f[j.out].kind)
      BY <2>4
    <2>6. ~j.spoilt /\ j.pc # "free" => (j.in # None => after[j.in] = f[j.in]) /\ (j.out # None => after[j.out] = f[j.out])
      BY <2>4
    <2>7. QED
      BY <2>1, <2>5, <2>6, JobStable DEF Undisturbed
  <1>9. ASSUME NEW t \in Slots, t # s PROVE JobType(job'[t], after) /\ CopyInv(job'[t], after)
    <2>1. JobType(job[t], fs) /\ CopyInv(job[t], fs) /\ Like(job'[t], job[t])
      BY <1>0, <1>2, <1>9
    <2>2. job[t].in \in Inodes \union {None} /\ job[t].out \in Inodes \union {None}
      BY <2>1 DEF JobType
    <2>3. ASSUME NEW i \in {job[t].in, job[t].out}, i # None PROVE after[i].kind = fs[i].kind
      <3>1. i \in Inodes /\ fs[i].kind # "free"
        BY <2>1, <2>2, <2>3 DEF JobType
      <3>2. i \in Opened(job')
        BY <1>2, <1>9, <2>3 DEF Opened, Like
      <3>3. QED
        BY <1>7, <3>1, <3>2
    <2>4. ASSUME ~job'[t].spoilt, job[t].pc # "free", NEW i \in {job[t].in, job[t].out}, i # None
          PROVE  after[i] = fs[i]
      <3>1. CASE after = fs
        BY <3>1
      <3>2. CASE after # fs
        <4>1. PICK x : x = (job[t].spoilt \/ \E k \in {job[t].in, job[t].out} \ {None} : after[k] # fs[k])
          OBVIOUS
        <4>2. job'[t] = [job[t] EXCEPT !.before = None, !.spoilt = x]
          BY <1>1, <1>9, <2>4, <3>2, <4>1
        <4>3. job'[t].spoilt = x
          BY <2>1, <4>2, JobFields DEF JobType
        <4>4. QED
          BY <2>4, <4>1, <4>3
      <3>3. QED
        BY <3>1, <3>2
    <2>5. /\ job[t].in # None => after[job[t].in].kind = fs[job[t].in].kind
          /\ job[t].out # None => after[job[t].out].kind = fs[job[t].out].kind
      BY <2>3
    <2>6. ~job'[t].spoilt /\ job[t].pc # "free" =>
             /\ job[t].in # None => after[job[t].in] = fs[job[t].in]
             /\ job[t].out # None => after[job[t].out] = fs[job[t].out]
      BY <2>4
    <2>7. PICK k, l, b : k = job'[t] /\ l = job[t] /\ b = fs
      OBVIOUS
    <2>8. JobType(l, b) /\ CopyInv(l, b) /\ Like(k, l)
      BY <2>1, <2>7
    <2>9. Undisturbed(b, after, l, k)
      BY <2>5, <2>6, <2>7 DEF Undisturbed
    <2>10. JobType(k, after) /\ CopyInv(k, after)
      BY <2>8, <2>9, JobStable
    <2>11. QED
      BY <2>7, <2>10
  <1>10. mem' \in [Slots -> [1..Cells -> Chars]] /\ asked' \in 0..Requests
    BY <1>1 DEF OpsInv
  <1>11. \A t \in Slots : JobType(job'[t], fs') /\ CopyInv(job'[t], fs')
    BY <1>1, <1>3, <1>8, <1>9
  <1>12. QED
    BY <1>1, <1>3, <1>7, <1>10, <1>11 DEF OpsInv

\* What a path leads to is there, and unless the call does not follow links, it is no link.
LEMMA Found ==
    ASSUME NEW f, Sound(f), NEW p \in Seq(Names), NEW follow, NEW w, w = Walk(f, p, follow)
    PROVE  /\ w.ino \in Inodes \union {None}
           /\ w.ino # None => f[w.ino].kind # "free" /\ (follow => f[w.ino].kind # "link")
           /\ w.dir # None => Located(f, w)
  <1>1. Visit(f, follow, w)
    BY WalkType
  <1>2. CASE w.dir = None
    BY <1>1, <1>2 DEF Visit, Sound
  <1>3. CASE w.dir # None
    <2>1. Located(f, w)
      BY <1>1, <1>3 DEF Visit
    <2>2. w.ino # None => Entered(f, w.dir, w.name, w.ino) /\ w.ino \in Inodes /\ w.dir \in Inodes /\ w.name \in Names
      BY <2>1 DEF Located, Entered
    <2>3. w.ino # None => f[w.ino].kind # "free"
      BY <2>2 DEF Sound, InTree
    <2>4. QED
      BY <1>1, <2>1, <2>3 DEF Visit
  <1>4. QED
    BY <1>2, <1>3

\* A request stays well-formed while no kind changes.
LEMMA KindsKeep ==
    ASSUME NEW f, NEW j, JobType(j, f), NEW g,
           \A i \in Inodes : f[i].kind # "free" => g[i].kind = f[i].kind
    PROVE  JobType(j, g)
  <1>1. (j.in # None => g[j.in].kind = f[j.in].kind) /\ (j.out # None => g[j.out].kind = f[j.out].kind)
    BY DEF JobType
  <1>2. QED
    BY <1>1 DEF JobType

\* The request is answered.
LEMMA Returned ==
    ASSUME NEW f, NEW j, JobType(j, f), j.pc # "free", NEW ok \in BOOLEAN,
           ok /\ j.op \in {"copy", "cptree"} /\ j.in # None =>
              f[j.in].kind = "file" /\ j.out # None /\ (~j.spoilt /\ ~j.missed => Whole(j, f))
    PROVE  JobType(Return(j, ok), f) /\ CopyInv(Return(j, ok), f)
  <1>1. PICK a : a = IF ok THEN "ACTION_COMPLETED" ELSE "ERROR_OCCURED"
    OBVIOUS
  <1>2. PICK k : k = [j EXCEPT !.pc = "done", !.answer = a]
    OBVIOUS
  <1>3. k = Return(j, ok)
    BY <1>1, <1>2 DEF Return
  <1>4. /\ DOMAIN k = DOMAIN NoJob /\ k.pc = "done" /\ k.answer = a
        /\ k.op = j.op /\ k.p = j.p /\ k.q = j.q /\ k.at = j.at /\ k.in = j.in
        /\ k.out = j.out /\ k.size = j.size /\ k.todo = j.todo
        /\ k.used = j.used /\ k.spoilt = j.spoilt /\ k.missed = j.missed
    BY <1>2, JobFields DEF JobType
  <1>5. a \in {"ACTION_COMPLETED", "ERROR_OCCURED"} /\ (a = "ACTION_COMPLETED" => ok)
    BY <1>1
  <1>6. Stage(k)
    BY <1>4 DEF JobType, Stage
  <1>7. JobType(k, f)
    BY <1>4, <1>5, <1>6 DEF JobType
  <1>8. CopyInv(k, f)
    BY <1>4, <1>5 DEF CopyInv, Whole
  <1>9. QED
    BY <1>3, <1>7, <1>8

\* The same for what is no copy.
LEMMA Answered ==
    ASSUME NEW f, NEW j, JobType(j, f), NEW g, \A i \in Inodes : f[i].kind # "free" => g[i].kind = f[i].kind,
           j.pc # "free", j.op \notin {"copy", "cptree"}, NEW ok \in BOOLEAN
    PROVE  JobType(Return(j, ok), g) /\ CopyInv(Return(j, ok), g)
  <1>1. JobType(j, g)
    BY KindsKeep
  <1>2. QED
    BY <1>1, Returned

\* What a function does not look at is noted beside its locals.
LEMMA Missing ==
    ASSUME NEW f, NEW j, JobType(j, f), NEW x \in BOOLEAN, NEW k, k = Miss(j, x)
    PROVE  /\ JobType(k, f) /\ (CopyInv(j, f) => CopyInv(k, f)) /\ (k.missed <=> j.missed \/ x)
           /\ k.op = j.op /\ k.pc = j.pc /\ k.p = j.p /\ k.q = j.q /\ k.at = j.at /\ k.in = j.in
           /\ k.out = j.out /\ k.size = j.size /\ k.todo = j.todo /\ k.got = j.got /\ k.sum = j.sum
           /\ k.used = j.used /\ k.before = j.before /\ k.spoilt = j.spoilt /\ k.answer = j.answer
  <1>1. PICK y \in BOOLEAN : y = (j.missed \/ x)
    BY DEF JobType
  <1>2. k = [j EXCEPT !.missed = y]
    BY <1>1 DEF Miss
  <1>3. /\ DOMAIN k = DOMAIN NoJob /\ k.missed = y
        /\ k.op = j.op /\ k.pc = j.pc /\ k.p = j.p /\ k.q = j.q /\ k.at = j.at /\ k.in = j.in
        /\ k.out = j.out /\ k.size = j.size /\ k.todo = j.todo /\ k.got = j.got /\ k.sum = j.sum
        /\ k.used = j.used /\ k.before = j.before /\ k.spoilt = j.spoilt /\ k.answer = j.answer
    BY <1>2, JobFields DEF JobType
  <1>4. Stage(k)
    BY <1>3 DEF JobType, Stage
  <1>5. JobType(k, f)
    BY <1>3, <1>4 DEF JobType
  <1>6. CopyInv(j, f) => CopyInv(k, f)
    BY <1>1, <1>3 DEF CopyInv, Whole
  <1>7. QED
    BY <1>1, <1>3, <1>5, <1>6

\* What holds of a slot that is used.
LEMMA Slot ==
    ASSUME OpsInv, NEW s \in Slots
    PROVE  /\ Sound(fs) /\ JobType(job[s], fs) /\ CopyInv(job[s], fs)
           /\ mem[s] \in [1..Cells -> Chars]
           /\ job[s].p \in Seq(Names) /\ job[s].q \in Seq(Names)
  BY DEF OpsInv, JobType

\* A call that changes the locals only.
LEMMA LocalCall ==
    ASSUME OpsInv, NEW s \in Slots, NEW j, NEW m \in [1..Cells -> Chars], CallOn(s, j, fs, m),
           JobType(j, fs), CopyInv(j, fs)
    PROVE  OpsInv'
  <1>1. Sound(fs)
    BY DEF OpsInv
  <1>2. QED
    BY <1>1, CallKeeps

\* The same request, still under way.
Still(k, j) ==
    /\ DOMAIN k = DOMAIN NoJob
    /\ k.op = j.op /\ k.p = j.p /\ k.q = j.q /\ k.spoilt = j.spoilt /\ k.missed = j.missed /\ k.answer = "none"

\* The request goes on with another step.
LEMMA Gone ==
    ASSUME NEW f, NEW j, JobType(j, f), j.pc \notin {"free", "done", "sendfile", "cpwrite"}, NEW pc
    PROVE  \E k : /\ k = Goto(j, pc) /\ k.pc = pc /\ Still(k, j)
                  /\ k.at = j.at /\ k.in = j.in /\ k.out = j.out /\ k.size = j.size
                  /\ k.todo = j.todo /\ k.used = j.used
  <1>1. PICK k : k = [j EXCEPT !.pc = pc]
    OBVIOUS
  <1>2. k = Goto(j, pc)
    BY <1>1 DEF Goto
  <1>3. QED
    BY <1>1, <1>2, JobFields DEF JobType, Still

-----------------------------------------------------------------------------
(* createDirectory, moveFile, removeFile                                   *)

LEMMA MkdirStatKeeps == ASSUME OpsInv, NEW s \in Slots, MkdirStat(s) PROVE OpsInv'
  <1>1. PICK j : j = job[s]
    OBVIOUS
  <1>2. JobType(j, fs) /\ j.pc = "exists" /\ mem[s] \in [1..Cells -> Chars] /\ j.op = "mkdir"
    BY <1>1, Slot DEF MkdirStat, At, JobType, Stage
  <1>3. JobType(Return(j, TRUE), fs) /\ CopyInv(Return(j, TRUE), fs)
    BY <1>2, Answered
  <1>4. PICK k : /\ k = Goto(j, "mkdir") /\ k.pc = "mkdir" /\ Still(k, j)
                 /\ k.at = j.at /\ k.in = j.in /\ k.out = j.out /\ k.used = j.used
    BY <1>2, Gone
  <1>5. JobType(k, fs) /\ CopyInv(k, fs)
    BY <1>2, <1>4 DEF JobType, CopyInv, Still, Stage
  <1>6. PICK l : /\ l = (IF Walk(fs, j.p, TRUE).ino # None THEN Return(j, TRUE) ELSE Goto(j, "mkdir"))
                 /\ CallOn(s, l, fs, mem[s])
    BY <1>1 DEF MkdirStat, Call
  <1>7. JobType(l, fs) /\ CopyInv(l, fs)
    BY <1>3, <1>4, <1>5, <1>6
  <1>8. QED
    BY <1>2, <1>6, <1>7, LocalCall

LEMMA MkdirKeeps == ASSUME OpsInv, NEW s \in Slots, Mkdir(s) PROVE OpsInv'
  <1>1. PICK j : j = job[s]
    OBVIOUS
  <1>2. /\ JobType(j, fs) /\ j.pc = "mkdir" /\ mem[s] \in [1..Cells -> Chars] /\ j.op = "mkdir"
        /\ j.p \in Seq(Names) /\ Sound(fs)
    BY <1>1, Slot DEF Mkdir, At, JobType, Stage
  <1>3. PICK w : w = Walk(fs, j.p, FALSE)
    OBVIOUS
  <1>4. PICK ok \in BOOLEAN : ok = Creatable(fs, w)
    BY DEF Creatable
  <1>5. PICK f : /\ f = (IF ok THEN Create(fs, w, EmptyDir) ELSE fs)
                 /\ CallOn(s, Return(j, ok), f, mem[s])
    BY <1>1, <1>3, <1>4 DEF Mkdir, Call
  <1>6. Sound(f) /\ \A i \in Inodes : fs[i].kind # "free" => f[i].kind = fs[i].kind
    <2>1. CASE ok
      <3>1. Located(fs, w) /\ Creatable(fs, w)
        BY <1>2, <1>3, <1>4, <2>1, Found DEF Creatable
      <3>2. PICK u \in Unused(fs) : \E g : /\ g = Create(fs, w, EmptyDir) /\ Sound(g)
                                           /\ \A i \in Inodes \ {u} : g[i].kind = fs[i].kind
        <4>1. IsNode(EmptyDir) /\ EmptyDir.kind # "free" /\ \A n \in Names : EmptyDir.has[n] = None
          BY Nodes
        <4>2. QED
          BY <1>2, <3>1, <4>1, Created
      <3>3. fs[u].kind = "free"
        BY Nodes DEF Unused
      <3>4. QED
        BY <1>5, <2>1, <3>2, <3>3
    <2>2. CASE ~ok
      BY <1>2, <1>5, <2>2
    <2>3. QED
      BY <2>1, <2>2
  <1>7. JobType(Return(j, ok), f) /\ CopyInv(Return(j, ok), f)
    BY <1>2, <1>6, Answered
  <1>8. QED
    BY <1>2, <1>5, <1>6, <1>7, CallKeeps

\* rename() is one call, which may take a name from what had it.
LEMMA MoveKeeps == ASSUME OpsInv, NEW s \in Slots, Move(s) PROVE OpsInv'
  <1>1. PICK j : j = job[s]
    OBVIOUS
  <1>2. /\ JobType(j, fs) /\ j.pc = "rename" /\ mem[s] \in [1..Cells -> Chars] /\ j.op = "move"
        /\ j.p \in Seq(Names) /\ j.q \in Seq(Names) /\ Sound(fs)
    BY <1>1, Slot DEF Move, At, JobType, Stage
  <1>3. PICK w, v : w = Walk(fs, j.p, FALSE) /\ v = Walk(fs, j.q, FALSE)
    OBVIOUS
  <1>4. PICK ok \in BOOLEAN : ok = Renamable(fs, w, v)
    BY DEF Renamable
  <1>5. PICK f : /\ f = (IF ok THEN Rename(fs, w, v) ELSE fs)
                 /\ CallOn(s, Return(j, ok), f, mem[s])
    BY <1>1, <1>3, <1>4 DEF Move, Call
  <1>6. Sound(f) /\ \A i \in Inodes : fs[i].kind # "free" => f[i].kind = fs[i].kind
    <2>1. CASE ok
      <3>1. Located(fs, w) /\ Located(fs, v) /\ Renamable(fs, w, v)
        BY <1>2, <1>3, <1>4, <2>1, Found DEF Renamable
      <3>2. PICK g : g = Rename(fs, w, v) /\ Sound(g) /\ \A i \in Inodes : g[i].kind = fs[i].kind
        BY <1>2, <3>1, Renamed
      <3>3. QED
        BY <1>5, <2>1, <3>2
    <2>2. CASE ~ok
      BY <1>2, <1>5, <2>2
    <2>3. QED
      BY <2>1, <2>2
  <1>7. JobType(Return(j, ok), f) /\ CopyInv(Return(j, ok), f)
    BY <1>2, <1>6, Answered
  <1>8. QED
    BY <1>2, <1>5, <1>6, <1>7, CallKeeps

\* What remove() takes is where the walk has led.
LEMMA Removed ==
    ASSUME NEW f, Sound(f), NEW w, w.dir # None => Located(f, w), Removable(f, w)
    PROVE  \E g : g = Take(f, w) /\ Sound(g) /\ \A i \in Inodes : g[i].kind = f[i].kind
  <1>1. Located(f, w) /\ w.ino # None /\ (f[w.ino].kind = "dir" => f[w.ino] = EmptyDir)
    BY DEF Removable
  <1>2. QED
    BY <1>1, Taken

LEMMA RemoveFileKeeps == ASSUME OpsInv, NEW s \in Slots, RemoveFile(s) PROVE OpsInv'
  <1>1. PICK j : j = job[s]
    OBVIOUS
  <1>2. /\ JobType(j, fs) /\ j.pc = "unlink" /\ mem[s] \in [1..Cells -> Chars] /\ j.op = "remove"
        /\ j.p \in Seq(Names) /\ Sound(fs)
    BY <1>1, Slot DEF RemoveFile, At, JobType, Stage
  <1>3. PICK w : w = Walk(fs, j.p, FALSE)
    OBVIOUS
  <1>4. PICK ok \in BOOLEAN : ok = (Removable(fs, w) /\ ~Is(fs, w.ino, "dir"))
    OBVIOUS
  <1>5. PICK f : /\ f = (IF ok THEN Take(fs, w) ELSE fs)
                 /\ CallOn(s, Return(j, ok), f, mem[s])
    BY <1>1, <1>3, <1>4 DEF RemoveFile, Call
  <1>6. Sound(f) /\ \A i \in Inodes : fs[i].kind # "free" => f[i].kind = fs[i].kind
    <2>1. CASE ok
      <3>1. (w.dir # None => Located(fs, w)) /\ Removable(fs, w)
        BY <1>2, <1>3, <1>4, <2>1, Found
      <3>2. PICK g : g = Take(fs, w) /\ Sound(g) /\ \A i \in Inodes : g[i].kind = fs[i].kind
        BY <1>2, <3>1, Removed
      <3>3. QED
        BY <1>5, <2>1, <3>2
    <2>2. CASE ~ok
      BY <1>2, <1>5, <2>2
    <2>3. QED
      BY <2>1, <2>2
  <1>7. JobType(Return(j, ok), f) /\ CopyInv(Return(j, ok), f)
    BY <1>2, <1>6, Answered
  <1>8. QED
    BY <1>2, <1>5, <1>6, <1>7, CallKeeps

-----------------------------------------------------------------------------
(* copyFile                                                                *)

LEMMA CopySourceKeeps == ASSUME OpsInv, NEW s \in Slots, CopySource(s) PROVE OpsInv'
  <1>1. PICK j : j = job[s]
    OBVIOUS
  <1>2. /\ JobType(j, fs) /\ j.pc = "source" /\ mem[s] \in [1..Cells -> Chars] /\ j.op = "copy"
        /\ j.p \in Seq(Names) /\ Sound(fs)
    BY <1>1, Slot DEF CopySource, At, JobType, Stage
  <1>3. PICK i \in {Walk(fs, j.p, TRUE).ino, None} :
           CallOn(s, [j EXCEPT !.pc = "target", !.in = i], fs, mem[s])
    BY <1>1 DEF CopySource, Call
  <1>4. i \in Inodes \union {None} /\ (i # None => fs[i].kind # "free")
    <2>1. PICK w : w = Walk(fs, j.p, TRUE)
      OBVIOUS
    <2>2. w.ino \in Inodes \union {None} /\ (w.ino # None => fs[w.ino].kind # "free")
      BY <1>2, <2>1, Found
    <2>3. QED
      BY <1>3, <2>1, <2>2
  <1>5. PICK k : k = [j EXCEPT !.pc = "target", !.in = i] /\ CallOn(s, k, fs, mem[s])
    BY <1>3
  <1>6. /\ DOMAIN k = DOMAIN NoJob /\ k.pc = "target" /\ k.in = i
        /\ k.op = j.op /\ k.p = j.p /\ k.q = j.q /\ k.at = j.at
        /\ k.out = j.out /\ k.used = j.used /\ k.spoilt = j.spoilt /\ k.missed = j.missed /\ k.answer = j.answer
    BY <1>2, <1>5, JobFields DEF JobType
  <1>7. JobType(k, fs) /\ CopyInv(k, fs)
    BY <1>2, <1>4, <1>6 DEF JobType, CopyInv, Stage
  <1>8. QED
    BY <1>2, <1>5, <1>7, LocalCall

\* open() with O_CREAT, which makes the file if there is none.
Opens(f, w, yes) == IF Creatable(f, w) /\ yes THEN Create(f, w, File(<<>>)) ELSE f

\* Opening a file leaves a tree, and no kind is changed.
LEMMA Opening ==
    ASSUME NEW f, Sound(f), NEW w, w.dir # None => Located(f, w), NEW yes \in BOOLEAN
    PROVE  /\ Sound(Opens(f, w, yes))
           /\ \A i \in Inodes : f[i].kind # "free" => Opens(f, w, yes)[i].kind = f[i].kind
  <1>1. CASE Creatable(f, w) /\ yes
    <2>1. Located(f, w)
      BY <1>1 DEF Creatable
    <2>2. IsNode(File(<<>>)) /\ File(<<>>).kind = "file"
      <3>1. <<>> \in Seq(Blocks)
        OBVIOUS
      <3>2. QED
        BY <3>1, Nodes
    <2>3. PICK node : node = File(<<>>)
      OBVIOUS
    <2>4. IsNode(node) /\ node.kind # "free" /\ (node.kind = "dir" => \A n \in Names : node.has[n] = None)
      BY <2>2, <2>3
    <2>5. PICK u \in Unused(f) : \E g : /\ g = Create(f, w, node) /\ Sound(g)
                                        /\ \A i \in Inodes \ {u} : g[i].kind = f[i].kind
      BY <1>1, <2>1, <2>4, Created
    <2>6. f[u].kind = "free"
      BY Nodes DEF Unused
    <2>7. QED
      BY <1>1, <2>3, <2>5, <2>6 DEF Opens
  <1>2. CASE ~(Creatable(f, w) /\ yes)
    BY <1>2 DEF Opens
  <1>3. QED
    BY <1>1, <1>2

LEMMA CopyTargetKeeps == ASSUME OpsInv, NEW s \in Slots, CopyTarget(s) PROVE OpsInv'
  <1>1. PICK j : j = job[s]
    OBVIOUS
  <1>2. /\ JobType(j, fs) /\ j.pc = "target" /\ mem[s] \in [1..Cells -> Chars] /\ j.op = "copy"
        /\ j.q \in Seq(Names) /\ Sound(fs)
    BY <1>1, Slot DEF CopyTarget, At, JobType, Stage
  <1>3. PICK w : w = Walk(fs, j.q, TRUE)
    OBVIOUS
  <1>4. PICK f : /\ f = (IF Creatable(fs, w) THEN Create(fs, w, File(<<>>)) ELSE fs)
                 /\ Sound(f) /\ \A i \in Inodes : fs[i].kind # "free" => f[i].kind = fs[i].kind
    <2>1. w.dir # None => Located(fs, w)
      BY <1>2, <1>3, Found
    <2>2. PICK f : f = Opens(fs, w, TRUE)
      OBVIOUS
    <2>3. Sound(f) /\ \A i \in Inodes : fs[i].kind # "free" => f[i].kind = fs[i].kind
      BY <1>2, <2>1, <2>2, Opening
    <2>4. f = (IF Creatable(fs, w) THEN Create(fs, w, File(<<>>)) ELSE fs)
      BY <2>2 DEF Opens
    <2>5. QED
      BY <2>3, <2>4
  <1>5. PICK i, made : i = Walk(f, j.q, TRUE).ino /\ made = IF Is(f, i, "file") THEN i ELSE None
    OBVIOUS
  <1>6. made \in Inodes \union {None} /\ (made # None => f[made].kind = "file")
    BY <1>2, <1>4, <1>5, Found DEF Is
  <1>a. JobType(j, fs) /\ j.out = None
    BY <1>2 DEF JobType
  <1>b. [j EXCEPT !.pc = "fstat"] = [j EXCEPT !.pc = "fstat", !.out = None]
    BY <1>a, JobFields DEF JobType
  <1>7. \E o, g : /\ (o = made /\ g = f) \/ (o = None /\ g = fs)
                  /\ CallOn(s, [j EXCEPT !.pc = "fstat", !.out = o], g, mem[s])
    BY <1>1, <1>3, <1>4, <1>5, <1>b DEF CopyTarget, Call
  <1>8. PICK o, g, k : /\ (o = made /\ g = f) \/ (o = None /\ g = fs)
                       /\ k = [j EXCEPT !.pc = "fstat", !.out = o] /\ CallOn(s, k, g, mem[s])
    BY <1>7
  <1>9. /\ DOMAIN k = DOMAIN NoJob /\ k.pc = "fstat" /\ k.out = o
        /\ k.op = j.op /\ k.p = j.p /\ k.q = j.q /\ k.at = j.at
        /\ k.in = j.in /\ k.used = j.used /\ k.spoilt = j.spoilt /\ k.missed = j.missed /\ k.answer = j.answer
    BY <1>2, <1>8, JobFields DEF JobType
  <1>10. Sound(g) /\ \A e \in Inodes : fs[e].kind # "free" => g[e].kind = fs[e].kind
    BY <1>2, <1>4, <1>8
  <1>11. o \in Inodes \union {None} /\ (o # None => g[o].kind = "file")
    BY <1>6, <1>8
  <1>12. JobType(j, g)
    BY <1>2, <1>10, KindsKeep
  <1>13. JobType(k, g) /\ CopyInv(k, g)
    BY <1>2, <1>9, <1>11, <1>12 DEF JobType, CopyInv, Stage
  <1>14. QED
    BY <1>2, <1>8, <1>10, <1>13, CallKeeps

LEMMA CopyStatKeeps == ASSUME OpsInv, NEW s \in Slots, CopyStat(s) PROVE OpsInv'
  <1>1. PICK j, i : j = job[s] /\ i = job[s].in
    OBVIOUS
  <1>2. /\ JobType(j, fs) /\ j.pc = "fstat" /\ mem[s] \in [1..Cells -> Chars] /\ j.op = "copy"
        /\ j.q \in Seq(Names) /\ Sound(fs) /\ i = j.in /\ i \in Inodes \union {None}
    BY <1>1, Slot DEF CopyStat, At, JobType, Stage
  <1>3. PICK size \in IF i = None THEN {-1, 1} ELSE IF Is(fs, i, "file") THEN {Len(fs[i].data)} ELSE {1} :
           CallOn(s, [j EXCEPT !.pc = "sendfile", !.size = size], fs, mem[s])
    BY <1>1 DEF CopyStat, Call
  <1>4. Is(fs, i, "file") => fs[i].data \in Seq(Blocks) /\ Len(fs[i].data) \in Nat
    BY <1>2, NodeKinds DEF Sound, FsType, Is
  <1>5. size \in Int /\ (i # None => 0 <= size) /\ (Is(fs, i, "file") => size = Len(fs[i].data))
    BY <1>3, <1>4 DEF Is
  <1>6. PICK k : k = [j EXCEPT !.pc = "sendfile", !.size = size] /\ CallOn(s, k, fs, mem[s])
    BY <1>3
  <1>7. /\ DOMAIN k = DOMAIN NoJob /\ k.pc = "sendfile" /\ k.size = size
        /\ k.op = j.op /\ k.p = j.p /\ k.q = j.q /\ k.at = j.at
        /\ k.in = j.in /\ k.out = j.out /\ k.used = j.used /\ k.spoilt = j.spoilt /\ k.missed = j.missed /\ k.answer = j.answer
    BY <1>2, <1>6, JobFields DEF JobType
  <1>8. JobType(k, fs) /\ CopyInv(k, fs)
    BY <1>2, <1>5, <1>7 DEF JobType, CopyInv, Stage
  <1>9. QED
    BY <1>2, <1>6, <1>8, LocalCall

\* What sendfile leaves in the target.
LEMMA Overwritten ==
    ASSUME NEW new \in Seq(Blocks), NEW old \in Seq(Blocks), NEW n \in 0..Len(new)
    PROVE  /\ Over(new, old, n) \in Seq(Blocks)
           /\ n = Len(new) => IsPrefix(new, Over(new, old, n))
           /\ n = Len(new) /\ old = new => Over(new, old, n) = new
           /\ n = Len(new) /\ old = <<>> => Over(new, old, n) = new
  <1>1. SubSeq(new, 1, n) \in Seq(Blocks) /\ Len(SubSeq(new, 1, n)) = n
    OBVIOUS
  <1>2. PICK a, b : a = SubSeq(new, 1, n) /\ b = SubSeq(old, n + 1, Len(old))
    OBVIOUS
  <1>3. b \in Seq(Blocks)
    BY <1>2
  <1>4. a \o b \in Seq(Blocks)
    BY <1>1, <1>2, <1>3
  <1>5. Over(new, old, n) = a \o b
    BY <1>2 DEF Over
  <1>6. n = Len(new) => a = new
    BY <1>1, <1>2
  <1>7. n = Len(new) => IsPrefix(new, a \o b)
    <2>1. n = Len(new) => Len(a \o b) = Len(new) + Len(b)
      <3>1. new \in Seq(Blocks) /\ b \in Seq(Blocks)
        BY <1>3
      <3>2. Len(new \o b) = Len(new) + Len(b)
        BY <3>1
      <3>3. QED
        BY <1>6, <3>2
    <2>2. ASSUME n = Len(new), NEW i \in 1..Len(new) PROVE (a \o b)[i] = new[i]
      <3>1. a = new /\ a \in Seq(Blocks) /\ i \in 1..Len(a)
        BY <1>6, <2>2
      <3>2. (a \o b)[i] = a[i]
        BY <1>3, <3>1, ConcatProperties
      <3>3. QED
        BY <3>1, <3>2
    <2>3. PICK c \in Seq(Blocks) : c = a \o b
      BY <1>4
    <2>4. ASSUME n = Len(new) PROVE SubSeq(new, 1, Len(new)) = SubSeq(c, 1, Len(new)) /\ Len(new) <= Len(c)
      <3>1. Len(new) <= Len(c) /\ \A i \in 1..Len(new) : c[i] = new[i]
        BY <1>3, <2>1, <2>2, <2>3, <2>4
      <3>2. PICK l : l = Len(new) /\ l \in Nat /\ l <= Len(c)
        BY <3>1
      <3>3. SubSeq(new, 1, l) = [i \in 1..l |-> new[i]] /\ SubSeq(c, 1, l) = [i \in 1..l |-> c[i]]
        BY <3>2
      <3>4. QED
        BY <3>1, <3>2, <3>3
    <2>5. QED
      BY <2>3, <2>4 DEF IsPrefix
  <1>8. Len(old) <= n => b = <<>>
    <2>1. Len(old) <= n => Len(b) = 0
      BY <1>2
    <2>2. QED
      BY <1>3, <2>1
  <1>9. b = <<>> => a \o b = a
    <2>1. a \in Seq(Blocks)
      BY <1>1, <1>2
    <2>2. a \o <<>> = a
      BY <2>1, ConcatEmptySeq
    <2>3. QED
      BY <2>2
  <1>10. Len(new) \in Nat /\ (old = <<>> => Len(old) = 0) /\ (old = new => Len(old) = Len(new))
    OBVIOUS
  <1>11. PICK c : c = Over(new, old, n)
    OBVIOUS
  <1>12. c \in Seq(Blocks) /\ (n = Len(new) => IsPrefix(new, c))
    BY <1>4, <1>5, <1>7, <1>11
  <1>13. n = Len(new) /\ (old = new \/ old = <<>>) => c = new
    BY <1>5, <1>6, <1>8, <1>9, <1>10, <1>11
  <1>14. Over(new, old, n) \in Seq(Blocks) /\ (n = Len(new) => IsPrefix(new, Over(new, old, n)))
    BY <1>11, <1>12
  <1>15. n = Len(new) /\ old = new => Over(new, old, n) = new
    BY <1>11, <1>13
  <1>16. n = Len(new) /\ old = <<>> => Over(new, old, n) = new
    BY <1>11, <1>13
  <1>17. QED
    BY <1>14, <1>15, <1>16

\* The contents of a file are blocks.
LEMMA FileData ==
    ASSUME NEW f, Sound(f), NEW i \in Inodes, f[i].kind = "file"
    PROVE  f[i].data \in Seq(Blocks) /\ Len(f[i].data) \in Nat
  BY NodeKinds DEF Sound, FsType

\* A write: the contents of the file o become d.
Stored(f, o, d) == [f EXCEPT ![o].data = d]

\* A write leaves the tree and all other files.
LEMMA Written ==
    ASSUME NEW f, Sound(f), NEW o \in Inodes, f[o].kind = "file", NEW d \in Seq(Blocks)
    PROVE  /\ Sound(Stored(f, o, d)) /\ \A i \in Inodes : Stored(f, o, d)[i].kind = f[i].kind
           /\ Stored(f, o, d)[o].data = d /\ \A i \in Inodes \ {o} : Stored(f, o, d)[i] = f[i]
  <1>1. PICK g : /\ g = [f EXCEPT ![o].data = d]
                 /\ Sound(g) /\ \A i \in Inodes : g[i].kind = f[i].kind
                 /\ g[o].data = d /\ \A i \in Inodes \ {o} : g[i] = f[i]
    BY DataSet
  <1>2. QED
    BY <1>1 DEF Stored

\* sendfile() writes as much as it has been told of what the source has by then.
LEMMA CopySendKeeps == ASSUME OpsInv, NEW s \in Slots, CopySend(s) PROVE OpsInv'
  <1>1. PICK j, i, o : j = job[s] /\ i = j.in /\ o = j.out
    OBVIOUS
  <1>2. /\ JobType(j, fs) /\ j.pc = "sendfile" /\ mem[s] \in [1..Cells -> Chars] /\ j.op = "copy"
        /\ Sound(fs) /\ CopyInv(j, fs)
        /\ i \in Inodes \union {None} /\ o \in Inodes \union {None} /\ (o # None => fs[o].kind = "file")
    BY <1>1, Slot DEF CopySend, At, JobType, Stage
  <1>3. /\ j.size \in Int /\ (j.in # None => 0 <= j.size)
        /\ ~j.spoilt /\ Is(fs, j.in, "file") => j.size = Len(fs[j.in].data)
    BY <1>2 DEF CopyInv
  <1>4. CASE Is(fs, i, "file") /\ o # None
    <2>1. PICK n \in 0..j.size :
             /\ n <= Len(fs[i].data)
             /\ CallOn(s, Return(j, n = j.size), [fs EXCEPT ![o].data = Over(fs[i].data, @, n)], mem[s])
      BY <1>1, <1>4, Zenon DEF CopySend, Call
    <2>2. i \in Inodes /\ o \in Inodes /\ fs[i].kind = "file" /\ fs[o].kind = "file"
      BY <1>2, <1>4 DEF Is
    <2>3. PICK new \in Seq(Blocks), old \in Seq(Blocks) : new = fs[i].data /\ old = fs[o].data
      BY <1>2, <2>2, FileData
    <2>4. n \in 0..Len(new)
      BY <1>3, <2>1, <2>3
    <2>5. PICK d \in Seq(Blocks) :
             /\ d = Over(new, old, n)
             /\ n = Len(new) => IsPrefix(new, d)
             /\ n = Len(new) /\ old = new => d = new
      BY <2>4, Overwritten
    <2>6. PICK f : f = Stored(fs, o, d)
      OBVIOUS
    <2>7. PICK ok \in BOOLEAN : ok = (n = j.size)
      OBVIOUS
    <2>8. CallOn(s, Return(j, ok), f, mem[s])
      BY <2>1, <2>3, <2>5, <2>6, <2>7 DEF Stored
    <2>9. /\ Sound(f) /\ \A e \in Inodes : f[e].kind = fs[e].kind
          /\ f[o].data = d /\ \A e \in Inodes \ {o} : f[e] = fs[e]
      BY <1>2, <2>2, <2>6, Written
    <2>10. JobType(j, f)
      BY <1>2, <2>9, KindsKeep
    <2>11. ok /\ ~j.spoilt => Whole(j, f)
      <3>1. SUFFICES ASSUME ok, ~j.spoilt PROVE Whole(j, f)
        OBVIOUS
      <3>2. n = Len(new)
        BY <1>1, <1>3, <1>4, <2>3, <2>7, <3>1
      <3>3. CASE i = o
        BY <1>1, <1>2, <2>3, <2>5, <2>9, <3>2, <3>3 DEF Whole
      <3>4. CASE i # o
        BY <1>1, <1>2, <2>2, <2>3, <2>5, <2>9, <3>2, <3>4 DEF Whole
      <3>5. QED
        BY <3>3, <3>4
    <2>12. f[j.in].kind = "file" /\ j.out # None
      BY <1>1, <1>4, <2>2, <2>9
    <2>13. JobType(Return(j, ok), f) /\ CopyInv(Return(j, ok), f)
      BY <1>2, <2>10, <2>11, <2>12, Returned
    <2>14. QED
      BY <1>2, <2>8, <2>9, <2>13, CallKeeps
  <1>5. CASE ~(Is(fs, i, "file") /\ o # None)
    <2>1. PICK ok \in BOOLEAN : ok = (j.size = -1)
      OBVIOUS
    <2>2. CallOn(s, Return(j, ok), fs, mem[s])
      BY <1>1, <1>5, <2>1 DEF CopySend, Call
    <2>3. ASSUME j.in # None, ok PROVE FALSE
      <3>1. j.size \in Int /\ 0 <= j.size /\ j.size = -1
        BY <1>3, <2>1, <2>3
      <3>2. QED
        BY <3>1
    <2>4. JobType(Return(j, ok), fs) /\ CopyInv(Return(j, ok), fs)
      BY <1>2, <2>3, Returned
    <2>5. QED
      BY <1>2, <2>2, <2>4, LocalCall
  <1>6. QED
    BY <1>4, <1>5

-----------------------------------------------------------------------------
(* copyFolder                                                              *)

\* The source of a copy is a file, so that its path has a last name.
LEMMA Targeted ==
    ASSUME NEW f, Sound(f), NEW p \in Seq(Names), NEW q \in Seq(Names), Is(f, Walk(f, p, TRUE).ino, "file")
    PROVE  CpTarget(f, p, q) \in Seq(Names)
  <1>1. ASSUME p = <<>> PROVE Walk(f, p, TRUE).ino = Root
    <2>1. PICK g : Goes(g, f, <<>>, TRUE)
      BY WalkGoes
    <2>2. Start(<<>>).rest = <<>> /\ Start(<<>>).ino = Root
      BY StartIs
    <2>3. \A w : w = Start(<<>>) => Along(f, w, TRUE) = w
      BY <2>2 DEF Along
    <2> DEFINE S == {n \in 0..Hops : g[n] = Start(<<>>)}
    <2>4. 0 \in S
      BY <2>1 DEF Goes, Hops
    <2>5. ASSUME NEW n \in 1..Hops, n - 1 \in S PROVE n \in S
      <3>1. g[n - 1] = Start(<<>>) /\ g[n] = Along(f, g[n - 1], TRUE)
        BY <2>1, <2>5 DEF Goes
      <3>2. n \in 0..Hops
        BY DEF Hops
      <3>3. QED
        BY <2>3, <3>1, <3>2
    <2>6. Hops \in S
      BY <2>4, <2>5, Hopping
    <2>7. QED
      BY <1>1, <2>1, <2>2, <2>6 DEF Goes
  <1>2. p # <<>>
    BY <1>1 DEF Is, Sound
  <1>3. Last(p) \in Names
    BY <1>2 DEF Last
  <1>4. Append(q, Last(p)) \in Seq(Names)
    BY <1>3
  <1>5. QED
    BY <1>4 DEF CpTarget

LEMMA CpOpenKeeps == ASSUME OpsInv, NEW s \in Slots, CpOpen(s) PROVE OpsInv'
  <1>1. PICK j, i, q : j = job[s] /\ i = Walk(fs, j.p, TRUE).ino /\ q = CpTarget(fs, j.p, j.q)
    OBVIOUS
  <1>2. /\ JobType(j, fs) /\ j.pc = "cp" /\ mem[s] \in [1..Cells -> Chars] /\ j.op = "cptree"
        /\ Sound(fs) /\ j.p \in Seq(Names) /\ j.q \in Seq(Names)
    BY <1>1, Slot DEF CpOpen, At, JobType, Stage
  <1>3. PICK w : w = Walk(fs, q, TRUE)
    OBVIOUS
  <1>4. PICK yes \in BOOLEAN : yes = (Walk(fs, q, FALSE).ino = None)
    OBVIOUS
  <1>5. PICK f : f = Opens(fs, w, yes)
    OBVIOUS
  <1>6. PICK o : o = Walk(f, q, TRUE).ino
    OBVIOUS
  <1>c. \/ /\ Is(fs, i, "file") /\ i # o /\ Is(f, o, "file")
           /\ CallOn(s, [j EXCEPT !.pc = "cpwrite", !.in = i, !.out = o], [f EXCEPT ![o].data = <<>>], mem[s])
        \/ \E killed \in BOOLEAN : CallOn(s, Return(Miss(j, killed), killed), fs, mem[s])
    BY <1>1, <1>3, <1>4, <1>5, <1>6 DEF CpOpen, Call, Opens
  <1>7. ASSUME Is(fs, i, "file"), i # o, Is(f, o, "file"),
               CallOn(s, [j EXCEPT !.pc = "cpwrite", !.in = i, !.out = o], [f EXCEPT ![o].data = <<>>], mem[s])
        PROVE  OpsInv'
    <2>3. q \in Seq(Names)
      BY <1>1, <1>2, <1>7, Targeted
    <2>4. w.dir # None => Located(fs, w)
      BY <1>2, <1>3, <2>3, Found
    <2>5. Sound(f) /\ \A e \in Inodes : fs[e].kind # "free" => f[e].kind = fs[e].kind
      BY <1>2, <1>5, <2>4, Opening
    <2>6. o \in Inodes /\ f[o].kind = "file" /\ i \in Inodes /\ fs[i].kind = "file" /\ i # o
      <3>1. o \in Inodes \union {None}
        BY <1>6, <2>3, <2>5, Found
      <3>2. i \in Inodes \union {None}
        BY <1>1, <1>2, Found
      <3>3. QED
        BY <1>7, <3>1, <3>2 DEF Is
    <2>7. PICK g : g = Stored(f, o, <<>>)
      OBVIOUS
    <2>8. /\ Sound(g) /\ \A e \in Inodes : g[e].kind = f[e].kind
          /\ g[o].data = <<>>
      <3>1. <<>> \in Seq(Blocks)
        OBVIOUS
      <3>2. PICK d \in Seq(Blocks) : d = <<>>
        BY <3>1
      <3>3. g = Stored(f, o, d)
        BY <2>7, <3>2
      <3>4. /\ Sound(Stored(f, o, d)) /\ \A e \in Inodes : Stored(f, o, d)[e].kind = f[e].kind
            /\ Stored(f, o, d)[o].data = d
        BY <2>5, <2>6, Written
      <3>5. QED
        BY <3>2, <3>3, <3>4
    <2>9. PICK k : k = [j EXCEPT !.pc = "cpwrite", !.in = i, !.out = o] /\ CallOn(s, k, g, mem[s])
      BY <1>7, <2>7 DEF Stored
    <2>10. /\ DOMAIN k = DOMAIN NoJob /\ k.pc = "cpwrite" /\ k.in = i /\ k.out = o
           /\ k.op = j.op /\ k.p = j.p /\ k.q = j.q /\ k.at = j.at
           /\ k.used = j.used /\ k.spoilt = j.spoilt /\ k.missed = j.missed /\ k.answer = j.answer
      BY <1>2, <2>9, JobFields DEF JobType
    <2>11. g[i].kind = "file" /\ g[o].kind = "file" /\ i # None /\ o # None
      BY <2>5, <2>6, <2>8, Constants
    <2>12. JobType(k, g) /\ CopyInv(k, g)
      BY <1>2, <2>6, <2>8, <2>10, <2>11 DEF JobType, CopyInv, Stage
    <2>13. \A e \in Inodes : fs[e].kind # "free" => g[e].kind = fs[e].kind
      BY <2>5, <2>8
    <2>14. QED
      BY <1>2, <2>8, <2>9, <2>12, <2>13, CallKeeps
  <1>8. ASSUME NEW killed \in BOOLEAN, CallOn(s, Return(Miss(j, killed), killed), fs, mem[s])
        PROVE  OpsInv'
    <2>1. PICK k : k = Miss(j, killed)
      OBVIOUS
    <2>2. JobType(k, fs) /\ k.pc # "free" /\ k.in = None
      <3>1. JobType(k, fs) /\ k.pc = j.pc /\ k.in = j.in
        BY <1>2, <2>1, Missing
      <3>2. QED
        BY <1>2, <3>1 DEF JobType
    <2>3. JobType(Return(k, killed), fs) /\ CopyInv(Return(k, killed), fs)
      BY <2>2, Returned
    <2>4. QED
      BY <1>2, <1>8, <2>1, <2>3, LocalCall
  <1>9. QED
    BY <1>7, <1>8, <1>c

\* cp empties its target as it opens it and writes it when it has read the source.
LEMMA CpWriteKeeps == ASSUME OpsInv, NEW s \in Slots, CpWrite(s) PROVE OpsInv'
  <1>1. PICK j, i, o : j = job[s] /\ i = j.in /\ o = j.out
    OBVIOUS
  <1>2. /\ JobType(j, fs) /\ j.pc = "cpwrite" /\ mem[s] \in [1..Cells -> Chars] /\ j.op = "cptree"
        /\ Sound(fs) /\ CopyInv(j, fs)
        /\ i \in Inodes \union {None} /\ o \in Inodes \union {None} /\ (o # None => fs[o].kind = "file")
    BY <1>1, Slot DEF CpWrite, At, JobType, Stage
  <1>3. /\ i # o /\ i \in Inodes /\ o \in Inodes /\ fs[i].kind = "file" /\ fs[o].kind = "file"
        /\ ~j.spoilt => fs[o].data = <<>>
    BY <1>1, <1>2 DEF CopyInv
  <1>4. PICK new \in Seq(Blocks), old \in Seq(Blocks) : new = fs[i].data /\ old = fs[o].data
    BY <1>2, <1>3, FileData
  <1>5. PICK n \in 0..Len(new), killed \in BOOLEAN :
           CallOn(s, Return(Miss(j, killed), killed \/ n = Len(new)), [fs EXCEPT ![o].data = Over(new, @, n)], mem[s])
    BY <1>1, <1>4, Zenon DEF CpWrite, Call
  <1>6. PICK d \in Seq(Blocks) :
           /\ d = Over(new, old, n)
           /\ n = Len(new) => IsPrefix(new, d)
           /\ n = Len(new) /\ old = <<>> => d = new
    BY Overwritten
  <1>7. PICK f : f = Stored(fs, o, d)
    OBVIOUS
  <1>8. PICK ok, k : ok \in BOOLEAN /\ ok = (killed \/ n = Len(new)) /\ k = Miss(j, killed)
    OBVIOUS
  <1>9. CallOn(s, Return(k, ok), f, mem[s])
    BY <1>4, <1>5, <1>6, <1>7, <1>8 DEF Stored
  <1>10. /\ Sound(f) /\ \A e \in Inodes : f[e].kind = fs[e].kind
         /\ f[o].data = d /\ \A e \in Inodes \ {o} : f[e] = fs[e]
    BY <1>2, <1>3, <1>7, Written
  <1>a. /\ JobType(k, fs) /\ k.in = i /\ k.out = o /\ k.op = j.op /\ k.pc = j.pc /\ k.spoilt = j.spoilt
        /\ ~k.missed => ~killed
    BY <1>1, <1>2, <1>8, Missing
  <1>11. JobType(k, f)
    BY <1>10, <1>a, KindsKeep
  <1>12. ok /\ ~k.spoilt /\ ~k.missed => Whole(k, f)
    BY <1>3, <1>4, <1>6, <1>8, <1>10, <1>a DEF Whole
  <1>13. f[k.in].kind = "file" /\ k.out # None
    BY <1>3, <1>10, <1>a, Constants
  <1>b. ok \in BOOLEAN /\ k.pc # "free"
    BY <1>2, <1>8, <1>a
  <1>14. JobType(Return(k, ok), f) /\ CopyInv(Return(k, ok), f)
    BY <1>11, <1>12, <1>13, <1>b, Returned
  <1>15. QED
    BY <1>2, <1>9, <1>10, <1>14, CallKeeps

-----------------------------------------------------------------------------
(* removeFolder                                                            *)

\* The names that readdir gives, in some order.
LEMMA Listing ==
    ASSUME NEW S \in SUBSET Names, NEW names \in SetToSeqs(S)
    PROVE  /\ names \in Seq(S) /\ names \in Seq(Names)
           /\ \A a \in S : \E i \in DOMAIN names : names[i] = a
  <1>1. IsFiniteSet(S)
    BY FileOpsAssumption, FS_Subset
  <1>2. PICK n \in Nat : n = Cardinality(S)
    BY <1>1, FS_CardinalityType
  <1>3. names \in [1..n -> S] /\ \A i, j \in 1..n : i # j => names[i] # names[j]
    BY <1>2 DEF SetToSeqs
  <1>4. names \in Seq(S) /\ names \in Seq(Names)
    BY <1>3
  <1>5. \A a \in S : \E i \in DOMAIN names : names[i] = a
    <2>1. IsFiniteSet(1..n) /\ Cardinality(1..n) = n
      BY FS_Interval
    <2>2. names \in Injection(1..n, S)
      BY <1>3 DEF Injection, IsInjective
    <2>3. names \in Surjection(1..n, S)
      BY <1>1, <1>2, <2>1, <2>2, FS_Injection
    <2>4. QED
      BY <1>3, <2>3 DEF Surjection
  <1>6. QED
    BY <1>4, <1>5

\* A folder is listed, and its entries go on the list before it.
LEMMA TreeLookKeeps == ASSUME OpsInv, NEW s \in Slots, TreeLook(s) PROVE OpsInv'
  <1>1. PICK j, x, w : j = job[s] /\ x = Head(j.todo).path /\ w = Walk(fs, x, FALSE)
    OBVIOUS
  <1>2. /\ JobType(j, fs) /\ j.pc = "tree" /\ mem[s] \in [1..Cells -> Chars] /\ j.op = "rmtree"
        /\ j.todo \in Seq(Visits) /\ j.todo # <<>>
    BY <1>1, Slot DEF TreeLook, At, JobType, Stage
  <1>3. Head(j.todo) \in Visits /\ Tail(j.todo) \in Seq(Visits)
    BY <1>2
  <1>4. x \in Seq(Names)
    BY <1>1, <1>3 DEF Visits
  <1>5. CASE CallOn(s, Return(j, FALSE), fs, mem[s])
    <2>2. JobType(Return(j, FALSE), fs) /\ CopyInv(Return(j, FALSE), fs)
      BY <1>2, Answered
    <2>3. QED
      BY <1>2, <1>5, <2>2, LocalCall
  <1>6. CASE ~CallOn(s, Return(j, FALSE), fs, mem[s])
    <2>1. PICK S \in SUBSET Names : S = IF Is(fs, w.ino, "dir") THEN Inside(fs, w.ino) ELSE {}
      BY DEF Inside
    <2>2. PICK names \in SetToSeqs(S) :
             CallOn(s, [j EXCEPT !.todo = [k \in DOMAIN names |-> [path |-> Append(x, names[k]), last |-> FALSE]]
                                          \o <<[path |-> x, last |-> TRUE]>> \o Tail(@)], fs, mem[s])
      BY <1>1, <1>6, <2>1, Zenon DEF TreeLook, Call
    <2>3. names \in Seq(Names)
      BY Listing
    <2>4. PICK below : below = [k \in DOMAIN names |-> [path |-> Append(x, names[k]), last |-> FALSE]]
      OBVIOUS
    <2>5. below \in Seq(Visits)
      <3>1. PICK n \in Nat : n = Len(names) /\ DOMAIN names = 1..n
        BY <2>3
      <3>2. \A k \in 1..n : Append(x, names[k]) \in Seq(Names)
        BY <1>4, <2>3, <3>1
      <3>3. \A k \in 1..n : [path |-> Append(x, names[k]), last |-> FALSE] \in Visits
        BY <3>2 DEF Visits
      <3>4. below \in [1..n -> Visits]
        BY <2>4, <3>1, <3>3
      <3>5. QED
        BY <3>4
    <2>6. PICK self : self = [path |-> x, last |-> TRUE]
      OBVIOUS
    <2>7. self \in Visits
      BY <1>4, <2>6 DEF Visits
    <2>8. PICK todo : todo = below \o <<self>> \o Tail(j.todo)
      OBVIOUS
    <2>9. todo \in Seq(Visits) /\ todo # <<>>
      <3>1. PICK a : a = below \o <<self>>
        OBVIOUS
      <3>2. a \in Seq(Visits) /\ Len(a) > 0
        BY <2>5, <2>7, <3>1
      <3>3. PICK b \in Seq(Visits) : b = Tail(j.todo)
        BY <1>3
      <3>4. a \o b \in Seq(Visits) /\ Len(a \o b) > 0
        BY <3>2, <3>3
      <3>5. todo = a \o b
        BY <2>8, <3>1, <3>3
      <3>6. QED
        BY <3>4, <3>5
    <2>10. PICK k : k = [j EXCEPT !.todo = todo] /\ CallOn(s, k, fs, mem[s])
      BY <2>2, <2>4, <2>6, <2>8
    <2>11. /\ DOMAIN k = DOMAIN NoJob /\ k.pc = j.pc /\ k.todo = todo
           /\ k.op = j.op /\ k.p = j.p /\ k.q = j.q /\ k.at = j.at /\ k.in = j.in /\ k.out = j.out
           /\ k.used = j.used /\ k.spoilt = j.spoilt /\ k.missed = j.missed /\ k.answer = j.answer
      BY <1>2, <2>10, JobFields DEF JobType
    <2>12. JobType(k, fs) /\ CopyInv(k, fs)
      BY <1>2, <2>9, <2>11 DEF JobType, CopyInv, Stage
    <2>13. QED
      BY <1>2, <2>10, <2>12, LocalCall
  <1>7. QED
    BY <1>5, <1>6

\* What is on the list is removed, unless another has been there.
LEMMA TreeRemoveKeeps == ASSUME OpsInv, NEW s \in Slots, TreeRemove(s) PROVE OpsInv'
  <1>1. PICK j, x, w : j = job[s] /\ x = Head(j.todo).path /\ w = Walk(fs, x, FALSE)
    OBVIOUS
  <1>2. /\ JobType(j, fs) /\ j.pc = "tree" /\ mem[s] \in [1..Cells -> Chars] /\ j.op = "rmtree"
        /\ j.todo \in Seq(Visits) /\ j.todo # <<>> /\ Sound(fs)
    BY <1>1, Slot DEF TreeRemove, At, JobType, Stage
  <1>3. Head(j.todo) \in Visits /\ Tail(j.todo) \in Seq(Visits)
    BY <1>2
  <1>4. x \in Seq(Names)
    BY <1>1, <1>3 DEF Visits
  <1>5. CASE ~Removable(fs, w)
    <2>1. CallOn(s, Return(j, FALSE), fs, mem[s])
      BY <1>1, <1>5 DEF TreeRemove, Call
    <2>2. JobType(Return(j, FALSE), fs) /\ CopyInv(Return(j, FALSE), fs)
      BY <1>2, Answered
    <2>3. QED
      BY <1>2, <2>1, <2>2, LocalCall
  <1>6. CASE Removable(fs, w)
    <2>1. PICK f : f = Take(fs, w)
      OBVIOUS
    <2>2. w.dir # None => Located(fs, w)
      BY <1>1, <1>2, <1>4, Found
    <2>3. Sound(f) /\ \A i \in Inodes : f[i].kind = fs[i].kind
      BY <1>2, <1>6, <2>1, <2>2, Removed
    <2>4. PICK k : /\ k = (IF Len(j.todo) = 1 THEN Return(j, TRUE) ELSE [j EXCEPT !.todo = Tail(@)])
                   /\ CallOn(s, k, f, mem[s])
      BY <1>1, <1>6, <2>1 DEF TreeRemove, Call
    <2>5. CASE Len(j.todo) = 1
      <3>1. JobType(Return(j, TRUE), f) /\ CopyInv(Return(j, TRUE), f)
        BY <1>2, <2>3, Answered
      <3>2. QED
        BY <1>2, <2>3, <2>4, <2>5, <3>1, CallKeeps
    <2>6. CASE Len(j.todo) # 1
      <3>1. PICK todo \in Seq(Visits) : todo = Tail(j.todo)
        BY <1>3
      <3>2. todo # <<>>
        <4>1. Len(j.todo) \in Nat /\ Len(j.todo) # 0 /\ Len(todo) = Len(j.todo) - 1
          BY <1>2, <3>1
        <4>2. Len(todo) # 0
          BY <2>6, <4>1
        <4>3. QED
          BY <4>2
      <3>3. k = [j EXCEPT !.todo = todo]
        BY <2>4, <2>6, <3>1
      <3>4. /\ DOMAIN k = DOMAIN NoJob /\ k.pc = j.pc /\ k.todo = todo
            /\ k.op = j.op /\ k.p = j.p /\ k.q = j.q /\ k.at = j.at /\ k.in = j.in /\ k.out = j.out
            /\ k.used = j.used /\ k.spoilt = j.spoilt /\ k.missed = j.missed /\ k.answer = j.answer
        BY <1>2, <3>3, JobFields DEF JobType
      <3>5. JobType(j, f)
        BY <1>2, <2>3, KindsKeep
      <3>6. JobType(k, f) /\ CopyInv(k, f)
        BY <1>2, <3>2, <3>4, <3>5 DEF JobType, CopyInv, Stage
      <3>7. QED
        BY <1>2, <2>3, <2>4, <3>6, CallKeeps
    <2>7. QED
      BY <2>5, <2>6
  <1>7. QED
    BY <1>5, <1>6

-----------------------------------------------------------------------------
(* getFileStat, getMD5OfFile, symbolicLink                                 *)

\* A record of the answer is kept with it.
LEMMA Noted ==
    ASSUME NEW f, NEW j, JobType(j, f), CopyInv(j, f), NEW k,
           DOMAIN k = DOMAIN NoJob, k.op = j.op, k.pc = j.pc, k.p = j.p, k.q = j.q, k.at = j.at, k.in = j.in,
           k.out = j.out, k.size = j.size, k.todo = j.todo, k.used = j.used, k.answer = j.answer,
           k.spoilt = j.spoilt /\ k.missed = j.missed
    PROVE  JobType(k, f) /\ CopyInv(k, f)
  <1>1. Stage(k)
    BY DEF JobType, Stage
  <1>2. JobType(k, f)
    BY <1>1 DEF JobType
  <1>3. CopyInv(k, f)
    BY DEF CopyInv, Whole
  <1>4. QED
    BY <1>2, <1>3

LEMMA StatAccessKeeps == ASSUME OpsInv, NEW s \in Slots, StatAccess(s) PROVE OpsInv'
  <1>1. PICK j : j = job[s]
    OBVIOUS
  <1>2. JobType(j, fs) /\ j.pc = "access" /\ mem[s] \in [1..Cells -> Chars] /\ j.op = "stat"
    BY <1>1, Slot DEF StatAccess, At, JobType, Stage
  <1>3. JobType(Return(j, FALSE), fs) /\ CopyInv(Return(j, FALSE), fs)
    BY <1>2, Answered
  <1>4. PICK k : /\ k = Goto(j, "isdir") /\ k.pc = "isdir" /\ Still(k, j)
                 /\ k.at = j.at /\ k.in = j.in /\ k.out = j.out /\ k.used = j.used
    BY <1>2, Gone
  <1>5. JobType(k, fs) /\ CopyInv(k, fs)
    BY <1>2, <1>4 DEF JobType, CopyInv, Still, Stage
  <1>6. PICK l : /\ l = (IF IsFileExists(fs, j.p) THEN Goto(j, "isdir") ELSE Return(j, FALSE))
                 /\ CallOn(s, l, fs, mem[s])
    BY <1>1 DEF StatAccess, Call
  <1>7. JobType(l, fs) /\ CopyInv(l, fs)
    BY <1>3, <1>4, <1>5, <1>6
  <1>8. QED
    BY <1>2, <1>6, <1>7, LocalCall

\* An answer with what has been found.
LEMMA Told ==
    ASSUME NEW f, NEW j, JobType(j, f), j.pc # "free", j.op \notin {"copy", "cptree"}, NEW ok \in BOOLEAN,
           NEW k, NEW x, k = [Return(j, ok) EXCEPT !.got = x] \/ k = [Return(j, ok) EXCEPT !.sum = x]
    PROVE  JobType(k, f) /\ CopyInv(k, f)
  <1>1. PICK l : l = Return(j, ok)
    OBVIOUS
  <1>2. JobType(l, f) /\ CopyInv(l, f)
    BY <1>1, Answered
  <1>3. k = [l EXCEPT !.got = x] \/ k = [l EXCEPT !.sum = x]
    BY <1>1
  <1>4. /\ DOMAIN k = DOMAIN NoJob /\ k.op = l.op /\ k.pc = l.pc /\ k.p = l.p /\ k.q = l.q /\ k.at = l.at
        /\ k.in = l.in /\ k.out = l.out /\ k.size = l.size /\ k.todo = l.todo /\ k.used = l.used
        /\ k.answer = l.answer /\ k.spoilt = l.spoilt /\ k.missed = l.missed
    BY <1>2, <1>3, JobFields DEF JobType
  <1>5. QED
    BY <1>2, <1>4, Noted

LEMMA StatIsDirKeeps == ASSUME OpsInv, NEW s \in Slots, StatIsDir(s) PROVE OpsInv'
  <1>1. PICK j : j = job[s]
    OBVIOUS
  <1>2. JobType(j, fs) /\ j.pc = "isdir" /\ mem[s] \in [1..Cells -> Chars] /\ j.op = "stat"
    BY <1>1, Slot DEF StatIsDir, At, JobType, Stage
  <1>3. PICK h : h = [Return(j, TRUE) EXCEPT !.got = {Entry(None, TRUE, 0)}]
    OBVIOUS
  <1>4. JobType(h, fs) /\ CopyInv(h, fs)
    BY <1>2, <1>3, Told
  <1>5. PICK dir \in BOOLEAN : dir = IsDirectory(fs, j.p)
    BY DEF IsDirectory, Is
  <1>6. PICK i : /\ i = Miss(j, dir) /\ JobType(i, fs) /\ i.pc = "isdir" /\ i.op = "stat"
    BY <1>2, <1>5, Missing
  <1>7. PICK k : /\ k = Goto(i, "size") /\ k.pc = "size" /\ Still(k, i)
                 /\ k.at = i.at /\ k.in = i.in /\ k.out = i.out /\ k.used = i.used
    BY <1>6, Gone
  <1>8. JobType(k, fs) /\ CopyInv(k, fs)
    BY <1>6, <1>7 DEF JobType, CopyInv, Still, Stage
  <1>9. \E seen \in {dir, FALSE} : CallOn(s, IF seen THEN h ELSE k, fs, mem[s])
    BY <1>1, <1>3, <1>5, <1>6, <1>7 DEF StatIsDir, Call
  <1>10. PICK l : l \in {h, k} /\ CallOn(s, l, fs, mem[s])
    BY <1>9
  <1>11. JobType(l, fs) /\ CopyInv(l, fs)
    BY <1>4, <1>8, <1>10
  <1>12. QED
    BY <1>2, <1>10, <1>11, LocalCall

LEMMA StatSizeKeeps == ASSUME OpsInv, NEW s \in Slots, StatSize(s) PROVE OpsInv'
  <1>1. PICK j : j = job[s]
    OBVIOUS
  <1>2. JobType(j, fs) /\ j.pc = "size" /\ mem[s] \in [1..Cells -> Chars] /\ j.op = "stat"
    BY <1>1, Slot DEF StatSize, At, JobType, Stage
  <1>3. PICK x, h : x = {Entry(None, FALSE, SizeOf(fs, j.p))} /\ h = [Return(j, TRUE) EXCEPT !.got = x]
    OBVIOUS
  <1>4. JobType(h, fs) /\ CopyInv(h, fs)
    BY <1>2, <1>3, Told
  <1>5. CallOn(s, h, fs, mem[s])
    BY <1>1, <1>3 DEF StatSize, Call
  <1>6. QED
    BY <1>2, <1>4, <1>5, LocalCall

LEMMA MD5OpenKeeps == ASSUME OpsInv, NEW s \in Slots, MD5Open(s) PROVE OpsInv'
  <1>1. PICK j : j = job[s]
    OBVIOUS
  <1>2. /\ JobType(j, fs) /\ j.pc = "fopen" /\ mem[s] \in [1..Cells -> Chars] /\ j.op = "md5"
        /\ j.p \in Seq(Names) /\ Sound(fs)
    BY <1>1, Slot DEF MD5Open, At, JobType, Stage
  <1>a. PICK i \in {Walk(fs, j.p, TRUE).ino, None} :
           CallOn(s, IF i = None THEN Return(j, FALSE) ELSE [j EXCEPT !.pc = "fread", !.in = i], fs, mem[s])
    BY <1>1 DEF MD5Open, Call
  <1>3. i \in Inodes \union {None} /\ (i # None => fs[i].kind # "free")
    <2>1. PICK w : w = Walk(fs, j.p, TRUE)
      OBVIOUS
    <2>2. w.ino \in Inodes \union {None} /\ (w.ino # None => fs[w.ino].kind # "free")
      BY <1>2, <2>1, Found
    <2>3. QED
      BY <1>a, <2>1, <2>2
  <1>4. CASE i = None
    <2>1. CallOn(s, Return(j, FALSE), fs, mem[s])
      BY <1>4, <1>a
    <2>2. JobType(Return(j, FALSE), fs) /\ CopyInv(Return(j, FALSE), fs)
      BY <1>2, Answered
    <2>3. QED
      BY <1>2, <2>1, <2>2, LocalCall
  <1>5. CASE i # None
    <2>1. PICK k : k = [j EXCEPT !.pc = "fread", !.in = i] /\ CallOn(s, k, fs, mem[s])
      BY <1>5, <1>a
    <2>2. /\ DOMAIN k = DOMAIN NoJob /\ k.pc = "fread" /\ k.in = i
          /\ k.op = j.op /\ k.p = j.p /\ k.q = j.q /\ k.at = j.at
          /\ k.out = j.out /\ k.used = j.used /\ k.spoilt = j.spoilt /\ k.missed = j.missed /\ k.answer = j.answer
      BY <1>2, <2>1, JobFields DEF JobType
    <2>3. JobType(k, fs) /\ CopyInv(k, fs)
      BY <1>2, <1>3, <1>5, <2>2 DEF JobType, CopyInv, Stage
    <2>4. QED
      BY <1>2, <2>1, <2>3, LocalCall
  <1>6. QED
    BY <1>4, <1>5

LEMMA MD5ReadKeeps == ASSUME OpsInv, NEW s \in Slots, MD5Read(s) PROVE OpsInv'
  <1>1. PICK j : j = job[s]
    OBVIOUS
  <1>2. JobType(j, fs) /\ CopyInv(j, fs) /\ j.pc = "fread" /\ mem[s] \in [1..Cells -> Chars] /\ j.op = "md5"
    BY <1>1, Slot DEF MD5Read, At, JobType, Stage
  <1>4. PICK rest : rest = IF Is(fs, j.in, "file")
                           THEN SubSeq(fs[j.in].data, Len(j.sum) + 1, Len(fs[j.in].data)) ELSE <<>>
    OBVIOUS
  <1>5. PICK k, sum : sum = Append(j.sum, Head(rest)) /\ k = [j EXCEPT !.sum = sum]
    OBVIOUS
  <1>6. /\ DOMAIN k = DOMAIN NoJob /\ k.op = j.op /\ k.pc = j.pc /\ k.p = j.p /\ k.q = j.q /\ k.at = j.at
        /\ k.in = j.in /\ k.out = j.out /\ k.size = j.size /\ k.todo = j.todo /\ k.used = j.used
        /\ k.answer = j.answer /\ k.spoilt = j.spoilt /\ k.missed = j.missed
    BY <1>2, <1>5, JobFields DEF JobType
  <1>7. JobType(k, fs) /\ CopyInv(k, fs)
    BY <1>2, <1>6, Noted
  <1>8. PICK cut, i : cut \in BOOLEAN /\ cut = (rest # <<>>) /\ i = Miss(j, cut)
    OBVIOUS
  <1>9. JobType(Return(i, TRUE), fs) /\ CopyInv(Return(i, TRUE), fs)
    <2>1. JobType(i, fs) /\ i.pc = "fread" /\ i.op = "md5"
      <3>1. cut \in BOOLEAN /\ i = Miss(j, cut)
        BY <1>8
      <3>2. QED
        BY <1>2, <3>1, Missing
    <2>2. QED
      BY <2>1, Answered
  <1>10. PICK l : l \in {Return(i, TRUE), k} /\ CallOn(s, l, fs, mem[s])
    BY <1>1, <1>4, <1>5, <1>8 DEF MD5Read, Call
  <1>11. JobType(l, fs) /\ CopyInv(l, fs)
    BY <1>7, <1>9, <1>10
  <1>12. QED
    BY <1>2, <1>10, <1>11, LocalCall

LEMMA ReadLinkKeeps == ASSUME OpsInv, NEW s \in Slots, ReadLink(s) PROVE OpsInv'
  <1>1. PICK j, i : j = job[s] /\ i = Walk(fs, j.at, FALSE).ino
    OBVIOUS
  <1>2. /\ JobType(j, fs) /\ j.pc = "readlink" /\ mem[s] \in [1..Cells -> Chars] /\ j.op = "symlink"
        /\ j.at \in Seq(Names) /\ Sound(fs)
    BY <1>1, Slot DEF ReadLink, At, JobType, Stage
  <1>3. i \in Inodes \union {None}
    BY <1>1, <1>2, Found
  <1>4. CASE Is(fs, i, "link")
    <2>1. PICK to \in {fs[i].to, <<Junk>>} : CallOn(s, [Miss(j, to # fs[i].to) EXCEPT !.at = to], fs, mem[s])
      BY <1>1, <1>4, Zenon DEF ReadLink, Call
    <2>2. to \in Seq(Names)
      <3>1. i \in Inodes /\ fs[i].kind = "link" /\ IsNode(fs[i])
        BY <1>2, <1>3, <1>4 DEF Is, Sound, FsType
      <3>2. fs[i].to \in Seq(Names)
        BY <3>1, NodeKinds
      <3>3. <<Junk>> \in Seq(Names)
        BY Constants
      <3>4. QED
        BY <2>1, <3>2, <3>3
    <2>3. PICK torn, l : torn \in BOOLEAN /\ torn = (to # fs[i].to) /\ l = Miss(j, torn)
      OBVIOUS
    <2>a. PICK k : k = [l EXCEPT !.at = to] /\ CallOn(s, k, fs, mem[s])
      BY <2>1, <2>3
    <2>b. JobType(l, fs) /\ l.pc = "readlink" /\ l.op = "symlink"
      <3>1. torn \in BOOLEAN /\ l = Miss(j, torn)
        BY <2>3
      <3>2. QED
        BY <1>2, <3>1, Missing
    <2>4. /\ DOMAIN k = DOMAIN NoJob /\ k.pc = l.pc /\ k.at = to
          /\ k.op = l.op /\ k.p = l.p /\ k.q = l.q /\ k.in = l.in
          /\ k.out = l.out /\ k.used = l.used /\ k.spoilt = l.spoilt /\ k.missed = l.missed /\ k.answer = l.answer
      BY <2>a, <2>b, JobFields DEF JobType
    <2>5. JobType(k, fs) /\ CopyInv(k, fs)
      BY <2>2, <2>4, <2>b DEF JobType, CopyInv, Stage
    <2>6. QED
      BY <1>2, <2>5, <2>a, LocalCall
  <1>5. CASE ~Is(fs, i, "link")
    <2>1. PICK k : /\ k = Goto(j, "symlink") /\ k.pc = "symlink" /\ Still(k, j)
                   /\ k.at = j.at /\ k.in = j.in /\ k.out = j.out /\ k.used = j.used
      BY <1>2, Gone
    <2>2. JobType(k, fs) /\ CopyInv(k, fs)
      BY <1>2, <2>1 DEF JobType, CopyInv, Still, Stage
    <2>3. CallOn(s, k, fs, mem[s])
      BY <1>1, <1>5, <2>1 DEF ReadLink, Call
    <2>4. QED
      BY <1>2, <2>2, <2>3, LocalCall
  <1>6. QED
    BY <1>4, <1>5

LEMMA SymlinkKeeps == ASSUME OpsInv, NEW s \in Slots, Symlink(s) PROVE OpsInv'
  <1>1. PICK j : j = job[s]
    OBVIOUS
  <1>2. /\ JobType(j, fs) /\ j.pc = "symlink" /\ mem[s] \in [1..Cells -> Chars] /\ j.op = "symlink"
        /\ j.q \in Seq(Names) /\ j.at \in Seq(Names) /\ Sound(fs)
    BY <1>1, Slot DEF Symlink, At, JobType, Stage
  <1>3. PICK w, node : w = Walk(fs, j.q, FALSE) /\ node = Link(j.at)
    OBVIOUS
  <1>4. PICK ok \in BOOLEAN : ok = Creatable(fs, w)
    BY DEF Creatable
  <1>5. PICK f : /\ f = (IF ok THEN Create(fs, w, node) ELSE fs)
                 /\ CallOn(s, Return(j, ok), f, mem[s])
    BY <1>1, <1>3, <1>4 DEF Symlink, Call
  <1>6. Sound(f) /\ \A i \in Inodes : fs[i].kind # "free" => f[i].kind = fs[i].kind
    <2>1. CASE ok
      <3>1. Located(fs, w) /\ Creatable(fs, w)
        BY <1>2, <1>3, <1>4, <2>1, Found DEF Creatable
      <3>2. PICK u \in Unused(fs) : \E g : /\ g = Create(fs, w, node) /\ Sound(g)
                                           /\ \A i \in Inodes \ {u} : g[i].kind = fs[i].kind
        <4>1. IsNode(node) /\ node.kind = "link"
          BY <1>2, <1>3, Nodes
        <4>2. IsNode(node) /\ node.kind # "free" /\ (node.kind = "dir" => \A n \in Names : node.has[n] = None)
          BY <4>1
        <4>3. QED
          BY <1>2, <3>1, <4>2, Created
      <3>3. fs[u].kind = "free"
        BY Nodes DEF Unused
      <3>4. QED
        BY <1>5, <2>1, <3>2, <3>3
    <2>2. CASE ~ok
      BY <1>2, <1>5, <2>2
    <2>3. QED
      BY <2>1, <2>2
  <1>7. JobType(Return(j, ok), f) /\ CopyInv(Return(j, ok), f)
    BY <1>2, <1>6, Answered
  <1>8. QED
    BY <1>2, <1>5, <1>6, <1>7, CallKeeps

-----------------------------------------------------------------------------
(* getContentDirectory                                                     *)

\* What is written to the buffers are characters.
LEMMA Memory ==
    ASSUME NEW m \in [1..Cells -> Chars]
    PROVE  /\ \A at \in Nat, t \in Seq(Chars) : Write(m, at, t) \in [1..Cells -> Chars]
           /\ \A p : Slash(m, p) \in [1..Cells -> Chars]
  <1>1. ASSUME NEW at \in Nat, NEW t \in Seq(Chars) PROVE Write(m, at, t) \in [1..Cells -> Chars]
    <2>1. PICK l \in Nat : l = Len(t)
      OBVIOUS
    <2>2. \A i \in (at + 1)..(at + l) : i - at \in 1..l
      OBVIOUS
    <2>3. \A i \in 1..Cells : (IF i \in (at + 1)..(at + l) THEN t[i - at] ELSE m[i]) \in Chars
      BY <2>1, <2>2
    <2>4. QED
      BY <2>1, <2>3 DEF Write
  <1>2. \A p : Slash(m, p) \in [1..Cells -> Chars]
    BY DEF Slash, Chars
  <1>3. QED
    BY <1>1, <1>2

\* So is the text of a path.
LEMMA Texts ==
    ASSUME NEW p \in Seq(Names)
    PROVE  Text(p) \in Seq(Chars)
  <1>1. CASE p = <<>>
    <2>1. <<"nul">> \in Seq(Chars)
      BY DEF Chars
    <2>2. QED
      BY <1>1, <2>1 DEF Text
  <1>2. CASE p # <<>>
    <2>1. PICK l \in Nat : l = Len(p)
      OBVIOUS
    <2>2. \A i \in 1..(2 * l) : i % 2 = 1 => (i + 1) \div 2 \in 1..l
      OBVIOUS
    <2>3. \A i \in 1..(2 * l) : i % 2 = 1 => p[(i + 1) \div 2] \in Chars
      BY <2>1, <2>2 DEF Chars
    <2>4. PICK t : t = [i \in 1..(2 * l) |-> IF i % 2 = 1 THEN p[(i + 1) \div 2] ELSE IF i = 2 * l THEN "nul" ELSE "/"]
      OBVIOUS
    <2>5. Text(p) = t
      BY <1>2, <2>1, <2>4 DEF Text
    <2>6. t \in [1..(2 * l) -> Chars]
      BY <2>3, <2>4 DEF Chars
    <2>7. PICK k \in Nat : k = 2 * l
      OBVIOUS
    <2>8. t \in Seq(Chars)
      BY <2>6, <2>7
    <2>9. QED
      BY <2>5, <2>8
  <1>3. QED
    BY <1>1, <1>2

LEMMA LsOpenKeeps == ASSUME OpsInv, NEW s \in Slots, LsOpen(s) PROVE OpsInv'
  <1>1. PICK j, m, d : j = job[s] /\ m = Slash(mem[s], job[s].p) /\ d = Walk(fs, Read(m), TRUE).ino
    OBVIOUS
  <1>2. JobType(j, fs) /\ j.pc = "opendir" /\ m \in [1..Cells -> Chars] /\ j.op = "ls"
    BY <1>1, Slot, Memory DEF LsOpen, At, JobType, Stage
  <1>3. PICK l : l = [j EXCEPT !.at = Read(m)]
    OBVIOUS
  <1>4. /\ DOMAIN l = DOMAIN NoJob /\ l.pc = j.pc
        /\ l.op = j.op /\ l.p = j.p /\ l.q = j.q /\ l.in = j.in
        /\ l.out = j.out /\ l.used = j.used /\ l.spoilt = j.spoilt /\ l.missed = j.missed /\ l.answer = j.answer
    BY <1>2, <1>3, JobFields DEF JobType
  <1>5. JobType(l, fs)
    BY <1>2, <1>4 DEF JobType, Stage
  <1>6. CASE CallOn(s, Return(l, FALSE), fs, m)
    <2>2. JobType(Return(l, FALSE), fs) /\ CopyInv(Return(l, FALSE), fs)
      BY <1>2, <1>4, <1>5, Answered
    <2>3. QED
      BY <1>2, <1>6, <2>2, LocalCall
  <1>7. CASE ~CallOn(s, Return(l, FALSE), fs, m)
    <2>1. PICK S \in SUBSET Names : S = Inside(fs, d)
      BY DEF Inside
    <2>2. PICK names \in SetToSeqs(S) : CallOn(s, [l EXCEPT !.pc = "entry", !.todo = names], fs, m)
      BY <1>1, <1>3, <1>7, <2>1, Zenon DEF LsOpen
    <2>3. names \in Seq(Names)
      BY Listing
    <2>4. PICK k : k = [l EXCEPT !.pc = "entry", !.todo = names] /\ CallOn(s, k, fs, m)
      BY <2>2
    <2>5. /\ DOMAIN k = DOMAIN NoJob /\ k.pc = "entry" /\ k.todo = names
          /\ k.op = j.op /\ k.p = j.p /\ k.q = j.q /\ k.in = j.in
          /\ k.out = j.out /\ k.used = j.used /\ k.spoilt = j.spoilt /\ k.missed = j.missed /\ k.answer = j.answer
      BY <1>4, <2>4, JobFields
    <2>6. JobType(k, fs) /\ CopyInv(k, fs)
      BY <1>2, <2>3, <2>5 DEF JobType, CopyInv, Stage
    <2>7. QED
      BY <1>2, <2>4, <2>6, LocalCall
  <1>8. QED
    BY <1>6, <1>7

\* What an entry takes fits in behind what the buffer has, or into the empty buffer.
LEMMA Fits ==
    ASSUME NEW j, j.used \in Nat, NEW n \in Names
    PROVE  Packed(j, n) \in Nat /\ Packed(j, n) <= BufferSize - 2
  <1>1. PICK l \in 1..255, b \in Nat, u \in Nat :
           l = NameLen[n] /\ b = BufferSize /\ u = j.used /\ l + 12 <= b
    BY FileOpsAssumption DEF MinRemaining
  <1>2. PICK r : r = Room(u, n)
    OBVIOUS
  <1>3. r = IF u + l >= b - 12 THEN 0 ELSE u
    BY <1>1, <1>2 DEF Room, MinRemaining
  <1>4. r \in Nat /\ r + 10 + l \in Nat /\ r + 10 + l <= b - 2
    BY <1>1, <1>3
  <1>5. Packed(j, n) = r + 10 + l
    BY <1>1, <1>2 DEF Packed
  <1>6. QED
    BY <1>1, <1>4, <1>5

\* An entry is put into the buffer, or what the buffer has is sent first.
LEMMA LsEntryKeeps == ASSUME OpsInv, NEW s \in Slots, LsEntry(s) PROVE OpsInv'
  <1>1. PICK j, n : j = job[s] /\ n = Head(j.todo)
    OBVIOUS
  <1>2. /\ JobType(j, fs) /\ j.pc = "entry" /\ mem[s] \in [1..Cells -> Chars] /\ j.op = "ls"
        /\ j.todo \in Seq(Names) /\ j.todo # <<>> /\ j.p \in Seq(Names) /\ j.used \in Nat
    BY <1>1, Slot DEF LsEntry, At, JobType, Stage
  <1>3. n \in Names /\ Tail(j.todo) \in Seq(Names)
    BY <1>1, <1>2
  <1>4. PICK m : m = Write(mem[s], 2 * Len(j.p), <<n, "nul">>)
    OBVIOUS
  <1>5. m \in [1..Cells -> Chars]
    <2>1. 2 * Len(j.p) \in Nat
      BY <1>2
    <2>2. <<n, "nul">> \in Seq(Chars)
      BY <1>3 DEF Chars
    <2>3. QED
      BY <1>2, <1>4, <2>1, <2>2, Memory
  <1>6. PICK used \in Nat : used = Packed(j, n) /\ used <= BufferSize - 2
    BY <1>2, <1>3, Fits
  <1>7. PICK h : h = [j EXCEPT !.todo = Tail(j.todo), !.got = j.got \union {Entry(n, TRUE, 0)}, !.used = used]
    OBVIOUS
  <1>8. /\ DOMAIN h = DOMAIN NoJob /\ h.pc = j.pc /\ h.todo = Tail(j.todo) /\ h.used = used
        /\ h.op = j.op /\ h.p = j.p /\ h.q = j.q /\ h.in = j.in
        /\ h.out = j.out /\ h.spoilt = j.spoilt /\ h.missed = j.missed /\ h.answer = j.answer
    BY <1>2, <1>7, JobFields DEF JobType
  <1>9. JobType(h, fs) /\ CopyInv(h, fs)
    BY <1>2, <1>3, <1>6, <1>8 DEF JobType, CopyInv, Stage
  <1>10. PICK dir \in BOOLEAN : dir = IsDirectory(fs, Append(j.p, n))
    BY DEF IsDirectory, Is
  <1>11. PICK i : i = Miss(j, dir) /\ JobType(i, fs) /\ i.pc = "entry" /\ i.op = "ls" /\ i.todo = j.todo
    BY <1>2, <1>10, Missing
  <1>12. PICK k : /\ k = Goto(i, "entrysize") /\ k.pc = "entrysize" /\ Still(k, i)
                  /\ k.at = i.at /\ k.in = i.in /\ k.out = i.out /\ k.todo = i.todo /\ k.used = i.used
    BY <1>11, Gone
  <1>13. JobType(k, fs) /\ CopyInv(k, fs)
    BY <1>2, <1>11, <1>12 DEF JobType, CopyInv, Still, Stage
  <1>14. \E seen \in {dir, FALSE} : CallOn(s, IF seen THEN h ELSE k, fs, m)
    BY <1>1, <1>4, <1>6, <1>7, <1>10, <1>11, <1>12 DEF LsEntry
  <1>15. PICK l : l \in {h, k} /\ CallOn(s, l, fs, m)
    BY <1>14
  <1>16. JobType(l, fs) /\ CopyInv(l, fs)
    BY <1>9, <1>13, <1>15
  <1>17. QED
    BY <1>5, <1>15, <1>16, LocalCall

\* The size of an entry is asked for after its kind.
LEMMA LsSizeKeeps == ASSUME OpsInv, NEW s \in Slots, LsSize(s) PROVE OpsInv'
  <1>1. PICK j, n : j = job[s] /\ n = Head(j.todo)
    OBVIOUS
  <1>2. /\ JobType(j, fs) /\ j.pc = "entrysize" /\ mem[s] \in [1..Cells -> Chars] /\ j.op = "ls"
        /\ j.todo \in Seq(Names) /\ j.todo # <<>> /\ j.p \in Seq(Names) /\ j.used \in Nat
    BY <1>1, Slot DEF LsSize, At, JobType, Stage
  <1>3. n \in Names /\ Tail(j.todo) \in Seq(Names)
    BY <1>1, <1>2
  <1>4. PICK used \in Nat : used = Packed(j, n) /\ used <= BufferSize - 2
    BY <1>2, <1>3, Fits
  <1>5. PICK x : x = j.got \union {Entry(n, FALSE, SizeOf(fs, Append(j.p, n)))}
    OBVIOUS
  <1>6. PICK h : h = [j EXCEPT !.pc = "entry", !.todo = Tail(j.todo), !.used = used, !.got = x]
    OBVIOUS
  <1>7. /\ DOMAIN h = DOMAIN NoJob /\ h.pc = "entry" /\ h.todo = Tail(j.todo) /\ h.used = used
        /\ h.op = j.op /\ h.p = j.p /\ h.q = j.q /\ h.in = j.in
        /\ h.out = j.out /\ h.spoilt = j.spoilt /\ h.missed = j.missed /\ h.answer = j.answer
    BY <1>2, <1>6, JobFields DEF JobType
  <1>8. JobType(h, fs) /\ CopyInv(h, fs)
    BY <1>2, <1>3, <1>4, <1>7 DEF JobType, CopyInv, Stage
  <1>9. CallOn(s, h, fs, mem[s])
    BY <1>1, <1>4, <1>5, <1>6 DEF LsSize, Call
  <1>10. QED
    BY <1>2, <1>8, <1>9, LocalCall

LEMMA LsEndKeeps == ASSUME OpsInv, NEW s \in Slots, LsEnd(s) PROVE OpsInv'
  <1>1. PICK j : j = job[s]
    OBVIOUS
  <1>2. JobType(j, fs) /\ j.pc = "entry" /\ mem[s] \in [1..Cells -> Chars] /\ j.op = "ls"
    BY <1>1, Slot DEF LsEnd, At, JobType, Stage
  <1>3. PICK cut, i : cut \in BOOLEAN /\ cut = (j.todo # <<>>) /\ i = Miss(j, cut)
    OBVIOUS
  <1>4. JobType(i, fs) /\ i.pc = "entry" /\ i.op = "ls"
    <2>1. cut \in BOOLEAN /\ i = Miss(j, cut)
      BY <1>3
    <2>2. QED
      BY <1>2, <2>1, Missing
  <1>5. JobType(Return(i, TRUE), fs) /\ CopyInv(Return(i, TRUE), fs)
    BY <1>4, Answered
  <1>6. CallOn(s, Return(i, TRUE), fs, mem[s])
    BY <1>1, <1>3 DEF LsEnd, Call
  <1>7. QED
    BY <1>2, <1>5, <1>6, LocalCall

LEMMA ReleaseKeeps == ASSUME OpsInv, NEW s \in Slots, Release(s) PROVE OpsInv'
  <1>1. CallOn(s, NoJob, fs, mem[s]) /\ mem[s] \in [1..Cells -> Chars]
    BY Slot DEF Release, Call
  <1>2. JobType(NoJob, fs) /\ CopyInv(NoJob, fs)
    BY FreeSlot
  <1>3. QED
    BY <1>1, <1>2, LocalCall

-----------------------------------------------------------------------------
(* The requests that arrive.                                               *)

\* What a client asks for is a path.
LEMMA Asking == \A p \in Asked : p \in Seq(Names) /\ Text(p) \in Seq(Chars)
  BY FileOpsAssumption, Texts

\* Where each request begins.
LEMMA FirstSteps ==
    /\ First("mkdir") = "exists" /\ First("move") = "rename" /\ First("copy") = "source"
    /\ First("remove") = "unlink" /\ First("rmtree") = "tree" /\ First("cptree") = "cp"
    /\ First("stat") = "access" /\ First("md5") = "fopen" /\ First("symlink") = "readlink"
    /\ First("ls") = "opendir"
  BY DEF First

\* A request comes in, and its paths are written to the buffers of the slot.
LEMMA RequestKeeps ==
    ASSUME OpsInv, NEW s \in Slots, NEW op \in OnePath \union TwoPath, NEW p \in Seq(Names), NEW q \in Seq(Names),
           Request(s, op, p, q)
    PROVE  OpsInv'
  <1>1. PICK k : /\ job' = [job EXCEPT ![s] = k]
                 /\ k = [NoJob EXCEPT !.op = op, !.pc = First(op), !.p = p, !.q = q, !.at = p, !.before = fs,
                                      !.todo = <<[path |-> p, last |-> FALSE]>>]
    BY DEF Request
  <1>2. /\ DOMAIN k = DOMAIN NoJob /\ k.op = op /\ k.pc = First(op) /\ k.p = p /\ k.q = q /\ k.at = p
        /\ k.in = None /\ k.out = None /\ k.todo = <<[path |-> p, last |-> FALSE]>> /\ k.used = 0
        /\ k.spoilt = FALSE /\ k.missed = FALSE /\ k.answer = "none"
    BY <1>1 DEF NoJob
  <1>3. Stage(k) /\ k.pc \notin {"entry", "entrysize", "fread", "free", "done", "sendfile", "cpwrite"}
    BY <1>2, FirstSteps DEF Stage, OnePath, TwoPath
  <1>4. k.todo \in Seq(Visits) /\ k.todo # <<>>
    <2>1. [path |-> p, last |-> FALSE] \in Visits
      BY DEF Visits
    <2>2. QED
      BY <1>2, <2>1
  <1>5. BufferSize - 2 \in Nat
    BY BufferLarge
  <1>6. JobType(k, fs) /\ CopyInv(k, fs)
    <2>1. /\ DOMAIN k = DOMAIN NoJob /\ k.op = op /\ k.p \in Seq(Names) /\ k.q \in Seq(Names) /\ k.at \in Seq(Names)
          /\ k.in = None /\ k.out = None /\ k.used = 0 /\ k.spoilt = FALSE /\ k.missed = FALSE /\ k.answer = "none"
      BY <1>2
    <2>2. k.used \in Nat /\ k.used <= BufferSize - 2
      BY <1>5, <2>1
    <2>3. JobType(k, fs)
      BY <1>3, <1>4, <2>1, <2>2 DEF JobType
    <2>4. CopyInv(k, fs)
      BY <1>3, <2>1 DEF CopyInv
    <2>5. QED
      BY <2>3, <2>4
  <1>7. fs' = fs /\ asked' \in 0..Requests /\ mem' \in [Slots -> [1..Cells -> Chars]]
    <2>1. Write(mem[s], 0, Text(p)) \in [1..Cells -> Chars]
      BY Slot, Memory, Texts
    <2>2. asked' \in 0..Requests
      BY FileOpsAssumption DEF OpsInv, Request
    <2>3. QED
      BY <2>1, <2>2 DEF OpsInv, Request
  <1>8. \A t \in Slots : JobType(job'[t], fs) /\ CopyInv(job'[t], fs)
    BY <1>1, <1>6 DEF OpsInv
  <1>9. Opened(job') = Opened(job)
    <2>1. job[s].in = None /\ job[s].out = None
      BY Slot DEF Request, FirstFree, JobType
    <2>2. \A t \in Slots : job'[t].in = job[t].in /\ job'[t].out = job[t].out
      BY <1>1, <1>2, <2>1 DEF OpsInv
    <2>3. QED
      BY <2>2 DEF Opened
  <1>10. DOMAIN job' = Slots
    BY <1>1 DEF OpsInv
  <1>11. QED
    BY <1>7, <1>8, <1>9, <1>10 DEF OpsInv

\* A path that is not allowed is refused.
LEMMA RefuseKeeps == ASSUME OpsInv, NEW s \in Slots, NEW p \in Seq(Names), Refuse(s, p) PROVE OpsInv'
  <1>1. Write(mem[s], 0, Text(p)) \in [1..Cells -> Chars]
    BY Slot, Memory, Texts
  <1>2. mem' \in [Slots -> [1..Cells -> Chars]]
    BY <1>1 DEF OpsInv, Refuse
  <1>3. asked' \in 0..Requests
    BY FileOpsAssumption DEF OpsInv, Refuse
  <1>4. fs' = fs /\ job' = job
    BY DEF Refuse
  <1>5. QED
    BY <1>2, <1>3, <1>4 DEF OpsInv

-----------------------------------------------------------------------------
(* The theorems.                                                           *)

\* Every step keeps the tree and the requests.
LEMMA StepOps == OpsInv /\ [Next]_vars => OpsInv'
  <1> SUFFICES ASSUME OpsInv, [Next]_vars PROVE OpsInv'
    OBVIOUS
  <1>1. CASE Arrive
    <2>1. PICK s \in Slots, p \in Asked :
             \/ \E op \in OnePath : Request(s, op, p, <<>>)
             \/ \E op \in TwoPath, q \in Asked : Request(s, op, p, q)
             \/ Refuse(s, p)
      BY <1>1 DEF Arrive
    <2>2. p \in Seq(Names) /\ <<>> \in Seq(Names)
      BY Asking
    <2>3. CASE \E op \in OnePath : Request(s, op, p, <<>>)
      BY <2>2, <2>3, RequestKeeps
    <2>4. CASE \E op \in TwoPath, q \in Asked : Request(s, op, p, q)
      <3>1. PICK op \in TwoPath, q \in Asked : Request(s, op, p, q)
        BY <2>4
      <3>2. q \in Seq(Names) /\ op \in OnePath \union TwoPath
        BY Asking
      <3>3. QED
        BY <2>2, <3>1, <3>2, RequestKeeps
    <2>5. CASE Refuse(s, p)
      BY <2>2, <2>5, RefuseKeeps
    <2>6. QED
      BY <2>1, <2>3, <2>4, <2>5
  <1>2. CASE \E s \in Slots : Slave(s)
    <2>1. PICK s \in Slots : Slave(s)
      BY <1>2
    <2>2. CASE MkdirStat(s) \/ Mkdir(s) \/ Move(s) \/ RemoveFile(s)
      BY <2>2, MkdirStatKeeps, MkdirKeeps, MoveKeeps, RemoveFileKeeps
    <2>3. CASE CopySource(s) \/ CopyTarget(s) \/ CopyStat(s) \/ CopySend(s)
      BY <2>3, CopySourceKeeps, CopyTargetKeeps, CopyStatKeeps, CopySendKeeps
    <2>4. CASE TreeLook(s) \/ TreeRemove(s) \/ CpOpen(s) \/ CpWrite(s)
      BY <2>4, TreeLookKeeps, TreeRemoveKeeps, CpOpenKeeps, CpWriteKeeps
    <2>5. CASE StatAccess(s) \/ StatIsDir(s) \/ StatSize(s) \/ MD5Open(s) \/ MD5Read(s)
      BY <2>5, StatAccessKeeps, StatIsDirKeeps, StatSizeKeeps, MD5OpenKeeps, MD5ReadKeeps
    <2>6. CASE ReadLink(s) \/ Symlink(s)
      BY <2>6, ReadLinkKeeps, SymlinkKeeps
    <2>7. CASE LsOpen(s) \/ LsEntry(s) \/ LsSize(s) \/ LsEnd(s) \/ Release(s)
      BY <2>7, LsOpenKeeps, LsEntryKeeps, LsSizeKeeps, LsEndKeeps, ReleaseKeeps
    <2>8. QED
      BY <2>1, <2>2, <2>3, <2>4, <2>5, <2>6, <2>7 DEF Slave
  <1>3. CASE UNCHANGED vars
    BY <1>3 DEF OpsInv, vars
  <1>4. QED
    BY <1>1, <1>2, <1>3 DEF Next

\* The type invariant follows.
LEMMA OpsTyped == OpsInv => TypeOK
  <1> SUFFICES ASSUME OpsInv PROVE TypeOK
    OBVIOUS
  <1>1. Sound(fs) /\ FsType(fs)
    BY DEF OpsInv, Sound
  <1>2. \A i \in Inodes : i \in Linked(fs) <=> InTree(fs, i)
    BY <1>1, LinkedTree
  <1>3. fs[Root].kind = "dir" /\ Root \notin Linked(fs)
    BY <1>1, <1>2, Constants DEF Sound
  <1>4. ASSUME NEW i \in Inodes \ {Root}
        PROVE  /\ fs[i].kind \in {"free", "file", "dir", "link"}
               /\ fs[i].kind = "free" <=> i \notin Linked(fs) \union Opened(job)
               /\ \A x, y \in NamesOf(fs, i) : x = y
    <2>1. fs[i].kind \in {"free", "file", "dir", "link"}
      BY <1>1, NodeKinds DEF FsType
    <2>2. fs[i].kind = "free" <=> i \notin Linked(fs) \union Opened(job)
      BY <1>2 DEF OpsInv
    <2>3. ASSUME NEW x \in NamesOf(fs, i), NEW y \in NamesOf(fs, i) PROVE x = y
      <3>1. PICK d \in Inodes, n \in Names : x = <<d, n>>
        BY DEF NamesOf
      <3>2. PICK e \in Inodes, m \in Names : y = <<e, m>>
        BY DEF NamesOf
      <3>3. Entered(fs, d, n, i) /\ Entered(fs, e, m, i)
        BY <3>1, <3>2 DEF NamesOf, Entered
      <3>4. d = e /\ n = m
        BY <1>1, <3>3 DEF Sound
      <3>5. QED
        BY <3>1, <3>2, <3>4
    <2>4. QED
      BY <2>1, <2>2, <2>3
  <1>5. ASSUME NEW s \in Slots
        PROVE  /\ job[s].op \in OnePath \union TwoPath \union {"none"}
               /\ job[s].out # None => fs[job[s].out].kind = "file"
               /\ job[s].used <= BufferSize - 2
               /\ job[s].answer # "none" <=> job[s].pc = "done"
    BY DEF OpsInv, JobType, Stage
  <1>6. mem \in [Slots -> [1..Cells -> Names \union {"/", "nul"}]] /\ asked \in 0..Requests
    BY DEF OpsInv, Chars
  <1>7. QED
    BY <1>3, <1>4, <1>5, <1>6 DEF TypeOK

\* So does what is promised of a copy.
LEMMA OpsCopies == OpsInv => CopyIsWhole
  BY DEF OpsInv, CopyInv, CopyIsWhole, Noticed, Completed, Whole

\* The inductive invariant of all slaves together: the files are a tree, what has a name or
\* a descriptor is there and nothing else, the locals of each request fit the call it is in,
\* and a copy knows the size of its source.
THEOREM OpsAlways == Spec => []OpsInv
  BY InitOps, StepOps, PTL DEF Spec

\* The files stay a tree whatever the slaves do to them at the same time: no inode has two
\* names, and one is free only if it has neither a name nor a descriptor; what a copy writes
\* to is a file, and a message of a listing fits into a datagram with its code.
THEOREM FilesAreWellFormed == Spec => []TypeOK
  BY OpsAlways, OpsTyped, PTL

\* copyFile() and cp answer that they are done only when all of the source is in the target:
\* if no one else has touched either since, the target begins with the source, and cp's is
\* the source.  This is not so if copyFile could not open its source, as it does not look at
\* the descriptor, nor if a signal has killed cp, as copyFolder does not look for that.
THEOREM CopiesAreWhole == Spec => []CopyIsWhole
  BY OpsAlways, OpsCopies, PTL

-----------------------------------------------------------------------------
(* A request that is alone: how the files have come from those it has      *)
(* found, and what it knows of them.                                       *)

\* No other file has changed.
Others(j, f) ==
    \A i \in Inodes : j.before[i].kind = "file" /\ f[i] # j.before[i] => Meant(j, i)

\* g is what is left of f: some entries are gone.
Shrunk(g, f) ==
    /\ \A d \in Inodes : Is(g, d, "dir") =>
          Is(f, d, "dir") /\ \A n \in Names : g[d].has[n] \in {None, f[d].has[n]}
    /\ \A i \in Inodes : InTree(g, i) => g[i].kind = f[i].kind /\ (f[i].kind = "link" => g[i] = f[i])

\* What is at x goes with the tree.
Doomed(j, x) ==
    LET top == Walk(j.before, j.p, FALSE).ino  i == Walk(j.before, x, FALSE).ino IN
    i # None => top # None /\ Beneath(j.before, i, top)

\* Where a request may be when it has changed files.
Changed == {"done", "fstat", "sendfile", "cpwrite", "tree"}

\* A copy under way: the source is what it was, and what is open leads to the target.
Target(j) == IF j.op = "copy" THEN j.q ELSE CpTarget(j.before, j.p, j.q)
Copying(j, f) ==
    /\ j.in # None /\ j.before[j.in].kind = "file" => f[j.in] = j.before[j.in]
    /\ j.out # None => Walk(f, Target(j), TRUE).ino = j.out

\* How the files have come from those the request has found.
Near(j, f) ==
    j.before # None =>
       /\ Sound(j.before) /\ ~j.spoilt
       /\ j.pc \notin Changed => f = j.before
       /\ Others(j, f)
       /\ j.pc \in {"fstat", "sendfile", "cpwrite"} /\ j.out # None /\ j.before[j.out].kind = "file" =>
             j.out \in Named(j)
       /\ j.pc \in {"fstat", "sendfile", "cpwrite"} => Copying(j, f)
       /\ j.pc = "tree" => /\ Shrunk(f, j.before)
                           /\ \A k \in DOMAIN j.todo : Doomed(j, j.todo[k].path)

\* The entries of a listing that are still to come.
Entries(f, p, names) == {EntryOf(f, p, names[k]) : k \in DOMAIN names}

\* What the request has found out so far.
Knows(j) ==
    LET b == j.before  i == Walk(b, j.p, TRUE).ino IN
    /\ j.pc \in {"target", "fstat", "sendfile"} => j.in \in {i, None}
    /\ j.pc = "cpwrite" => j.in = i /\ Is(b, i, "file")
    /\ j.pc \in {"readlink", "symlink"} /\ ~j.missed /\ ~GivenUp(b, j.p) =>
          ~GivenUp(b, j.at) /\ Walk(b, j.at, TRUE).ino = i
    /\ j.pc = "isdir" => i # None
    /\ j.pc = "size" /\ ~j.missed => Is(b, i, "file")
    /\ j.pc = "fopen" => j.sum = <<>>
    /\ j.pc = "fread" => j.in = i /\ j.sum \in Seq(Blocks) /\ IsPrefix(j.sum, Data(b, j.p))
    /\ j.pc = "opendir" => j.got = {}
    /\ j.pc \in {"entry", "entrysize"} /\ j.at = j.p /\ ~j.missed =>
          j.got \union Entries(b, j.p, j.todo) = Listed(b, i, j.p)
    /\ j.pc = "entrysize" /\ ~j.missed => ~IsDirectory(b, Append(j.p, Head(j.todo)))
    /\ j.pc = "tree" => j.todo[Len(j.todo)].path = j.p

Right(j, f) == j.before # None => Knows(j) /\ (j.pc = "done" => Truthful(j, f))

AloneInv ==
    \A s \in Slots :
       Near(job[s], fs) /\ Right(job[s], fs) /\ (job[s].pc = "free" => job[s].before = None)

-----------------------------------------------------------------------------
(* Walks in what is left of a tree, behind a folder, and to a new file.    *)

\* What a directory has is in whatever that directory is in.
LEMMA BeneathHeld ==
    ASSUME NEW b, NEW t, NEW d \in Inodes, Beneath(b, d, t), Is(b, d, "dir"),
           NEW n \in Names, NEW x, x = b[d].has[n], x # None
    PROVE  Beneath(b, x, t)
  <1>1. x \in Held(b, d)
    BY DEF Held
  <1>2. QED
    BY <1>1 DEF Beneath

\* An inode lies in itself.
LEMMA BeneathSelf == ASSUME NEW b, NEW i PROVE Beneath(b, i, i)
  BY DEF Beneath

\* Nothing is gone yet.
LEMMA ShrunkSelf == ASSUME NEW f, Sound(f) PROVE Shrunk(f, f)
  BY DEF Shrunk

\* How a walk goes on.
Place(d, n, i, rest) == [dir |-> d, name |-> n, ino |-> i, rest |-> rest]

\* The fields of a place.
LEMMA PlaceIs ==
    ASSUME NEW d, NEW n, NEW i, NEW rest
    PROVE  /\ Place(d, n, i, rest).dir = d /\ Place(d, n, i, rest).name = n
           /\ Place(d, n, i, rest).ino = i /\ Place(d, n, i, rest).rest = rest
  BY DEF Place

\* Where a walk does not go on.
LEMMA Rests ==
    ASSUME NEW f, NEW w, NEW follow
    PROVE  /\ w.rest = <<>> => Along(f, w, follow) = w
           /\ w.rest # <<>> /\ w.ino = None => Along(f, w, follow) = Nowhere
           /\ w.rest # <<>> /\ f[w.ino].kind # "dir" => Along(f, w, follow) = Nowhere
  BY DEF Along

Jumps(f, w, follow, i) == i # None /\ f[i].kind = "link" /\ (follow \/ Len(w.rest) > 1)

\* A link on the way: the walk goes back to the root with the path of the link before it.
LEMMA Jump ==
    ASSUME NEW f, NEW w, NEW follow, w.rest # <<>>, w.ino # None, f[w.ino].kind = "dir",
           NEW i, i = f[w.ino].has[Head(w.rest)], Jumps(f, w, follow, i)
    PROVE  Along(f, w, follow) = Start(f[i].to \o Tail(w.rest))
  BY DEF Along, Start, Jumps

\* Anything else on the way: the walk enters it.
LEMMA Enter ==
    ASSUME NEW f, NEW w, NEW follow, w.rest # <<>>, w.ino # None, f[w.ino].kind = "dir",
           NEW i, i = f[w.ino].has[Head(w.rest)], ~Jumps(f, w, follow, i)
    PROVE  Along(f, w, follow) = Place(w.ino, Head(w.rest), i, Tail(w.rest))
  <1>1. PICK n : n = Head(w.rest)
    OBVIOUS
  <1>2. ~(i # None /\ f[i].kind = "link" /\ (follow \/ Len(w.rest) > 1)) /\ i = f[w.ino].has[n]
    BY <1>1 DEF Jumps
  <1>3. QED
    BY <1>1, <1>2 DEF Along, Place

\* In what is left of the files a path leads to what it led to, or to nothing.
LEMMA ShrunkWalk ==
    ASSUME NEW f, Sound(f), NEW g, Sound(g), Shrunk(g, f), NEW p \in Seq(Names), NEW follow
    PROVE  Walk(g, p, follow).ino = None \/ Walk(g, p, follow) = Walk(f, p, follow)
  <1>1. PICK a : Goes(a, f, p, follow)
    BY WalkGoes
  <1>2. PICK c : Goes(c, g, p, follow)
    BY WalkGoes
  <1> DEFINE S == {n \in 0..Hops : Visit(g, follow, c[n]) /\ (c[n] = a[n] \/ c[n].ino = None)}
  <1>3. 0 \in S
    <2>1. Visit(g, follow, Start(p))
      BY VisitStart
    <2>2. QED
      BY <1>1, <1>2, <2>1 DEF Goes, Hops
  <1>4. ASSUME NEW n \in 1..Hops, n - 1 \in S PROVE n \in S
    <2>1. PICK v, x, y : v = c[n - 1] /\ x = a[n] /\ y = c[n]
      OBVIOUS
    <2>2. Visit(g, follow, v) /\ y = Along(g, v, follow) /\ (v.ino = None \/ (v = a[n - 1] /\ x = Along(f, v, follow)))
      BY <1>1, <1>2, <1>4, <2>1 DEF Goes
    <2>3. Visit(g, follow, y)
      BY <2>2, VisitAlong
    <2>4. y = x \/ y.ino = None
      <3>1. CASE v.ino = None
        <4>1. y = v \/ y = Nowhere
          BY <2>2, <3>1, Rests
        <4>2. QED
          BY <3>1, <4>1, StartIs
      <3>2. CASE v.ino # None /\ v.rest = <<>>
        BY <2>2, <3>2, Rests
      <3>3. CASE v.ino # None /\ v.rest # <<>> /\ g[v.ino].kind # "dir"
        BY <2>2, <3>3, Rests, StartIs
      <3>4. CASE v.ino # None /\ v.rest # <<>> /\ g[v.ino].kind = "dir"
        <4>1. PICK m, i, e : m = Head(v.rest) /\ i = g[v.ino].has[m] /\ e = f[v.ino].has[m]
          OBVIOUS
        <4>2. v.ino \in Inodes /\ m \in Names /\ f[v.ino].kind = "dir" /\ i \in {None, e}
          BY <2>2, <3>4, <4>1 DEF Visit, Shrunk, Is
        <4>3. CASE i = None
          <5>1. y = Place(v.ino, m, i, Tail(v.rest))
            <6>1. ~Jumps(g, v, follow, i) /\ i = g[v.ino].has[Head(v.rest)]
              BY <4>1, <4>3 DEF Jumps
            <6>2. Along(g, v, follow) = Place(v.ino, Head(v.rest), i, Tail(v.rest))
              BY <3>4, <6>1, Enter
            <6>3. QED
              BY <2>2, <4>1, <6>2
          <5>2. QED
            BY <4>3, <5>1, PlaceIs
        <4>4. CASE i # None
          <5>1. i = e /\ i \in Inodes
            <6>1. IsNode(g[v.ino])
              BY <4>2 DEF Sound, FsType
            <6>2. i \in Inodes \union {None}
              BY <3>4, <4>1, <4>2, <6>1, NodeKinds
            <6>3. QED
              BY <4>2, <4>4, <6>2
          <5>2. InTree(g, i)
            BY <3>4, <4>1, <4>2, <5>1 DEF InTree, Entered, Is
          <5>3. g[i].kind = f[i].kind /\ (g[i].kind = "link" => g[i] = f[i])
            BY <5>1, <5>2 DEF Shrunk
          <5>4. v = a[n - 1] /\ x = Along(f, v, follow)
            BY <2>2, <3>4
          <5>5. Jumps(g, v, follow, i) <=> Jumps(f, v, follow, i)
            BY <5>3 DEF Jumps
          <5>6. CASE Jumps(g, v, follow, i)
            <6>1. y = Start(g[i].to \o Tail(v.rest))
              BY <2>2, <3>4, <4>1, <5>6, Jump
            <6>2. x = Start(f[i].to \o Tail(v.rest))
              <7>1. Jumps(f, v, follow, i) /\ i = f[v.ino].has[Head(v.rest)]
                BY <4>1, <5>1, <5>5, <5>6
              <7>2. v.rest # <<>> /\ v.ino # None /\ f[v.ino].kind = "dir"
                BY <3>4, <4>2
              <7>3. Along(f, v, follow) = Start(f[i].to \o Tail(v.rest))
                BY <7>1, <7>2, Jump
              <7>4. QED
                BY <5>4, <7>3
            <6>3. g[i] = f[i]
              BY <5>3, <5>6 DEF Jumps
            <6>4. QED
              BY <6>1, <6>2, <6>3
          <5>7. CASE ~Jumps(g, v, follow, i)
            <6>1. y = Place(v.ino, m, i, Tail(v.rest))
              BY <2>2, <3>4, <4>1, <5>7, Enter
            <6>2. x = Place(v.ino, m, i, Tail(v.rest))
              <7>1. ~Jumps(f, v, follow, i) /\ i = f[v.ino].has[Head(v.rest)]
                BY <4>1, <5>1, <5>5, <5>7
              <7>2. v.rest # <<>> /\ v.ino # None /\ f[v.ino].kind = "dir"
                BY <3>4, <4>2
              <7>3. Along(f, v, follow) = Place(v.ino, Head(v.rest), i, Tail(v.rest))
                BY <7>1, <7>2, Enter
              <7>4. QED
                BY <4>1, <5>4, <7>3
            <6>3. QED
              BY <6>1, <6>2
          <5>8. QED
            BY <5>6, <5>7
        <4>5. QED
          BY <4>3, <4>4
      <3>5. QED
        BY <3>1, <3>2, <3>3, <3>4
    <2>5. QED
      BY <2>1, <2>3, <2>4 DEF Hops
  <1>5. Hops \in S
    BY <1>3, <1>4, Hopping
  <1>6. QED
    BY <1>1, <1>2, <1>5, StartIs DEF Goes

\* A path with one more name.
LEMMA Appending ==
    ASSUME NEW r \in Seq(Names), NEW n \in Names
    PROVE  /\ Append(r, n) \in Seq(Names) /\ Append(r, n) # <<>> /\ Len(Append(r, n)) = Len(r) + 1
           /\ r # <<>> => Head(Append(r, n)) = Head(r) /\ Tail(Append(r, n)) = Append(Tail(r), n)
           /\ r = <<>> => Head(Append(r, n)) = n /\ Tail(Append(r, n)) = <<>>
           /\ \A q \in Seq(Names) : q \o Append(r, n) = Append(q \o r, n)
  <1>1. Append(r, n) \in Seq(Names) /\ Len(Append(r, n)) = Len(r) + 1 /\ Append(r, n) # <<>>
    <2>1. Append(r, n) \in Seq(Names) /\ Len(Append(r, n)) = Len(r) + 1 /\ Len(r) \in Nat
      OBVIOUS
    <2>2. Len(Append(r, n)) # 0
      BY <2>1
    <2>3. QED
      BY <2>1, <2>2
  <1>2. r # <<>> => Head(Append(r, n)) = Head(r)
    OBVIOUS
  <1>3. ASSUME r # <<>> PROVE Tail(Append(r, n)) = Append(Tail(r), n)
    <2>1. PICK l \in Nat : l = Len(r) /\ l >= 1
      BY <1>3
    <2>2. PICK a, b, t : a = Tail(Append(r, n)) /\ t = Tail(r) /\ b = Append(t, n)
      OBVIOUS
    <2>3. t \in Seq(Names) /\ Len(t) = l - 1 /\ \A i \in 1..(l - 1) : t[i] = r[i + 1]
      BY <1>3, <2>1, <2>2
    <2>4. b \in Seq(Names) /\ Len(b) = l /\ b[l] = n /\ \A i \in 1..(l - 1) : b[i] = t[i]
      BY <2>1, <2>2, <2>3
    <2>5. a \in Seq(Names) /\ Len(a) = l /\ \A i \in 1..l : a[i] = Append(r, n)[i + 1]
      BY <1>1, <2>1, <2>2
    <2>6. ASSUME NEW i \in 1..l PROVE a[i] = b[i]
      <3>1. CASE i = l
        <4>1. Append(r, n)[l + 1] = n
          BY <2>1
        <4>2. QED
          BY <2>4, <2>5, <3>1, <4>1
      <3>2. CASE i # l
        <4>1. i \in 1..(l - 1) /\ i + 1 \in 1..l
          BY <3>2
        <4>2. Append(r, n)[i + 1] = r[i + 1]
          BY <2>1, <4>1
        <4>3. QED
          BY <2>3, <2>4, <2>5, <4>1, <4>2
      <3>3. QED
        BY <3>1, <3>2
    <2>7. a = b
      BY <2>4, <2>5, <2>6
    <2>8. QED
      BY <2>2, <2>7
  <1>4. r = <<>> => Head(Append(r, n)) = n /\ Tail(Append(r, n)) = <<>>
    OBVIOUS
  <1>5. ASSUME NEW q \in Seq(Names) PROVE q \o Append(r, n) = Append(q \o r, n)
    <2>1. Append(r, n) = r \o <<n>> /\ Append(q \o r, n) = (q \o r) \o <<n>>
      BY AppendIsConcat
    <2>2. <<n>> \in Seq(Names)
      OBVIOUS
    <2>3. (q \o r) \o <<n>> = q \o (r \o <<n>>)
      BY <2>2, ConcatAssociative
    <2>4. QED
      BY <2>1, <2>3
  <1>6. QED
    BY <1>1, <1>2, <1>3, <1>4, <1>5

\* A walk that will not end at a directory.
Lost(f, v) == v.ino = None \/ (v.rest = <<>> /\ f[v.ino].kind # "dir")

\* The walk along a path with n behind it is at u when the walk along the path is at v.
Trails(f, n, v, u) ==
    \/ Lost(f, v)
    \/ u.ino = v.ino /\ u.rest = Append(v.rest, n)
    \/ v.rest = <<>> /\ u.rest = <<>> /\ u.ino = f[v.ino].has[n]

\* Behind a folder's path with a name is what the folder has under that name.
LEMMA WalkAppend ==
    ASSUME NEW f, Sound(f), NEW x \in Seq(Names), NEW n \in Names, NEW no, no = FALSE,
           Is(f, Walk(f, x, no).ino, "dir")
    PROVE  \/ Walk(f, Append(x, n), no).ino = None
           \/ Walk(f, Append(x, n), no).ino = f[Walk(f, x, no).ino].has[n]
  <1>1. PICK a : Goes(a, f, x, no)
    BY WalkGoes
  <1>2. PICK c : Goes(c, f, Append(x, n), no)
    BY WalkGoes
  <1> DEFINE S == {k \in 0..Hops : Visit(f, no, a[k]) /\ Trails(f, n, a[k], c[k])}
  <1>3. 0 \in S
    <2>1. Visit(f, no, Start(x))
      BY VisitStart
    <2>2. Start(Append(x, n)).ino = Start(x).ino /\ Start(Append(x, n)).rest = Append(Start(x).rest, n)
      BY StartIs
    <2>3. Trails(f, n, Start(x), Start(Append(x, n)))
      BY <2>2 DEF Trails
    <2>4. a[0] = Start(x) /\ c[0] = Start(Append(x, n))
      BY <1>1, <1>2 DEF Goes
    <2>5. 0 \in 0..Hops
      BY DEF Hops
    <2>6. QED
      BY <2>1, <2>3, <2>4, <2>5
  <1>4. ASSUME NEW k \in 1..Hops, k - 1 \in S PROVE k \in S
    <2>1. PICK v, u, y, z : v = a[k - 1] /\ u = c[k - 1] /\ y = a[k] /\ z = c[k]
      OBVIOUS
    <2>2. Visit(f, no, v) /\ y = Along(f, v, no) /\ z = Along(f, u, no) /\ Trails(f, n, v, u)
      BY <1>1, <1>2, <1>4, <2>1 DEF Goes
    <2>3. SUFFICES Trails(f, n, y, z)
      <3>1. Visit(f, no, y) /\ k \in 0..Hops
        BY <2>2, VisitAlong DEF Hops
      <3>2. QED
        BY <2>1, <2>3, <3>1
    <2>4. CASE Lost(f, v)
      <3>1. y = v \/ y = Nowhere
        BY <2>2, <2>4, Rests DEF Lost
      <3>2. Lost(f, y)
        BY <2>4, <3>1, StartIs DEF Lost
      <3>3. QED
        BY <3>2 DEF Trails
    <2>5. CASE v.rest = <<>> /\ u.rest = <<>> /\ u.ino = f[v.ino].has[n]
      <3>1. y = v /\ z = u
        BY <2>2, <2>5, Rests
      <3>2. QED
        BY <2>5, <3>1 DEF Trails
    <2>6. CASE ~Lost(f, v) /\ u.ino = v.ino /\ u.rest = Append(v.rest, n)
      <3>0. v.rest \in Seq(Names) /\ v.ino # None /\ v.ino \in Inodes /\ u.rest # <<>>
        <4>1. v.rest \in Seq(Names) /\ v.ino # None /\ v.ino \in Inodes
          BY <2>2, <2>6 DEF Lost, Visit
        <4>2. PICK r \in Seq(Names) : r = v.rest
          BY <4>1
        <4>3. Append(r, n) # <<>>
          BY Appending
        <4>4. QED
          BY <2>6, <4>1, <4>2, <4>3
      <3>1. CASE v.rest = <<>>
        <4>1. f[u.ino].kind = "dir" /\ u.ino # None
          BY <2>6, <3>0, <3>1 DEF Lost
        <4>2. Head(u.rest) = n /\ Tail(u.rest) = <<>> /\ Len(u.rest) = 1
          <5>1. Len(v.rest) = 0
            BY <3>1
          <5>2. QED
            BY <2>6, <3>0, <3>1, <5>1, Appending
        <4>3. PICK i : i = f[u.ino].has[n]
          OBVIOUS
        <4>4. ~Jumps(f, u, no, i)
          BY <4>2 DEF Jumps
        <4>5. i = f[u.ino].has[Head(u.rest)]
          BY <4>2, <4>3
        <4>6. z = Place(u.ino, n, i, <<>>)
          <5>1. z = Place(u.ino, Head(u.rest), i, Tail(u.rest))
            BY <2>2, <3>0, <4>1, <4>4, <4>5, Enter
          <5>2. QED
            BY <4>2, <5>1
        <4>7. y = v
          BY <2>2, <3>1, Rests
        <4>8. z.rest = <<>> /\ z.ino = f[v.ino].has[n]
          BY <2>6, <4>3, <4>6, PlaceIs
        <4>9. QED
          BY <3>1, <4>7, <4>8 DEF Trails
      <3>2. CASE v.rest # <<>> /\ f[v.ino].kind # "dir"
        <4>1. y = Nowhere /\ Nowhere.ino = None
          BY <2>2, <3>2, Rests, StartIs
        <4>2. Lost(f, y)
          BY <4>1 DEF Lost
        <4>3. QED
          BY <4>2 DEF Trails
      <3>3. CASE v.rest # <<>> /\ f[v.ino].kind = "dir"
        <4>1. PICK i : i = f[v.ino].has[Head(v.rest)]
          OBVIOUS
        <4>2. /\ Head(u.rest) = Head(v.rest) /\ Tail(u.rest) = Append(Tail(v.rest), n)
              /\ Len(u.rest) = Len(v.rest) + 1 /\ Len(v.rest) \in Nat /\ Len(v.rest) # 0
              /\ Tail(v.rest) \in Seq(Names) /\ Head(v.rest) \in Names
          BY <2>6, <3>0, <3>3, Appending
        <4>3. i = f[u.ino].has[Head(u.rest)]
          BY <2>6, <4>1, <4>2
        <4>4. i \in Inodes \union {None}
          <5>1. IsNode(f[v.ino])
            BY <3>0 DEF Sound, FsType
          <5>2. QED
            BY <3>3, <4>1, <4>2, <5>1, NodeKinds
        <4>5. CASE Jumps(f, v, no, i)
          <5>1. Jumps(f, u, no, i)
            BY <4>2, <4>5 DEF Jumps
          <5>2. y = Start(f[i].to \o Tail(v.rest))
            BY <2>2, <3>0, <3>3, <4>1, <4>5, Jump
          <5>3. z = Start(f[i].to \o Tail(u.rest))
            BY <2>2, <2>6, <3>0, <3>3, <4>3, <5>1, Jump
          <5>4. f[i].to \in Seq(Names)
            <6>1. i \in Inodes /\ f[i].kind = "link" /\ IsNode(f[i])
              BY <4>4, <4>5 DEF Jumps, Sound, FsType
            <6>2. QED
              BY <6>1, NodeKinds
          <5>5. f[i].to \o Tail(u.rest) = Append(f[i].to \o Tail(v.rest), n)
            <6>1. PICK q \in Seq(Names), r \in Seq(Names) : q = f[i].to /\ r = Tail(v.rest)
              BY <4>2, <5>4
            <6>2. q \o Append(r, n) = Append(q \o r, n)
              BY Appending
            <6>3. QED
              BY <4>2, <6>1, <6>2
          <5>6. z.ino = y.ino /\ z.rest = Append(y.rest, n)
            BY <5>2, <5>3, <5>5, StartIs
          <5>7. QED
            BY <5>6 DEF Trails
        <4>6. CASE ~Jumps(f, v, no, i)
          <5>1. y = Place(v.ino, Head(v.rest), i, Tail(v.rest))
            BY <2>2, <3>0, <3>3, <4>1, <4>6, Enter
          <5>2. y.ino = i /\ y.rest = Tail(v.rest)
            BY <5>1, PlaceIs
          <5>3. CASE i # None /\ f[i].kind = "link"
            <6>1. ~(Len(v.rest) > 1)
              BY <4>6, <5>3 DEF Jumps
            <6>2. PICK l \in Nat : l = Len(v.rest) /\ l # 0 /\ ~(l > 1)
              BY <4>2, <6>1
            <6>3. Tail(v.rest) = <<>>
              <7>0. \A h \in Nat : h # 0 /\ ~(h > 1) => h = 1
                OBVIOUS
              <7>1. Len(v.rest) = 1
                <8>1. l \in Nat /\ l # 0 /\ ~(l > 1) /\ l = Len(v.rest)
                  BY <6>2
                <8>2. l = 1
                  BY <7>0, <8>1, Zenon
                <8>3. QED
                  BY <8>1, <8>2
              <7>2. Len(Tail(v.rest)) = 0
                BY <3>0, <3>3, <7>1
              <7>3. QED
                BY <4>2, <7>2, SMTT(30)
            <6>4. Lost(f, y)
              BY <5>2, <5>3, <6>3 DEF Lost
            <6>5. QED
              BY <6>4 DEF Trails
          <5>4. CASE ~(i # None /\ f[i].kind = "link")
            <6>1. ~Jumps(f, u, no, i)
              BY <5>4 DEF Jumps
            <6>2. z = Place(u.ino, Head(u.rest), i, Tail(u.rest))
              <7>1. u.rest # <<>> /\ u.ino # None /\ f[u.ino].kind = "dir"
                BY <2>6, <3>0, <3>3
              <7>2. Along(f, u, no) = Place(u.ino, Head(u.rest), i, Tail(u.rest))
                BY <4>3, <6>1, <7>1, Enter
              <7>3. QED
                BY <2>2, <7>2
            <6>3. z.ino = i /\ z.rest = Tail(u.rest)
              BY <6>2, PlaceIs
            <6>5. z.ino = y.ino /\ z.rest = Append(y.rest, n)
              BY <4>2, <5>2, <6>3
            <6>4. QED
              BY <6>5 DEF Trails
          <5>5. QED
            BY <5>3, <5>4
        <4>7. QED
          BY <4>5, <4>6
      <3>4. QED
        BY <3>1, <3>2, <3>3
    <2>7. QED
      BY <2>2, <2>4, <2>5, <2>6 DEF Trails
  <1>5. Hops \in S
    BY <1>3, <1>4, Hopping
  <1>6. PICK v, u : v = a[Hops] /\ u = c[Hops]
    OBVIOUS
  <1>7. /\ Walk(f, x, no) = (IF v.rest = <<>> THEN v ELSE Nowhere)
        /\ Walk(f, Append(x, n), no) = (IF u.rest = <<>> THEN u ELSE Nowhere)
        /\ Trails(f, n, v, u) /\ v.rest \in Seq(Names)
    BY <1>1, <1>2, <1>5, <1>6 DEF Goes, Visit
  <1>8. v.rest = <<>> /\ Walk(f, x, no) = v /\ ~Lost(f, v)
    BY <1>7, StartIs DEF Is, Lost
  <1>9. CASE u.rest = Append(v.rest, n)
    <2>1. u.rest # <<>>
      BY <1>7, <1>9, Appending
    <2>2. QED
      BY <1>7, <2>1, StartIs
  <1>10. CASE u.rest = <<>> /\ u.ino = f[v.ino].has[n]
    BY <1>7, <1>8, <1>10
  <1>11. QED
    BY <1>7, <1>8, <1>9, <1>10 DEF Trails

\* A walk is at an inode that is used.
LEMMA VisitUsed ==
    ASSUME NEW f, Sound(f), NEW follow, NEW w, Visit(f, follow, w), w.ino # None
    PROVE  w.ino \in Inodes /\ f[w.ino].kind # "free"
  <1>1. CASE w.dir = None
    BY <1>1 DEF Visit, Sound
  <1>2. CASE w.dir # None
    <2>1. Located(f, w) /\ w.ino \in Inodes
      BY <1>2 DEF Visit
    <2>2. Entered(f, w.dir, w.name, w.ino) /\ w.dir \in Inodes /\ w.name \in Names
      BY <2>1 DEF Located, Entered
    <2>3. QED
      BY <2>1, <2>2 DEF Sound, InTree
  <1>3. QED
    BY <1>1, <1>2

\* A path that led nowhere leads to the file that has been made since, or still nowhere.
LEMMA Reaches ==
    ASSUME NEW f, Sound(f), NEW g, Sound(g), NEW w, Located(f, w), w.ino = None,
           NEW u \in Inodes, f[u].kind = "free", g[u].kind = "file",
           \A i \in Inodes \ {u} : g[i].kind = f[i].kind,
           \A i \in Inodes \ {u, w.dir} : g[i] = f[i],
           \A e \in Inodes, m \in Names, i \in Inodes :
              Entered(g, e, m, i)
                 <=> (e = w.dir /\ m = w.name /\ i = u) \/ (~(e = w.dir /\ m = w.name) /\ Entered(f, e, m, i)),
           NEW p \in Seq(Names), NEW follow, Walk(f, p, follow).ino = None
    PROVE  Walk(g, p, follow).ino \in {None, u}
  <1>1. PICK a : Goes(a, f, p, follow)
    BY WalkGoes
  <1>2. PICK c : Goes(c, g, p, follow)
    BY WalkGoes
  <1> DEFINE Matched(v, z) ==
                \/ Visit(f, follow, v) /\ z = v /\ v.ino # None
                \/ v.ino = None /\ z.ino \in {None, u}
  <1> DEFINE S == {n \in 0..Hops : Matched(a[n], c[n])}
  <1>3. 0 \in S
    <2>1. Visit(f, follow, Start(p))
      BY VisitStart
    <2>2. Start(p).ino # None
      BY StartIs, Constants
    <2>3. QED
      BY <1>1, <1>2, <2>1, <2>2 DEF Goes, Hops
  <1>4. ASSUME NEW n \in 1..Hops, n - 1 \in S PROVE n \in S
    <2>1. PICK v, z, x, y : v = a[n - 1] /\ z = c[n - 1] /\ x = a[n] /\ y = c[n]
      OBVIOUS
    <2>2. x = Along(f, v, follow) /\ y = Along(g, z, follow)
      BY <1>1, <1>2, <2>1 DEF Goes
    <2>3. Matched(v, z)
      BY <1>4, <2>1
    <2>4. Matched(x, y)
      <3>1. CASE v.ino = None /\ z.ino \in {None, u}
        <4>1. x.ino = None
          BY <2>2, <3>1, Rests, StartIs
        <4>2. CASE z.rest = <<>>
          BY <2>2, <3>1, <4>1, <4>2, Rests
        <4>3. CASE z.rest # <<>>
          <5>1. z.ino = None \/ g[z.ino].kind # "dir"
            BY <3>1
          <5>2. y = Nowhere
            BY <2>2, <4>3, <5>1, Rests
          <5>3. QED
            BY <4>1, <5>2, StartIs
        <4>4. QED
          BY <4>2, <4>3
      <3>2. CASE Visit(f, follow, v) /\ z = v /\ v.ino # None
        <4>1. v.ino \in Inodes /\ v.ino # u
          BY <3>2, VisitUsed
        <4>2. g[v.ino].kind = f[v.ino].kind
          BY <4>1
        <4>3. CASE v.rest = <<>>
          BY <2>2, <3>2, <4>3, Rests
        <4>4. CASE v.rest # <<>> /\ f[v.ino].kind # "dir"
          <5>1. x = Nowhere /\ y = Nowhere
            BY <2>2, <3>2, <4>2, <4>4, Rests
          <5>2. QED
            BY <5>1, StartIs
        <4>5. CASE v.rest # <<>> /\ f[v.ino].kind = "dir"
          <5>1. PICK m, i, e : m = Head(v.rest) /\ i = f[v.ino].has[m] /\ e = g[v.ino].has[m]
            OBVIOUS
          <5>2. m \in Names /\ i \in Inodes \union {None} /\ e \in Inodes \union {None}
            <6>1. v.rest \in Seq(Names)
              BY <3>2 DEF Visit
            <6>2. m \in Names
              BY <4>5, <5>1, <6>1
            <6>3. IsNode(f[v.ino]) /\ IsNode(g[v.ino])
              BY <4>1 DEF Sound, FsType
            <6>4. QED
              BY <4>2, <4>5, <5>1, <6>2, <6>3, NodeKinds
          <5>3. /\ \A k \in Inodes : Entered(f, v.ino, m, k) <=> i = k
                /\ \A k \in Inodes : Entered(g, v.ino, m, k) <=> e = k
            BY <3>2, <4>2, <4>5, <5>1 DEF Entered, Is
          <5>4. CASE v.ino = w.dir /\ m = w.name
            <6>1. i = None /\ e = u
              <7>1. i = None
                BY <5>1, <5>4 DEF Located
              <7>2. Entered(g, v.ino, m, u)
                BY <4>1, <5>2, <5>4
              <7>3. QED
                BY <5>3, <7>1, <7>2
            <6>2. ~Jumps(f, v, follow, i) /\ ~Jumps(g, v, follow, e)
              BY <6>1 DEF Jumps
            <6>3. x = Place(v.ino, m, i, Tail(v.rest))
              BY <2>2, <3>2, <4>5, <5>1, <6>2, Enter
            <6>4. y = Place(v.ino, m, e, Tail(v.rest))
              <7>1. v.rest # <<>> /\ v.ino # None /\ g[v.ino].kind = "dir" /\ e = g[v.ino].has[Head(v.rest)]
                BY <3>2, <4>2, <4>5, <5>1
              <7>2. Along(g, v, follow) = Place(v.ino, Head(v.rest), e, Tail(v.rest))
                BY <6>2, <7>1, Enter
              <7>3. QED
                BY <2>2, <3>2, <5>1, <7>2
            <6>5. QED
              BY <6>1, <6>3, <6>4, PlaceIs
          <5>5. CASE ~(v.ino = w.dir /\ m = w.name)
            <6>1. \A k \in Inodes : Entered(g, v.ino, m, k) <=> Entered(f, v.ino, m, k)
              BY <4>1, <5>2, <5>5
            <6>2. e = i
              BY <5>2, <5>3, <6>1
            <6>3. i # None => i \in Inodes /\ i # u
              <7>1. i # None => i \in Inodes /\ Entered(f, v.ino, m, i)
                BY <5>2, <5>3
              <7>2. QED
                BY <4>1, <5>2, <7>1 DEF Sound, InTree
            <6>4. i # None => g[i].kind = f[i].kind
              BY <6>3
            <6>5. Jumps(g, v, follow, e) <=> Jumps(f, v, follow, i)
              BY <6>2, <6>4 DEF Jumps
            <6>6. x = y /\ (x.ino # None => Visit(f, follow, x))
              <7>1. Visit(f, follow, x)
                BY <2>2, <3>2, VisitAlong
              <7>2. v.rest # <<>> /\ v.ino # None /\ g[v.ino].kind = "dir" /\ e = g[v.ino].has[Head(v.rest)]
                BY <3>2, <4>2, <4>5, <5>1
              <7>3. CASE Jumps(f, v, follow, i)
                <8>1. x = Start(f[i].to \o Tail(v.rest))
                  BY <2>2, <3>2, <4>5, <5>1, <7>3, Jump
                <8>2. Along(g, v, follow) = Start(g[e].to \o Tail(v.rest))
                  BY <6>5, <7>2, <7>3, Jump
                <8>3. g[e] = f[i]
                  <9>1. i # None /\ f[i].kind = "link"
                    BY <7>3 DEF Jumps
                  <9>2. i \in Inodes /\ i # u /\ i # w.dir
                    BY <6>3, <9>1 DEF Located, Is
                  <9>3. QED
                    BY <6>2, <9>2
                <8>4. QED
                  BY <2>2, <3>2, <7>1, <8>1, <8>2, <8>3
              <7>4. CASE ~Jumps(f, v, follow, i)
                <8>1. x = Place(v.ino, m, i, Tail(v.rest))
                  BY <2>2, <3>2, <4>5, <5>1, <7>4, Enter
                <8>2. Along(g, v, follow) = Place(v.ino, Head(v.rest), e, Tail(v.rest))
                  BY <6>5, <7>2, <7>4, Enter
                <8>3. QED
                  BY <2>2, <3>2, <5>1, <6>2, <7>1, <8>1, <8>2
              <7>5. QED
                BY <7>3, <7>4
            <6>7. QED
              BY <6>6
          <5>6. QED
            BY <5>4, <5>5
        <4>6. QED
          BY <4>3, <4>4, <4>5
      <3>3. QED
        BY <2>3, <3>1, <3>2
    <2>5. QED
      BY <2>1, <2>4 DEF Hops
  <1>5. Hops \in S
    <2> HIDE DEF S
    <2>1. QED
      BY <1>3, <1>4, Hopping
  <1>6. PICK v, z : v = a[Hops] /\ z = c[Hops]
    OBVIOUS
  <1>7. /\ Walk(f, p, follow) = IF v.rest = <<>> THEN v ELSE Nowhere
        /\ Walk(g, p, follow) = IF z.rest = <<>> THEN z ELSE Nowhere
    BY <1>1, <1>2, <1>6 DEF Goes
  <1>8. Matched(v, z)
    BY <1>5, <1>6
  <1>9. QED
    BY <1>7, <1>8, StartIs

-----------------------------------------------------------------------------
(* A call of one request, and what it means for the others.                *)

\* The same request, some steps later.
Follows(k, j) ==
    /\ k.op = j.op /\ k.p = j.p /\ k.q = j.q /\ k.before = j.before /\ k.spoilt = j.spoilt
    /\ j.in # None => k.in = j.in
    /\ j.out # None => k.out = j.out

\* What a request is meant to change does not depend on how far it has come.
LEMMA SameNamed ==
    ASSUME NEW j, NEW k, Follows(k, j)
    PROVE  /\ Named(k) = Named(j)
           /\ \A i : Meant(k, i) <=> Meant(j, i)
           /\ \A x : Doomed(k, x) <=> Doomed(j, x)
           /\ \A f : Others(k, f) <=> Others(j, f)
  <1>1. k.op = j.op /\ k.p = j.p /\ k.q = j.q /\ k.before = j.before
    BY DEF Follows
  <1>2. Named(k) = Named(j)
    BY <1>1 DEF Named
  <1>3. \A i : Meant(k, i) <=> Meant(j, i)
    BY <1>1, <1>2 DEF Meant
  <1>4. \A x : Doomed(k, x) <=> Doomed(j, x)
    BY <1>1 DEF Doomed
  <1>5. ASSUME NEW f PROVE Others(k, f) <=> Others(j, f)
    BY <1>1, <1>3 DEF Others
  <1>6. QED
    BY <1>2, <1>3, <1>4, <1>5

\* An answer changes nothing of what the request knows.
LEMMA Answering ==
    ASSUME NEW f, NEW j, JobType(j, f), NEW ok
    PROVE  /\ Return(j, ok).pc = "done" /\ Follows(Return(j, ok), j)
           /\ ok => Return(j, ok).answer = "ACTION_COMPLETED"
           /\ ~ok => Return(j, ok).answer = "ERROR_OCCURED"
           /\ Return(j, ok).at = j.at /\ Return(j, ok).got = j.got /\ Return(j, ok).sum = j.sum
           /\ Return(j, ok).in = j.in /\ Return(j, ok).missed = j.missed
  <1>1. PICK a : /\ a = IF ok THEN "ACTION_COMPLETED" ELSE "ERROR_OCCURED"
                 /\ ok => a = "ACTION_COMPLETED"
                 /\ ~ok => a = "ERROR_OCCURED"
    OBVIOUS
  <1>2. PICK k : k = [j EXCEPT !.pc = "done", !.answer = a] /\ k = Return(j, ok)
    BY <1>1 DEF Return
  <1>3. /\ k.pc = "done" /\ k.answer = a /\ k.at = j.at /\ k.got = j.got /\ k.sum = j.sum
        /\ k.in = j.in /\ k.missed = j.missed /\ Follows(k, j)
    BY <1>2, JobFields DEF JobType, Follows
  <1>4. QED
    BY <1>1, <1>2, <1>3

\* Nor does going on to another step.
LEMMA Going ==
    ASSUME NEW f, NEW j, JobType(j, f), NEW pc
    PROVE  /\ Goto(j, pc).pc = pc /\ Follows(Goto(j, pc), j) /\ Goto(j, pc).out = j.out
           /\ Goto(j, pc).at = j.at /\ Goto(j, pc).got = j.got /\ Goto(j, pc).todo = j.todo
           /\ Goto(j, pc).missed = j.missed
  BY JobFields DEF JobType, Goto, Follows

\* Nor does noting what is not looked at.
LEMMA Overlooking ==
    ASSUME NEW f, NEW j, JobType(j, f), NEW x \in BOOLEAN, NEW k, k = Miss(j, x)
    PROVE  /\ JobType(k, f) /\ Follows(k, j) /\ (k.missed <=> j.missed \/ x) /\ k.pc = j.pc
           /\ k.p = j.p /\ k.at = j.at /\ k.got = j.got /\ k.sum = j.sum /\ k.todo = j.todo /\ k.in = j.in
           /\ k.before = j.before
           /\ \A l : Follows(l, k) => Follows(l, j)
  <1>1. /\ JobType(k, f) /\ (k.missed <=> j.missed \/ x)
        /\ k.op = j.op /\ k.pc = j.pc /\ k.p = j.p /\ k.q = j.q /\ k.at = j.at /\ k.in = j.in
        /\ k.out = j.out /\ k.todo = j.todo /\ k.got = j.got /\ k.sum = j.sum
        /\ k.before = j.before /\ k.spoilt = j.spoilt
    BY Missing
  <1>2. QED
    BY <1>1 DEF Follows

\* What a call of one request leaves of the files, and what it means for the others.
LEMMA CallLeaves ==
    ASSUME OpsInv, AloneInv, NEW s \in Slots, NEW j, NEW f, NEW m, CallOn(s, j, f, m), Sound(f)
    PROVE  /\ job'[s] = j /\ fs' = [i \in Inodes |-> fs'[i]]
           /\ \A i \in Inodes : fs'[i] = f[i] \/ fs'[i] = Free
           /\ \A i \in Inodes : i = Root \/ InTree(f, i) => fs'[i] = f[i]
           /\ \A i \in Inodes : /\ fs[i].kind # "free" /\ (InTree(fs, i) => InTree(f, i))
                                /\ i \in {job[s].in, job[s].out} => i \in {j.in, j.out}
                                => fs'[i] = f[i]
           /\ Near(j, fs') /\ Right(j, fs') /\ (j.pc = "free" => j.before = None) => AloneInv'
  <1> DEFINE jobs == [job EXCEPT ![s] = j]
  <1>0. DOMAIN job = Slots /\ \A t \in Slots : JobType(job[t], fs)
    BY DEF OpsInv
  <1>1. PICK after \in {Kept(f, jobs)} :
                     /\ fs' = after /\ mem' = [mem EXCEPT ![s] = m]
                     /\ job' = [t \in Slots |->
                           IF t = s THEN j
                           ELSE IF after = fs \/ job[t].pc = "free" THEN job[t]
                           ELSE [job[t] EXCEPT !.before = None,
                                    !.spoilt = @ \/ \E i \in {job[t].in, job[t].out} \ {None} : after[i] # fs[i]]]
                     /\ asked' = asked
    BY Zenon DEF CallOn
  <1>2. /\ after = [i \in Inodes |-> after[i]]
        /\ \A i \in Inodes : after[i] = IF i = Root \/ i \in Linked(f) \/ i \in Opened(jobs) THEN f[i] ELSE Free
    BY <1>1 DEF Kept
  <1>3. \A i \in Inodes : i \in Linked(f) <=> InTree(f, i)
    BY LinkedTree DEF Sound
  <1>4. job'[s] = j /\ fs' = after
    BY <1>1
  <1>5. ASSUME NEW i \in Inodes, fs[i].kind # "free", InTree(fs, i) => InTree(f, i),
               i \in {job[s].in, job[s].out} => i \in {j.in, j.out}
        PROVE  after[i] = f[i]
    <2>1. CASE i = Root \/ InTree(f, i)
      BY <1>2, <1>3, <2>1
    <2>2. CASE i # Root /\ ~InTree(f, i)
      <3>1. i \in Opened(job)
        BY <1>5, <2>2 DEF OpsInv
      <3>2. PICK t \in Slots : i \in {job[t].in, job[t].out}
        BY <3>1 DEF Opened
      <3>3. i \in {jobs[t].in, jobs[t].out}
        <4>1. CASE t = s
          BY <1>0, <1>5, <3>2, <4>1
        <4>2. CASE t # s
          BY <1>0, <3>2, <4>2
        <4>3. QED
          BY <4>1, <4>2
      <3>4. i \in Opened(jobs)
        BY <3>3 DEF Opened
      <3>5. QED
        BY <1>2, <3>4
    <2>3. QED
      BY <2>1, <2>2
  <1>6. ASSUME NEW t \in Slots, t # s
        PROVE  Near(job'[t], fs') /\ Right(job'[t], fs') /\ (job'[t].pc = "free" => job'[t].before = None)
    <2>1. Near(job[t], fs) /\ Right(job[t], fs) /\ (job[t].pc = "free" => job[t].before = None)
      BY DEF AloneInv
    <2>2. DOMAIN job[t] = DOMAIN NoJob
      BY <1>0 DEF JobType
    <2>3. CASE job[t].pc = "free"
      <3>1. job'[t] = job[t]
        BY <1>1, <1>6, <2>3
      <3>2. job'[t].before = None
        BY <2>1, <2>3, <3>1
      <3>3. QED
        BY <3>2 DEF Near, Right
    <2>4. CASE job[t].pc # "free" /\ after = fs
      <3>1. job'[t] = job[t]
        BY <1>1, <1>6, <2>4
      <3>2. QED
        BY <1>4, <2>1, <2>4, <3>1
    <2>5. CASE job[t].pc # "free" /\ after # fs
      <3>1. PICK x : x = (job[t].spoilt \/ \E i \in {job[t].in, job[t].out} \ {None} : after[i] # fs[i])
        OBVIOUS
      <3>2. job'[t] = [job[t] EXCEPT !.before = None, !.spoilt = x]
        BY <1>1, <1>6, <2>5, <3>1
      <3>3. job'[t].before = None
        BY <2>2, <3>2, JobFields
      <3>4. QED
        BY <3>3 DEF Near, Right
    <2>6. QED
      BY <2>3, <2>4, <2>5
  <1>7. ASSUME Near(j, fs'), Right(j, fs'), j.pc = "free" => j.before = None
        PROVE  AloneInv'
    <2>1. \A t \in Slots : Near(job'[t], fs') /\ Right(job'[t], fs') /\ (job'[t].pc = "free" => job'[t].before = None)
      BY <1>4, <1>6, <1>7
    <2>2. QED
      BY <2>1 DEF AloneInv, Slots
  <1>8. QED
    <2>1. \A i \in Inodes : after[i] = f[i] \/ after[i] = Free
      BY <1>2
    <2>2. \A i \in Inodes : i = Root \/ InTree(f, i) => after[i] = f[i]
      BY <1>2, <1>3
    <2>3. QED
      BY <1>2, <1>4, <1>5, <1>7, <2>1, <2>2

\* A call that changes no file.
LEMMA NearLocal ==
    ASSUME OpsInv, AloneInv, NEW s \in Slots, NEW j, NEW m, CallOn(s, j, fs, m), Follows(j, job[s]),
           Near(j, fs), Right(j, fs), j.pc # "free"
    PROVE  AloneInv'
  <1>1. Sound(fs)
    BY DEF OpsInv
  <1>2. /\ fs' = [i \in Inodes |-> fs'[i]]
        /\ \A i \in Inodes : fs'[i] = fs[i] \/ fs'[i] = Free
        /\ \A i \in Inodes : /\ fs[i].kind # "free"
                             /\ i \in {job[s].in, job[s].out} => i \in {j.in, j.out}
                             => fs'[i] = fs[i]
        /\ Near(j, fs') /\ Right(j, fs') /\ (j.pc = "free" => j.before = None) => AloneInv'
    BY <1>1, CallLeaves
  <1>3. ASSUME NEW i \in Inodes PROVE fs'[i] = fs[i]
    <2>1. CASE fs[i].kind # "free"
      BY <1>2, <2>1, Constants DEF Follows
    <2>2. CASE fs[i].kind = "free"
      <3>1. fs[i] = Free
        BY <1>1, <2>2, NodeKinds DEF Sound, FsType
      <3>2. QED
        BY <1>2, <3>1
    <2>3. QED
      BY <2>1, <2>2
  <1>4. fs' = fs
    BY <1>1, <1>2, <1>3 DEF Sound, FsType
  <1>5. QED
    BY <1>2, <1>4

\* The request goes on, and nothing that is said of it says more than before.
LEMMA NearSame ==
    ASSUME NEW f, NEW i, Near(i, f), NEW j, Follows(j, i),
           \/ j.pc = "done"
           \/ i.pc \notin Changed /\ j.pc \notin Changed
           \/ i.pc = "fstat" /\ j.pc = "sendfile" /\ j.in = i.in /\ j.out = i.out
    PROVE  Near(j, f)
  <1>1. /\ Named(j) = Named(i) /\ (Others(j, f) <=> Others(i, f)) /\ j.before = i.before
        /\ j.spoilt = i.spoilt /\ j.op = i.op /\ j.p = i.p /\ j.q = i.q
    BY SameNamed DEF Follows
  <1>2. j.in = i.in /\ j.out = i.out => (Copying(j, f) <=> Copying(i, f))
    BY <1>1 DEF Copying, Target
  <1>3. QED
    BY <1>1, <1>2 DEF Near, Changed

\* A call that changes files that the request is meant to change.
LEMMA NearChanged ==
    ASSUME OpsInv, AloneInv, NEW s \in Slots, NEW j, NEW f, NEW m, CallOn(s, j, f, m), Sound(f),
           Follows(j, job[s]), j.pc \in Changed, Right(j, fs'),
           \A i \in Inodes :
              /\ job[s].before # None /\ fs[i].kind = "file" /\ job[s].before[i] = fs[i]
              /\ f[i] # fs[i] \/ (InTree(fs, i) /\ ~InTree(f, i))
              => Meant(job[s], i),
           j.before # None => /\ j.pc = "tree" => /\ Shrunk(fs', j.before)
                                                  /\ \A k \in DOMAIN j.todo : Doomed(j, j.todo[k].path)
                              /\ j.pc \in {"fstat", "sendfile", "cpwrite"} =>
                                    /\ j.out # None /\ j.before[j.out].kind = "file" => j.out \in Named(j)
                                    /\ Copying(j, fs')
    PROVE  AloneInv'
  <1>1. Near(job[s], fs)
    BY DEF AloneInv
  <1>2. /\ \A i \in Inodes : /\ fs[i].kind # "free" /\ (InTree(fs, i) => InTree(f, i))
                             /\ i \in {job[s].in, job[s].out} => i \in {j.in, j.out}
                             => fs'[i] = f[i]
        /\ Near(j, fs') /\ Right(j, fs') /\ (j.pc = "free" => j.before = None) => AloneInv'
    BY CallLeaves
  <1>3. j.before = job[s].before /\ j.spoilt = job[s].spoilt /\ \A i : Meant(j, i) <=> Meant(job[s], i)
    BY SameNamed DEF Follows
  <1>4. ASSUME j.before # None, NEW i \in Inodes, j.before[i].kind = "file", fs'[i] # j.before[i]
        PROVE  Meant(j, i)
    <2>1. CASE fs[i] # j.before[i]
      BY <1>1, <1>3, <1>4, <2>1 DEF Near, Others
    <2>2. CASE fs[i] = j.before[i]
      <3>1. fs[i].kind = "file" /\ fs'[i] # fs[i]
        BY <1>4, <2>2
      <3>2. i \in {job[s].in, job[s].out} => i \in {j.in, j.out}
        BY Constants DEF Follows
      <3>3. (InTree(fs, i) => InTree(f, i)) => fs'[i] = f[i]
        BY <1>2, <3>1, <3>2
      <3>4. f[i] # fs[i] \/ (InTree(fs, i) /\ ~InTree(f, i))
        BY <3>1, <3>3
      <3>5. QED
        BY <1>3, <1>4, <2>2, <3>1, <3>4
    <2>3. QED
      BY <2>1, <2>2
  <1>5. j.before # None => Others(j, fs') /\ Sound(j.before) /\ ~j.spoilt
    BY <1>1, <1>3, <1>4 DEF Others, Near
  <1>6. Near(j, fs')
    BY <1>5 DEF Near
  <1>7. QED
    BY <1>2, <1>6 DEF Changed

\* A call that changes no file, and after which nothing more is said.
LEMMA NearStep ==
    ASSUME OpsInv, AloneInv, NEW s \in Slots, NEW j, NEW m, CallOn(s, j, fs, m), Follows(j, job[s]),
           j.pc # "free", Right(j, fs),
           \/ j.pc = "done"
           \/ job[s].pc \notin Changed /\ j.pc \notin Changed
           \/ job[s].pc = "fstat" /\ j.pc = "sendfile" /\ j.in = job[s].in /\ j.out = job[s].out
    PROVE  AloneInv'
  <1>1. Near(job[s], fs)
    BY DEF AloneInv
  <1>2. Near(j, fs)
    BY <1>1, NearSame
  <1>3. QED
    BY <1>2, NearLocal

\* What is known of a request before one of its steps.
LEMMA AtStep ==
    ASSUME OpsInv, AloneInv, NEW s \in Slots
    PROVE  /\ JobType(job[s], fs) /\ Near(job[s], fs) /\ Right(job[s], fs) /\ Sound(fs)
           /\ mem[s] \in [1..Cells -> Chars]
           /\ job[s].before # None /\ job[s].pc \notin Changed => fs = job[s].before
  BY Slot DEF AloneInv, Near

\* An error is true if the files are as they were.
LEMMA FailureRight ==
    ASSUME NEW f, NEW j, JobType(j, f), NEW ok, ~ok, NEW g,
           j.before # None => g = j.before \/ j.op \in {"copy", "cptree", "rmtree"}
    PROVE  Right(Return(j, ok), g)
  <1>1. PICK k : k = Return(j, ok)
    OBVIOUS
  <1>2. k.pc = "done" /\ Follows(k, j) /\ k.answer = "ERROR_OCCURED"
    BY <1>1, Answering
  <1>3. k.before # None => Knows(k) /\ Truthful(k, g)
    BY <1>2 DEF Knows, Truthful, Completed, Noticed, Failed, Follows
  <1>4. QED
    BY <1>1, <1>3 DEF Right

\* A request in a step that has found out nothing yet.
LEMMA Unknowing ==
    ASSUME NEW j, NEW f, j.pc \in {"mkdir", "access"}
    PROVE  Right(j, f)
  BY DEF Right, Knows

-----------------------------------------------------------------------------
(* The steps that change no file.                                          *)

LEMMA MkdirStatAlone == ASSUME OpsInv, AloneInv, NEW s \in Slots, MkdirStat(s) PROVE AloneInv'
  <1>1. PICK j : j = job[s]
    OBVIOUS
  <1>2. /\ JobType(j, fs) /\ j.pc = "exists" /\ j.op = "mkdir"
        /\ j.before # None => fs = j.before
    BY <1>1, AtStep DEF MkdirStat, At, JobType, Stage, Changed
  <1>3. CASE Walk(fs, j.p, TRUE).ino # None
    <2>1. PICK k : k = Return(j, TRUE) /\ CallOn(s, k, fs, mem[s])
      BY <1>1, <1>3 DEF MkdirStat, Call
    <2>2. k.pc = "done" /\ Follows(k, j) /\ k.answer = "ACTION_COMPLETED"
      BY <1>2, <2>1, Answering
    <2>3. k.op = "mkdir" /\ k.p = j.p /\ k.before = j.before
      BY <1>2, <2>2 DEF Follows
    <2>4. Right(k, fs)
      BY <1>2, <1>3, <2>2, <2>3 DEF Right, Knows, Truthful, Completed, Noticed, Failed, IsFileExists
    <2>5. QED
      BY <1>1, <2>1, <2>2, <2>4, NearStep
  <1>4. CASE Walk(fs, j.p, TRUE).ino = None
    <2>1. PICK k : k = Goto(j, "mkdir") /\ CallOn(s, k, fs, mem[s])
      BY <1>1, <1>4 DEF MkdirStat, Call
    <2>2. k.pc = "mkdir" /\ Follows(k, j)
      BY <1>2, <2>1, Going
    <2>3. Right(k, fs)
      BY <2>2, Unknowing
    <2>4. QED
      BY <1>1, <1>2, <2>1, <2>2, <2>3, NearStep DEF Changed
  <1>5. QED
    BY <1>3, <1>4

LEMMA CopySourceAlone == ASSUME OpsInv, AloneInv, NEW s \in Slots, CopySource(s) PROVE AloneInv'
  <1>1. PICK j : j = job[s]
    OBVIOUS
  <1>2. JobType(j, fs) /\ j.pc = "source" /\ j.in = None /\ (j.before # None => fs = j.before)
    BY <1>1, AtStep DEF CopySource, At, JobType, Changed
  <1>3. PICK i \in {Walk(fs, j.p, TRUE).ino, None} : CallOn(s, [j EXCEPT !.pc = "target", !.in = i], fs, mem[s])
    BY <1>1, Zenon DEF CopySource, Call
  <1>4. PICK k : k = [j EXCEPT !.pc = "target", !.in = i] /\ CallOn(s, k, fs, mem[s])
    BY <1>3
  <1>5. k.pc = "target" /\ Follows(k, j) /\ k.in = i /\ k.p = j.p /\ k.before = j.before
    BY <1>2, <1>4, JobFields DEF JobType, Follows
  <1>6. Right(k, fs)
    BY <1>2, <1>3, <1>5 DEF Right, Knows
  <1>7. QED
    BY <1>1, <1>2, <1>4, <1>5, <1>6, NearStep DEF Changed

LEMMA CopyStatAlone == ASSUME OpsInv, AloneInv, NEW s \in Slots, CopyStat(s) PROVE AloneInv'
  <1>1. PICK j, i : j = job[s] /\ i = j.in
    OBVIOUS
  <1>2. JobType(j, fs) /\ j.pc = "fstat" /\ Right(j, fs)
    BY <1>1, AtStep DEF CopyStat, At
  <1>3. PICK size \in IF i = None THEN {-1, 1} ELSE IF Is(fs, i, "file") THEN {Len(fs[i].data)} ELSE {1} :
           CallOn(s, [j EXCEPT !.pc = "sendfile", !.size = size], fs, mem[s])
    BY <1>1 DEF CopyStat, Call
  <1>4. PICK k : k = [j EXCEPT !.pc = "sendfile", !.size = size] /\ CallOn(s, k, fs, mem[s])
    BY <1>3
  <1>5. /\ k.pc = "sendfile" /\ k.in = j.in /\ k.out = j.out /\ Follows(k, j)
        /\ k.p = j.p /\ k.before = j.before
    BY <1>2, <1>4, JobFields DEF JobType, Follows
  <1>6. Right(k, fs)
    BY <1>2, <1>5 DEF Right, Knows
  <1>7. QED
    BY <1>1, <1>2, <1>4, <1>5, <1>6, NearStep

LEMMA StatAccessAlone == ASSUME OpsInv, AloneInv, NEW s \in Slots, StatAccess(s) PROVE AloneInv'
  <1>1. PICK j, i : j = job[s] /\ i = Walk(fs, j.p, TRUE).ino
    OBVIOUS
  <1>2. /\ JobType(j, fs) /\ j.pc = "access" /\ j.op = "stat"
        /\ j.before # None => fs = j.before
    BY <1>1, AtStep DEF StatAccess, At, JobType, Stage, Changed
  <1>3. CASE i # None
    <2>1. PICK k : k = Goto(j, "isdir") /\ CallOn(s, k, fs, mem[s])
      BY <1>1, <1>3 DEF StatAccess, Call, IsFileExists
    <2>2. k.pc = "isdir" /\ Follows(k, j)
      BY <1>2, <2>1, Going
    <2>3. k.p = j.p /\ (k.before # None => k.before = fs)
      BY <1>2, <2>2 DEF Follows
    <2>4. Right(k, fs)
      BY <1>1, <1>3, <2>2, <2>3 DEF Right, Knows
    <2>5. QED
      BY <1>1, <1>2, <2>1, <2>2, <2>4, NearStep DEF Changed
  <1>4. CASE i = None
    <2>1. PICK k : k = Return(j, FALSE) /\ CallOn(s, k, fs, mem[s])
      BY <1>1, <1>4 DEF StatAccess, Call, IsFileExists
    <2>2. k.pc = "done" /\ Follows(k, j) /\ Right(k, fs)
      BY <1>2, <2>1, Answering, FailureRight
    <2>3. QED
      BY <1>1, <2>1, <2>2, NearStep
  <1>5. QED
    BY <1>3, <1>4

\* The answer to a request is noted beside it.
Note(j, x) == [Return(j, TRUE) EXCEPT !.got = x]

LEMMA Noting ==
    ASSUME NEW f, NEW j, JobType(j, f), NEW k, NEW x, k = Note(j, x)
    PROVE  /\ k.pc = "done" /\ Follows(k, j) /\ k.answer = "ACTION_COMPLETED" /\ k.got = x
           /\ k.missed = j.missed
  <1>1. PICK k2 : k2 = [j EXCEPT !.pc = "done", !.answer = "ACTION_COMPLETED"] /\ k2 = Return(j, TRUE)
    BY DEF Return
  <1>2. /\ k2.pc = "done" /\ k2.answer = "ACTION_COMPLETED" /\ DOMAIN k2 = DOMAIN NoJob
        /\ Follows(k2, j) /\ k2.missed = j.missed
    BY <1>1, JobFields DEF JobType, Follows
  <1>3. k = [k2 EXCEPT !.got = x]
    BY <1>1 DEF Note
  <1>4. /\ k.pc = k2.pc /\ k.answer = k2.answer /\ k.got = x
        /\ k.op = k2.op /\ k.p = k2.p /\ k.q = k2.q /\ k.before = k2.before /\ k.in = k2.in /\ k.out = k2.out
        /\ k.spoilt = k2.spoilt /\ k.missed = k2.missed
    BY <1>2, <1>3, JobFields
  <1>5. QED
    BY <1>2, <1>4 DEF Follows

LEMMA StatIsDirAlone == ASSUME OpsInv, AloneInv, NEW s \in Slots, StatIsDir(s) PROVE AloneInv'
  <1>1. PICK j, i, dir : j = job[s] /\ i = Walk(fs, j.p, TRUE).ino /\ dir \in BOOLEAN /\ dir = Is(fs, i, "dir")
    BY DEF Is
  <1>2. /\ JobType(j, fs) /\ j.pc = "isdir" /\ j.op = "stat" /\ j.p \in Seq(Names) /\ Sound(fs)
        /\ j.before # None => fs = j.before
        /\ Right(j, fs)
    BY <1>1, AtStep DEF StatIsDir, At, JobType, Stage, Changed
  <1>5. PICK seen \in {dir, FALSE} :
           CallOn(s, IF seen THEN [Return(j, TRUE) EXCEPT !.got = {Entry(None, TRUE, 0)}]
                     ELSE Goto(Miss(j, dir), "size"), fs, mem[s])
    BY <1>1, Zenon DEF StatIsDir, Call, IsDirectory
  <1>3. CASE seen
    <2>0. Is(fs, i, "dir")
      BY <1>1, <1>3, <1>5
    <2>1. PICK x : x = {Entry(None, TRUE, 0)}
      OBVIOUS
    <2>a. PICK k : k = [Return(j, TRUE) EXCEPT !.got = {Entry(None, TRUE, 0)}]
      OBVIOUS
    <2>b. k = Note(j, x)
      BY <2>1, <2>a DEF Note
    <2>c. CallOn(s, k, fs, mem[s])
      BY <1>3, <1>5, <2>a
    <2>2. k = Note(j, x) /\ CallOn(s, k, fs, mem[s])
      BY <2>b, <2>c
    <2>3. k.pc = "done" /\ Follows(k, j) /\ k.answer = "ACTION_COMPLETED" /\ k.got = x
      BY <1>2, <2>2, Noting
    <2>4. k.op = "stat" /\ k.p = j.p
      BY <1>2, <2>3 DEF Follows
    <2>5. Right(k, fs)
      BY <1>1, <2>0, <2>1, <2>3, <2>4 DEF Right, Knows, Truthful, Completed, Noticed, Failed
    <2>6. QED
      BY <1>1, <2>2, <2>3, <2>5, NearStep
  <1>4. CASE ~seen
    <2>0. PICK l : l = Miss(j, dir)
      OBVIOUS
    <2>1. PICK k : k = Goto(l, "size") /\ CallOn(s, k, fs, mem[s])
      BY <1>4, <1>5, <2>0
    <2>a. /\ JobType(l, fs) /\ (l.missed <=> j.missed \/ dir) /\ l.p = j.p /\ l.before = j.before
          /\ \A a : Follows(a, l) => Follows(a, j)
      <3>1. dir \in BOOLEAN
        BY <1>1
      <3>2. QED
        BY <1>2, <2>0, <3>1, Overlooking
    <2>2. k.pc = "size" /\ Follows(k, j) /\ k.missed = l.missed
      BY <2>a, <2>1, Going
    <2>3. k.p = j.p /\ k.before = j.before
      BY <2>2 DEF Follows
    <2>4. j.before # None /\ ~k.missed => Is(fs, i, "file")
      <3>1. /\ i \in Inodes \union {None}
            /\ i # None => fs[i].kind # "free" /\ fs[i].kind # "link"
        BY <1>1, <1>2, Found
      <3>2. i # None => fs[i].kind \in {"free", "file", "dir", "link"}
        BY <1>2, <3>1, NodeKinds DEF Sound, FsType
      <3>3. j.before # None => i # None
        BY <1>1, <1>2 DEF Right, Knows
      <3>4. ~k.missed => ~Is(fs, i, "dir")
        BY <1>1, <2>a, <2>2
      <3>5. QED
        BY <3>1, <3>2, <3>3, <3>4 DEF Is
    <2>5. Right(k, fs)
      BY <1>1, <1>2, <2>2, <2>3, <2>4 DEF Right, Knows
    <2>6. QED
      BY <1>1, <1>2, <2>1, <2>2, <2>5, NearStep DEF Changed
  <1>6. QED
    BY <1>3, <1>4

LEMMA StatSizeAlone == ASSUME OpsInv, AloneInv, NEW s \in Slots, StatSize(s) PROVE AloneInv'
  <1>1. PICK j, i : j = job[s] /\ i = Walk(fs, j.p, TRUE).ino
    OBVIOUS
  <1>2. /\ JobType(j, fs) /\ j.pc = "size" /\ j.op = "stat"
        /\ j.before # None => fs = j.before
        /\ Right(j, fs)
    BY <1>1, AtStep DEF StatSize, At, JobType, Stage, Changed
  <1>a. PICK x : x = {Entry(None, FALSE, SizeOf(fs, j.p))}
    OBVIOUS
  <1>b. PICK k : k = [Return(j, TRUE) EXCEPT !.got = x] /\ k = Note(j, x)
    BY DEF Note
  <1>c. CallOn(s, k, fs, mem[s])
    BY <1>1, <1>a, <1>b DEF StatSize, Call
  <1>3. /\ x = {Entry(None, FALSE, SizeOf(fs, j.p))}
        /\ k = Note(j, x) /\ CallOn(s, k, fs, mem[s])
    BY <1>a, <1>b, <1>c
  <1>d. JobType(j, fs) /\ k = Note(j, x)
    BY <1>2, <1>3
  <1>4. k.pc = "done" /\ Follows(k, j) /\ k.answer = "ACTION_COMPLETED" /\ k.got = x /\ k.missed = j.missed
    BY <1>d, Noting
  <1>5. k.op = "stat" /\ k.p = j.p /\ k.before = j.before
    BY <1>2, <1>4 DEF Follows
  <1>6. j.before # None /\ ~j.missed => Is(fs, i, "file")
    BY <1>1, <1>2 DEF Right, Knows
  <1>7. Is(fs, i, "file") => SizeOf(fs, j.p) = Len(Data(fs, j.p)) /\ ~Is(fs, i, "dir")
    BY <1>1 DEF SizeOf, Data, Is
  <1>8. Right(k, fs)
    BY <1>1, <1>3, <1>4, <1>5, <1>6, <1>7 DEF Right, Knows, Truthful, Completed, Noticed, Failed
  <1>9. QED
    BY <1>1, <1>3, <1>4, <1>8, NearStep

\* A walk that has come to an end stays there.
LEMMA Arrived ==
    ASSUME NEW f, NEW p, NEW follow, NEW g, Goes(g, f, p, follow), NEW m \in 0..Hops, g[m].rest = <<>>
    PROVE  g[Hops] = g[m]
  <1> DEFINE S == {n \in 0..Hops : n >= m => g[n] = g[m]}
  <1>1. 0 \in S
    BY DEF Hops
  <1>2. ASSUME NEW n \in 1..Hops, n - 1 \in S PROVE n \in S
    <2>1. CASE n <= m
      BY <2>1 DEF Hops
    <2>2. CASE n > m
      <3>1. n - 1 >= m
        BY <2>2 DEF Hops
      <3>2. g[n - 1] = g[m]
        BY <1>2, <3>1
      <3>3. g[n] = Along(f, g[m], follow)
        BY <3>2 DEF Goes
      <3>4. g[n] = g[m]
        BY <3>3, Rests
      <3>5. QED
        BY <3>4 DEF Hops
    <2>3. QED
      BY <2>1, <2>2 DEF Hops
  <1>3. Hops \in S
    <2> HIDE DEF S
    <2>1. QED
      BY <1>1, <1>2, Hopping
  <1>4. QED
    BY <1>3 DEF Hops

\* A walk that follows links, and one that does not follow the last, along the same path: they
\* are at the same place, or the second stands at a link, and the first is on the way along
\* its text, if that is t, where k is.
Parted(f, t, k, x, y, n) ==
    \/ y = x /\ Visit(f, TRUE, x)
    \/ /\ x.rest = <<>>
       /\ x.ino # None /\ f[x.ino].to = t => \E m \in 0..(n - 1) : y = k[m]

LEMMA PartedOn ==
    ASSUME NEW f, Sound(f), NEW t, NEW k, Goes(k, f, t, TRUE), NEW n \in 1..Hops,
           NEW v, NEW z, Parted(f, t, k, v, z, n - 1),
           NEW x, x = Along(f, v, FALSE), NEW y, y = Along(f, z, TRUE)
    PROVE  Parted(f, t, k, x, y, n)
  <1>1. k[0] = Start(t) /\ \A m \in 1..Hops : k[m] = Along(f, k[m - 1], TRUE)
    BY DEF Goes
  <1>2. CASE z = v /\ Visit(f, TRUE, v)
    <2>1. Visit(f, TRUE, y)
      BY <1>2, VisitAlong
    <2>2. CASE v.rest = <<>>
      <3>1. x = v /\ y = v
        BY <1>2, <2>2, Rests
      <3>2. QED
        BY <1>2, <3>1 DEF Parted
    <2>3. CASE v.rest # <<>> /\ (v.ino = None \/ f[v.ino].kind # "dir")
      <3>1. x = Nowhere /\ y = Nowhere
        BY <1>2, <2>3, Rests
      <3>2. QED
        BY <2>1, <3>1 DEF Parted
    <2>4. CASE v.rest # <<>> /\ v.ino # None /\ f[v.ino].kind = "dir"
      <3>1. PICK i : i = f[v.ino].has[Head(v.rest)]
        OBVIOUS
      <3>2. v.rest \in Seq(Names)
        BY <1>2 DEF Visit
      <3>3. CASE Jumps(f, v, FALSE, i)
        <4>1. Jumps(f, v, TRUE, i)
          BY <3>3 DEF Jumps
        <4>2. x = Start(f[i].to \o Tail(v.rest)) /\ y = Start(f[i].to \o Tail(v.rest))
          BY <1>2, <2>4, <3>1, <3>3, <4>1, Jump
        <4>3. QED
          BY <2>1, <4>2 DEF Parted
      <3>4. CASE ~Jumps(f, v, TRUE, i)
        <4>1. ~Jumps(f, v, FALSE, i)
          BY <3>4 DEF Jumps
        <4>2. x = Place(v.ino, Head(v.rest), i, Tail(v.rest)) /\ y = Place(v.ino, Head(v.rest), i, Tail(v.rest))
          BY <1>2, <2>4, <3>1, <3>4, <4>1, Enter
        <4>3. QED
          BY <2>1, <4>2 DEF Parted
      <3>5. CASE ~Jumps(f, v, FALSE, i) /\ Jumps(f, v, TRUE, i)
        <4>1. i # None /\ f[i].kind = "link" /\ ~(Len(v.rest) > 1)
          BY <3>5 DEF Jumps
        <4>2. Tail(v.rest) = <<>>
          BY <2>4, <3>2, <4>1
        <4>3. x = Place(v.ino, Head(v.rest), i, <<>>)
          BY <2>4, <3>1, <3>5, <4>2, Enter
        <4>4. x.rest = <<>> /\ x.ino = i
          <5>1. PICK d, m, r : d = v.ino /\ m = Head(v.rest) /\ r = <<>>
            OBVIOUS
          <5>2. x = Place(d, m, i, r)
            BY <4>3, <5>1
          <5>3. Place(d, m, i, r).rest = r /\ Place(d, m, i, r).ino = i
            BY PlaceIs
          <5>4. QED
            BY <5>1, <5>2, <5>3
        <4>5. y = Start(f[i].to \o Tail(v.rest))
          BY <1>2, <2>4, <3>1, <3>5, Jump
        <4>6. v.ino \in Inodes
          BY <1>2, <2>4 DEF Visit
        <4>7. IsNode(f[v.ino]) /\ Head(v.rest) \in Names
          BY <2>4, <3>2, <4>6 DEF Sound, FsType
        <4>8. i \in Inodes
          BY <2>4, <3>1, <4>1, <4>7, NodeKinds
        <4>9. f[i].to \in Seq(Names)
          BY <4>1, <4>8, NodeKinds DEF Sound, FsType
        <4>10. y = Start(f[i].to)
          BY <4>2, <4>5, <4>9, ConcatEmptySeq
        <4>11. 0 \in 0..(n - 1)
          BY DEF Hops
        <4>12. QED
          BY <1>1, <4>4, <4>10, <4>11 DEF Parted
      <3>6. QED
        BY <3>3, <3>4, <3>5
    <2>5. QED
      BY <2>2, <2>3, <2>4
  <1>3. CASE v.rest = <<>> /\ (v.ino # None /\ f[v.ino].to = t => \E m \in 0..((n - 1) - 1) : z = k[m])
    <2>1. x = v
      BY <1>3, Rests
    <2>2. ASSUME NEW m \in 0..((n - 1) - 1), z = k[m] PROVE \E l \in 0..(n - 1) : y = k[l]
      <3>1. m + 1 \in 1..Hops /\ m + 1 \in 0..(n - 1) /\ (m + 1) - 1 = m
        BY DEF Hops
      <3>2. k[m + 1] = Along(f, k[m], TRUE)
        BY <1>1, <3>1
      <3>3. QED
        BY <2>2, <3>1, <3>2
    <2>3. QED
      BY <1>3, <2>1, <2>2 DEF Parted
  <1>4. QED
    BY <1>2, <1>3 DEF Parted

\* The text of a link leads where the link leads.
LEMMA TextLeads ==
    ASSUME NEW f, Sound(f), NEW a \in Seq(Names), NEW i, i = Walk(f, a, FALSE).ino, Is(f, i, "link"),
           NEW t, t = f[i].to, ~GivenUp(f, a)
    PROVE  ~GivenUp(f, t) /\ Walk(f, t, TRUE).ino = Walk(f, a, TRUE).ino
  <1>1. PICK g : Goes(g, f, a, FALSE)
    BY WalkGoes
  <1>2. PICK h : Goes(h, f, a, TRUE)
    BY WalkGoes
  <1>3. PICK k : Goes(k, f, t, TRUE)
    BY WalkGoes
  <1> DEFINE S == {n \in 0..Hops : Parted(f, t, k, g[n], h[n], n)}
  <1>4. 0 \in S
    <2>1. g[0] = Start(a) /\ h[0] = Start(a)
      BY <1>1, <1>2 DEF Goes
    <2>2. Visit(f, TRUE, Start(a))
      BY VisitStart
    <2>3. Parted(f, t, k, Start(a), Start(a), 0)
      BY <2>2 DEF Parted
    <2>4. Parted(f, t, k, g[0], h[0], 0)
      BY <2>1, <2>3, Zenon
    <2>5. 0 \in 0..Hops
      BY DEF Hops
    <2>6. QED
      BY <2>4, <2>5
  <1>5. ASSUME NEW n \in 1..Hops, n - 1 \in S PROVE n \in S
    <2>1. PICK v, z, x, y : v = g[n - 1] /\ z = h[n - 1] /\ x = g[n] /\ y = h[n]
      OBVIOUS
    <2>2. x = Along(f, v, FALSE) /\ y = Along(f, z, TRUE) /\ Parted(f, t, k, v, z, n - 1)
      BY <1>1, <1>2, <1>5, <2>1 DEF Goes
    <2>3. Parted(f, t, k, x, y, n)
      BY <1>3, <2>2, PartedOn
    <2>4. Parted(f, t, k, g[n], h[n], n) /\ n \in 0..Hops
      BY <2>1, <2>3 DEF Hops
    <2>5. QED
      BY <2>4
  <1>6. Parted(f, t, k, g[Hops], h[Hops], Hops)
    <2>1. Hops \in S
      <3> HIDE DEF S
      <3>1. QED
        BY <1>4, <1>5, Hopping
    <2>2. QED
      BY <2>1
  <1>7. g[Hops].rest = <<>> /\ g[Hops].ino = i /\ i # None /\ f[i].kind = "link"
    <2>1. Walk(f, a, FALSE) = IF g[Hops].rest = <<>> THEN g[Hops] ELSE Nowhere
      BY <1>1 DEF Goes
    <2>2. i # None /\ f[i].kind = "link"
      BY DEF Is
    <2>3. QED
      BY <2>1, <2>2, StartIs
  <1>8. PICK m \in 0..(Hops - 1) : h[Hops] = k[m]
    <2>1. ~Visit(f, TRUE, g[Hops])
      BY <1>7 DEF Visit
    <2>2. QED
      BY <1>6, <1>7, <2>1 DEF Parted
  <1>9. h[Hops].rest = <<>> /\ Walk(f, a, TRUE) = h[Hops]
    <2>1. Hopped(f, a, TRUE) = h[Hops] /\ Walk(f, a, TRUE) = IF h[Hops].rest = <<>> THEN h[Hops] ELSE Nowhere
      BY <1>2 DEF Goes
    <2>2. QED
      BY <2>1 DEF GivenUp
  <1>10. k[Hops] = k[m]
    <2>1. m \in 0..Hops /\ k[m].rest = <<>>
      BY <1>8, <1>9 DEF Hops
    <2>2. PICK yes : Goes(k, f, t, yes)
      BY <1>3
    <2>3. \A c, q, follow : Goes(c, f, q, follow) => \A e \in 0..Hops : c[e].rest = <<>> => c[Hops] = c[e]
      BY Arrived
    <2>4. \A e \in 0..Hops : k[e].rest = <<>> => k[Hops] = k[e]
      BY <2>2, <2>3
    <2>5. QED
      BY <2>1, <2>4
  <1>11. Hopped(f, t, TRUE) = k[Hops] /\ Walk(f, t, TRUE) = IF k[Hops].rest = <<>> THEN k[Hops] ELSE Nowhere
    BY <1>3 DEF Goes
  <1>12. QED
    BY <1>8, <1>9, <1>10, <1>11 DEF GivenUp

\* Links are followed to what the path leads to.
LEMMA ReadLinkAlone == ASSUME OpsInv, AloneInv, NEW s \in Slots, ReadLink(s) PROVE AloneInv'
  <1>1. PICK j, i : j = job[s] /\ i = Walk(fs, j.at, FALSE).ino
    OBVIOUS
  <1>2. JobType(j, fs) /\ j.pc = "readlink" /\ j.op = "symlink" /\ j.at \in Seq(Names) /\ Sound(fs)
    BY <1>1, AtStep DEF ReadLink, At, JobType, Stage
  <1>6. j.before # None =>
           /\ fs = j.before
           /\ ~j.missed /\ ~GivenUp(fs, j.p) => ~GivenUp(fs, j.at) /\ Walk(fs, j.at, TRUE).ino = Walk(fs, j.p, TRUE).ino
    BY <1>1, <1>2, AtStep DEF Changed, Right, Knows
  <1>3. CASE Is(fs, i, "link")
    <2>1. PICK to \in {fs[i].to, <<Junk>>} : CallOn(s, [Miss(j, to # fs[i].to) EXCEPT !.at = to], fs, mem[s])
      BY <1>1, <1>3, Zenon DEF ReadLink, Call
    <2>2. PICK torn, l : torn \in BOOLEAN /\ torn = (to # fs[i].to) /\ l = Miss(j, torn)
      OBVIOUS
    <2>3. PICK k : k = [l EXCEPT !.at = to] /\ CallOn(s, k, fs, mem[s])
      BY <2>1, <2>2
    <2>4. /\ JobType(l, fs) /\ l.pc = "readlink" /\ (l.missed <=> j.missed \/ torn)
          /\ \A a : Follows(a, l) => Follows(a, j)
      <3>1. torn \in BOOLEAN /\ l = Miss(j, torn)
        BY <2>2
      <3>2. QED
        BY <1>2, <3>1, Overlooking
    <2>5. k.pc = "readlink" /\ k.at = to /\ k.missed = l.missed /\ Follows(k, l)
      BY <2>3, <2>4, JobFields DEF JobType, Follows
    <2>6. Follows(k, j) /\ k.p = j.p /\ k.before = j.before
      BY <2>4, <2>5 DEF Follows
    <2>7. k.before # None /\ ~k.missed /\ ~GivenUp(k.before, k.p) =>
             ~GivenUp(k.before, k.at) /\ Walk(k.before, k.at, TRUE).ino = Walk(k.before, k.p, TRUE).ino
      <3>1. SUFFICES ASSUME k.before # None, ~k.missed, ~GivenUp(k.before, k.p)
                     PROVE  ~GivenUp(k.before, k.at) /\ Walk(k.before, k.at, TRUE).ino = Walk(k.before, k.p, TRUE).ino
        OBVIOUS
      <3>2. ~j.missed /\ k.at = fs[i].to
        BY <2>2, <2>4, <2>5, <3>1
      <3>3. k.before = fs /\ ~GivenUp(fs, j.at) /\ Walk(fs, j.at, TRUE).ino = Walk(fs, k.p, TRUE).ino
        BY <1>6, <2>6, <3>1, <3>2
      <3>4. ~GivenUp(fs, k.at) /\ Walk(fs, k.at, TRUE).ino = Walk(fs, j.at, TRUE).ino
        <4>1. PICK a, t : a \in Seq(Names) /\ a = j.at /\ t = fs[i].to
          BY <1>2
        <4>2. i = Walk(fs, a, FALSE).ino
          BY <1>1, <4>1
        <4>3. ~GivenUp(fs, a)
          BY <3>3, <4>1
        <4>4. ~GivenUp(fs, t) /\ Walk(fs, t, TRUE).ino = Walk(fs, a, TRUE).ino
          BY <1>2, <1>3, <4>1, <4>2, <4>3, TextLeads
        <4>5. QED
          BY <3>2, <4>1, <4>4
      <3>5. QED
        BY <3>3, <3>4
    <2>8. Right(k, fs)
      BY <2>5, <2>7 DEF Right, Knows
    <2>9. QED
      BY <1>1, <1>2, <2>3, <2>5, <2>6, <2>8, NearStep DEF Changed
  <1>4. CASE ~Is(fs, i, "link")
    <2>1. PICK k : k = Goto(j, "symlink") /\ CallOn(s, k, fs, mem[s])
      BY <1>1, <1>4 DEF ReadLink, Call
    <2>2. k.pc = "symlink" /\ Follows(k, j) /\ k.at = j.at /\ k.missed = j.missed
      BY <1>2, <2>1, Going
    <2>3. k.p = j.p /\ k.before = j.before
      BY <2>2 DEF Follows
    <2>4. Right(k, fs)
      BY <1>6, <2>2, <2>3 DEF Right, Knows
    <2>5. QED
      BY <1>1, <1>2, <2>1, <2>2, <2>4, NearStep DEF Changed
  <1>5. QED
    BY <1>3, <1>4

LEMMA MD5OpenAlone == ASSUME OpsInv, AloneInv, NEW s \in Slots, MD5Open(s) PROVE AloneInv'
  <1>1. PICK j, i : j = job[s] /\ i = Walk(fs, j.p, TRUE).ino
    OBVIOUS
  <1>2. /\ JobType(j, fs) /\ j.pc = "fopen" /\ j.op = "md5" /\ j.in = None /\ j.p \in Seq(Names) /\ Sound(fs)
        /\ j.before # None => fs = j.before
        /\ Right(j, fs)
    BY <1>1, AtStep DEF MD5Open, At, JobType, Stage, Changed
  <1>a. PICK o \in {i, None} :
           CallOn(s, IF o = None THEN Return(j, FALSE) ELSE [j EXCEPT !.pc = "fread", !.in = o], fs, mem[s])
    BY <1>1, Zenon DEF MD5Open, Call
  <1>3. CASE o = None
    <2>1. PICK k : k = Return(j, FALSE) /\ CallOn(s, k, fs, mem[s])
      BY <1>3, <1>a
    <2>2. k.pc = "done" /\ Follows(k, j) /\ Right(k, fs)
      BY <1>2, <2>1, Answering, FailureRight
    <2>3. QED
      BY <1>1, <2>1, <2>2, NearStep
  <1>4. CASE o # None
    <2>1. PICK k : k = [j EXCEPT !.pc = "fread", !.in = i] /\ CallOn(s, k, fs, mem[s])
      BY <1>4, <1>a
    <2>2. k.pc = "fread" /\ Follows(k, j) /\ k.in = i /\ k.sum = j.sum /\ k.p = j.p /\ k.before = j.before
      BY <1>2, <2>1, JobFields DEF JobType, Follows
    <2>3. j.before # None => j.sum = <<>>
      BY <1>2 DEF Right, Knows
    <2>4. IsPrefix(<<>>, Data(fs, j.p))
      <3>1. \E T : Data(fs, j.p) \in Seq(T)
        <4>1. CASE Is(fs, i, "file")
          <5>1. i \in Inodes /\ fs[i].kind = "file"
            BY <1>1, <1>2, <4>1, Found DEF Is
          <5>2. fs[i].data \in Seq(Blocks)
            BY <1>2, <5>1, FileData
          <5>3. QED
            BY <1>1, <4>1, <5>2 DEF Data
        <4>2. CASE ~Is(fs, i, "file")
          <5>1. Data(fs, j.p) = <<>>
            BY <1>1, <4>2 DEF Data
          <5>2. Data(fs, j.p) \in Seq(Blocks)
            BY <5>1
          <5>3. QED
            BY <5>2
        <4>3. QED
          BY <4>1, <4>2
      <3>2. QED
        BY <3>1 DEF IsPrefix
    <2>5. Right(k, fs)
      <3>1. <<>> \in Seq(Blocks)
        OBVIOUS
      <3>2. QED
        BY <1>1, <1>2, <2>2, <2>3, <2>4, <3>1 DEF Right, Knows
    <2>6. QED
      BY <1>1, <1>2, <2>1, <2>2, <2>5, NearStep DEF Changed
  <1>5. QED
    BY <1>3, <1>4

\* One more block behind others.
LEMMA OneMore ==
    ASSUME NEW sum \in Seq(Blocks), NEW x \in Blocks
    PROVE  \E a \in Seq(Blocks) : /\ a = Append(sum, x) /\ Len(a) = Len(sum) + 1 /\ a[Len(sum) + 1] = x
                                  /\ \A i \in 1..Len(sum) : a[i] = sum[i]
  <1>1. PICK n \in Nat : n = Len(sum)
    OBVIOUS
  <1>2. Append(sum, x) \in Seq(Blocks) /\ Len(Append(sum, x)) = n + 1
    BY <1>1
  <1>3. Append(sum, x)[n + 1] = x
    BY <1>1
  <1>4. \A i \in 1..n : Append(sum, x)[i] = sum[i]
    BY <1>1
  <1>5. QED
    BY <1>1, <1>2, <1>3, <1>4

\* A file is read block by block.
LEMMA ReadOn ==
    ASSUME NEW all \in Seq(Blocks), NEW sum \in Seq(Blocks), IsPrefix(sum, all),
           NEW rest, rest = SubSeq(all, Len(sum) + 1, Len(all))
    PROVE  /\ rest = <<>> => sum = all
           /\ rest # <<>> => /\ Append(sum, Head(rest)) \in Seq(Blocks)
                             /\ IsPrefix(Append(sum, Head(rest)), all)
  <1>1. PICK n \in Nat, l \in Nat : n = Len(sum) /\ l = Len(all)
    OBVIOUS
  <1>2. n <= l /\ SubSeq(sum, 1, n) = SubSeq(all, 1, n)
    BY <1>1 DEF IsPrefix
  <1>3. ASSUME NEW i \in 1..n PROVE sum[i] = all[i]
    <2>1. SubSeq(sum, 1, n)[i] = sum[i] /\ SubSeq(all, 1, n)[i] = all[i]
      BY <1>1, <1>2
    <2>2. QED
      BY <1>2, <2>1
  <1>4. /\ rest \in Seq(Blocks) /\ Len(rest) = l - n
        /\ \A i \in 1..(l - n) : rest[i] = all[n + i]
    BY <1>1, <1>2
  <1>5. CASE n = l
    <2>1. sum = all
      <3>1. Len(sum) = n /\ Len(all) = n
        BY <1>1, <1>5
      <3>2. sum = [i \in 1..n |-> sum[i]] /\ all = [i \in 1..n |-> all[i]]
        BY <3>1
      <3>3. QED
        BY <1>3, <3>2
    <2>2. Len(rest) = 0
      BY <1>4, <1>5
    <2>3. QED
      BY <1>4, <2>1, <2>2
  <1>6. CASE n # l
    <2>1. n + 1 <= l /\ rest # <<>>
      <3>1. Len(rest) # 0
        BY <1>2, <1>4, <1>6
      <3>2. QED
        BY <1>2, <1>6, <3>1
    <2>2. Head(rest) = all[n + 1] /\ Head(rest) \in Blocks
      <3>1. Head(rest) = rest[1] /\ 1 \in 1..(l - n) /\ Len(rest) # 0
        BY <1>4, <2>1
      <3>2. rest[1] = all[n + 1] /\ rest[1] \in Blocks
        BY <1>4, <3>1
      <3>3. QED
        BY <3>1, <3>2
    <2>a. PICK x \in Blocks : x = Head(rest)
      BY <2>2
    <2>b. PICK a \in Seq(Blocks) : /\ a = Append(sum, x) /\ Len(a) = Len(sum) + 1 /\ a[Len(sum) + 1] = x
                                   /\ \A i \in 1..Len(sum) : a[i] = sum[i]
      BY OneMore
    <2>3. a \in Seq(Blocks) /\ a = Append(sum, Head(rest)) /\ x = Head(rest)
      BY <2>a, <2>b
    <2>4. Len(a) = n + 1 /\ \A i \in 1..(n + 1) : a[i] = all[i]
      <3>a. Len(a) = n + 1 /\ a[n + 1] = x /\ \A i \in 1..n : a[i] = sum[i]
        BY <1>1, <2>a, <2>b
      <3>1. Len(a) = n + 1 /\ a[n + 1] = Head(rest) /\ \A i \in 1..n : a[i] = sum[i]
        BY <2>a, <3>a
      <3>2. ASSUME NEW i \in 1..(n + 1) PROVE a[i] = all[i]
        <4>1. CASE i = n + 1
          BY <2>2, <3>1, <4>1
        <4>2. CASE i # n + 1
          <5>1. i \in 1..n
            BY <4>2
          <5>2. QED
            BY <1>3, <3>1, <5>1
        <4>3. QED
          BY <4>1, <4>2
      <3>3. QED
        BY <3>1, <3>2
    <2>5. IsPrefix(a, all)
      <3>1. SubSeq(a, 1, n + 1) = [i \in 1..(n + 1) |-> a[i]] /\ SubSeq(all, 1, n + 1) = [i \in 1..(n + 1) |-> all[i]]
        BY <1>1, <2>1, <2>4
      <3>2. SubSeq(a, 1, n + 1) = SubSeq(all, 1, n + 1)
        BY <2>4, <3>1
      <3>3. QED
        BY <1>1, <2>1, <2>4, <3>2 DEF IsPrefix
    <2>6. QED
      BY <2>1, <2>3, <2>5
  <1>7. QED
    BY <1>5, <1>6

\* Blocks are read in order, so that what has been read is the front of the file.
LEMMA MD5ReadAlone == ASSUME OpsInv, AloneInv, NEW s \in Slots, MD5Read(s) PROVE AloneInv'
  <1>1. PICK j, i : j = job[s] /\ i = Walk(fs, j.p, TRUE).ino
    OBVIOUS
  <1>2. /\ JobType(j, fs) /\ j.pc = "fread" /\ j.op = "md5" /\ Sound(fs) /\ j.in \in Inodes
        /\ j.before # None => fs = j.before
        /\ Right(j, fs)
    BY <1>1, AtStep DEF MD5Read, At, JobType, Stage, Changed
  <1>3. PICK rest : rest = IF Is(fs, j.in, "file")
                           THEN SubSeq(fs[j.in].data, Len(j.sum) + 1, Len(fs[j.in].data)) ELSE <<>>
    OBVIOUS
  <1>4. ASSUME j.before # None
        PROVE  \E all \in Seq(Blocks), sum \in Seq(Blocks) :
                  /\ all = Data(fs, j.p) /\ sum = j.sum /\ IsPrefix(sum, all)
                  /\ rest = SubSeq(all, Len(sum) + 1, Len(all))
    <2>1. j.in = i /\ j.sum \in Seq(Blocks) /\ IsPrefix(j.sum, Data(fs, j.p))
      BY <1>1, <1>2, <1>4 DEF Right, Knows
    <2>2. PICK sum \in Seq(Blocks) : sum = j.sum
      BY <2>1
    <2>3. CASE Is(fs, i, "file")
      <3>1. PICK all \in Seq(Blocks) : all = fs[i].data
        BY <1>2, <2>1, <2>3, FileData DEF Is
      <3>2. all = Data(fs, j.p)
        BY <1>1, <2>3, <3>1 DEF Data
      <3>3. QED
        BY <1>3, <2>1, <2>2, <2>3, <3>1, <3>2
    <2>4. CASE ~Is(fs, i, "file")
      <3>1. Data(fs, j.p) = <<>> /\ rest = <<>> /\ <<>> \in Seq(Blocks)
        BY <1>1, <1>3, <2>1, <2>4 DEF Data
      <3>2. PICK all \in Seq(Blocks) : all = <<>>
        BY <3>1
      <3>3. rest = SubSeq(all, Len(sum) + 1, Len(all))
        <4>1. SubSeq(all, Len(sum) + 1, Len(all)) \in Seq(Blocks) /\ Len(SubSeq(all, Len(sum) + 1, Len(all))) = 0
          BY <2>2, <3>2
        <4>2. PICK e \in Seq(Blocks) : e = SubSeq(all, Len(sum) + 1, Len(all)) /\ Len(e) = 0
          BY <4>1
        <4>3. e = <<>>
          BY <4>2
        <4>4. QED
          BY <3>1, <4>2, <4>3
      <3>4. QED
        BY <2>1, <2>2, <3>1, <3>2, <3>3
    <2>5. QED
      BY <2>3, <2>4
  <1>5. PICK cut, l : cut \in BOOLEAN /\ cut = (rest # <<>>) /\ l = Miss(j, cut)
    OBVIOUS
  <1>6. PICK sum : sum = Append(j.sum, Head(rest))
    OBVIOUS
  <1>7. CASE CallOn(s, Return(l, TRUE), fs, mem[s])
    <2>1. PICK k : k = Return(l, TRUE) /\ CallOn(s, k, fs, mem[s])
      BY <1>7
    <2>2. /\ JobType(l, fs) /\ (l.missed <=> j.missed \/ cut) /\ l.sum = j.sum
          /\ \A a : Follows(a, l) => Follows(a, j)
      <3>1. cut \in BOOLEAN /\ l = Miss(j, cut)
        BY <1>5
      <3>2. QED
        BY <1>2, <3>1, Overlooking
    <2>a. /\ k.pc = "done" /\ Follows(k, l) /\ k.answer = "ACTION_COMPLETED" /\ k.sum = l.sum
          /\ k.missed = l.missed
      BY <2>1, <2>2, Answering
    <2>b. Follows(k, j) /\ k.sum = j.sum
      BY <2>2, <2>a
    <2>3. k.op = "md5" /\ k.p = j.p /\ k.before = j.before
      BY <1>2, <2>b DEF Follows
    <2>c. ~k.missed => rest = <<>>
      BY <1>5, <2>2, <2>a
    <2>4. j.before # None /\ ~k.missed => k.sum = Data(fs, j.p)
      BY <1>4, <2>b, <2>c, ReadOn
    <2>5. Right(k, fs)
      BY <2>a, <2>3, <2>4 DEF Right, Knows, Truthful, Completed, Noticed, Failed
    <2>6. QED
      BY <1>1, <2>1, <2>a, <2>b, <2>5, NearStep
  <1>8. CASE rest # <<>> /\ CallOn(s, [j EXCEPT !.sum = sum], fs, mem[s])
    <2>2. PICK k : k = [j EXCEPT !.sum = sum]
      OBVIOUS
    <2>3. CallOn(s, k, fs, mem[s])
      BY <1>8, <2>2
    <2>4. k.pc = "fread" /\ Follows(k, j) /\ k.in = j.in /\ k.sum = sum /\ k.p = j.p /\ k.before = j.before
      BY <1>2, <2>2, JobFields DEF JobType, Follows
    <2>5. j.before # None => sum \in Seq(Blocks) /\ IsPrefix(sum, Data(fs, j.p))
      BY <1>4, <1>6, <1>8, ReadOn
    <2>6. j.before # None => j.in = i
      BY <1>1, <1>2 DEF Right, Knows
    <2>7. Right(k, fs)
      BY <1>1, <1>2, <2>4, <2>5, <2>6 DEF Right, Knows
    <2>8. QED
      BY <1>1, <1>2, <2>3, <2>4, <2>7, NearStep DEF Changed
  <1>9. CallOn(s, Return(l, TRUE), fs, mem[s]) \/ (rest # <<>> /\ CallOn(s, [j EXCEPT !.sum = sum], fs, mem[s]))
    BY <1>1, <1>3, <1>5, <1>6 DEF MD5Read, Call
  <1>10. QED
    BY <1>7, <1>8, <1>9

\* All that is to come at first is the whole listing.
LEMMA EntriesAll ==
    ASSUME NEW f, NEW d, NEW S \in SUBSET Names, S = Inside(f, d), NEW names \in SetToSeqs(S), NEW p
    PROVE  Entries(f, p, names) = Listed(f, d, p)
  <1>1. names \in Seq(S) /\ \A a \in S : \E i \in DOMAIN names : names[i] = a
    BY Listing
  <1>2. \A i \in DOMAIN names : names[i] \in S
    BY <1>1
  <1>3. QED
    BY <1>1, <1>2 DEF Entries, Listed

\* One entry less is to come.
LEMMA EntriesNext ==
    ASSUME NEW f, NEW names \in Seq(Names), names # <<>>, NEW p
    PROVE  Entries(f, p, names) = {EntryOf(f, p, Head(names))} \union Entries(f, p, Tail(names))
  <1>1. PICK l \in Nat : l = Len(names) /\ l # 0 /\ DOMAIN names = 1..l
    OBVIOUS
  <1>2. PICK t : t = Tail(names)
    OBVIOUS
  <1>3. DOMAIN t = 1..(l - 1) /\ (\A k \in 1..(l - 1) : t[k] = names[k + 1]) /\ Head(names) = names[1]
    BY <1>1, <1>2
  <1>4. ASSUME NEW k \in 1..l PROVE EntryOf(f, p, names[k]) \in {EntryOf(f, p, names[1])} \union Entries(f, p, t)
    <2>1. CASE k = 1
      BY <2>1
    <2>2. CASE k # 1
      <3>1. PICK h \in 1..(l - 1) : k = h + 1
        BY <2>2
      <3>2. t[h] = names[k]
        BY <1>3, <3>1
      <3>3. QED
        BY <1>3, <3>1, <3>2 DEF Entries
    <2>3. QED
      BY <2>1, <2>2
  <1>5. ASSUME NEW k \in 1..(l - 1) PROVE EntryOf(f, p, t[k]) \in Entries(f, p, names)
    <2>1. k + 1 \in 1..l /\ t[k] = names[k + 1]
      BY <1>1, <1>3
    <2>2. QED
      BY <1>1, <2>1 DEF Entries
  <1>6. 1 \in 1..l
    BY <1>1
  <1>7. EntryOf(f, p, names[1]) \in Entries(f, p, names)
    BY <1>1, <1>6 DEF Entries
  <1>8. QED
    BY <1>1, <1>2, <1>3, <1>4, <1>5, <1>7 DEF Entries

LEMMA LsOpenAlone == ASSUME OpsInv, AloneInv, NEW s \in Slots, LsOpen(s) PROVE AloneInv'
  <1>1. PICK j, m, d : j = job[s] /\ m = Slash(mem[s], job[s].p) /\ d = Walk(fs, Read(m), TRUE).ino
    OBVIOUS
  <1>2. /\ JobType(j, fs) /\ j.pc = "opendir" /\ j.op = "ls"
        /\ j.before # None => fs = j.before
        /\ Right(j, fs)
    BY <1>1, AtStep DEF LsOpen, At, JobType, Stage, Changed
  <1>3. PICK l : l = [j EXCEPT !.at = Read(m)]
    OBVIOUS
  <1>4. /\ DOMAIN l = DOMAIN NoJob /\ l.pc = j.pc /\ l.at = Read(m) /\ l.got = j.got
        /\ l.op = j.op /\ l.p = j.p /\ l.q = j.q /\ l.in = j.in /\ l.before = j.before
        /\ l.out = j.out /\ l.used = j.used /\ l.spoilt = j.spoilt /\ l.missed = j.missed /\ l.answer = j.answer
    BY <1>2, <1>3, JobFields DEF JobType
  <1>5. JobType(l, fs)
    BY <1>2, <1>4 DEF JobType, Stage
  <1>6. CASE CallOn(s, Return(l, FALSE), fs, m)
    <2>1. PICK k : k = Return(l, FALSE) /\ CallOn(s, k, fs, m)
      BY <1>6
    <2>2. k.pc = "done" /\ Follows(k, l) /\ Right(k, fs)
      BY <1>2, <1>4, <1>5, <2>1, Answering, FailureRight
    <2>3. Follows(k, j)
      BY <1>4, <2>2 DEF Follows
    <2>4. QED
      BY <1>1, <2>1, <2>2, <2>3, NearStep
  <1>a. PICK S \in SUBSET Names : S = Inside(fs, d)
    BY DEF Inside
  <1>7. CASE \E names \in SetToSeqs(S) : CallOn(s, [l EXCEPT !.pc = "entry", !.todo = names], fs, m)
    <2>1. S = Inside(fs, d)
      BY <1>a
    <2>2. PICK names \in SetToSeqs(S) : CallOn(s, [l EXCEPT !.pc = "entry", !.todo = names], fs, m)
      BY <1>7
    <2>3. Entries(fs, j.p, names) = Listed(fs, d, j.p)
      BY <2>1, EntriesAll
    <2>4. PICK k : k = [l EXCEPT !.pc = "entry", !.todo = names] /\ CallOn(s, k, fs, m)
      BY <2>2
    <2>5. /\ k.pc = "entry" /\ k.todo = names /\ k.at = Read(m) /\ k.got = j.got
          /\ k.op = j.op /\ k.p = j.p /\ k.q = j.q /\ k.in = j.in /\ k.before = j.before
          /\ k.out = j.out /\ k.spoilt = j.spoilt
      BY <1>4, <2>4, JobFields
    <2>6. j.before # None => j.got = {}
      BY <1>2 DEF Right, Knows
    <2>7. k.before # None /\ k.at = k.p =>
             k.got \union Entries(k.before, k.p, k.todo) = Listed(k.before, Walk(k.before, k.p, TRUE).ino, k.p)
      BY <1>1, <1>2, <2>3, <2>5, <2>6
    <2>8. Right(k, fs)
      BY <2>5, <2>7 DEF Right, Knows
    <2>9. Follows(k, j)
      BY <2>5 DEF Follows
    <2>10. QED
      BY <1>1, <1>2, <2>4, <2>5, <2>8, <2>9, NearStep DEF Changed
  <1>8. \/ CallOn(s, Return(l, FALSE), fs, m)
        \/ \E names \in SetToSeqs(S) : CallOn(s, [l EXCEPT !.pc = "entry", !.todo = names], fs, m)
    BY <1>1, <1>3, <1>a, Zenon DEF LsOpen
  <1>9. QED
    BY <1>6, <1>7, <1>8

\* A folder goes into the answer at once, a file when its size is known.
LEMMA LsEntryAlone == ASSUME OpsInv, AloneInv, NEW s \in Slots, LsEntry(s) PROVE AloneInv'
  <1>1. PICK j, n : j = job[s] /\ n = Head(j.todo)
    OBVIOUS
  <1>2. /\ JobType(j, fs) /\ j.pc = "entry" /\ j.op = "ls"
        /\ j.todo \in Seq(Names) /\ j.todo # <<>>
        /\ j.before # None => fs = j.before
        /\ Right(j, fs)
    BY <1>1, AtStep DEF LsEntry, At, JobType, Stage, Changed
  <1>3. PICK m : m = Write(mem[s], 2 * Len(j.p), <<n, "nul">>)
    OBVIOUS
  <1>4. j.before # None /\ j.at = j.p /\ ~j.missed =>
           j.got \union Entries(fs, j.p, j.todo) = Listed(fs, Walk(fs, j.p, TRUE).ino, j.p)
    BY <1>2 DEF Right, Knows
  <1>a. PICK dir : dir \in BOOLEAN /\ dir = IsDirectory(fs, Append(j.p, n))
    BY DEF IsDirectory, Is
  <1>b. PICK seen \in {dir, FALSE} :
           CallOn(s, IF seen
                     THEN [j EXCEPT !.todo = Tail(@), !.got = @ \union {Entry(n, TRUE, 0)}, !.used = Packed(j, n)]
                     ELSE Goto(Miss(j, dir), "entrysize"), fs, m)
    BY <1>1, <1>3, <1>a, Zenon DEF LsEntry
  <1>5. CASE seen
    <2>0. IsDirectory(fs, Append(j.p, n))
      BY <1>5, <1>a, <1>b
    <2>1. PICK got, used, todo : got = j.got \union {Entry(n, TRUE, 0)} /\ used = Packed(j, n) /\ todo = Tail(j.todo)
      OBVIOUS
    <2>2. PICK k : k = [j EXCEPT !.todo = todo, !.got = got, !.used = used]
      OBVIOUS
    <2>3. CallOn(s, k, fs, m)
      BY <1>5, <1>b, <2>1, <2>2
    <2>4. /\ k.pc = "entry" /\ k.todo = todo /\ k.got = got /\ k.at = j.at /\ k.p = j.p /\ k.before = j.before
          /\ k.missed = j.missed /\ Follows(k, j)
      BY <1>2, <2>2, JobFields DEF JobType, Follows
    <2>5. EntryOf(fs, j.p, n) = Entry(n, TRUE, 0)
      BY <2>0 DEF EntryOf
    <2>6. Entries(fs, j.p, j.todo) = {EntryOf(fs, j.p, n)} \union Entries(fs, j.p, todo)
      BY <1>1, <1>2, <2>1, EntriesNext
    <2>7. got \union Entries(fs, j.p, todo) = j.got \union Entries(fs, j.p, j.todo)
      BY <2>1, <2>5, <2>6
    <2>8. Right(k, fs)
      BY <1>2, <1>4, <2>4, <2>7 DEF Right, Knows
    <2>9. QED
      BY <1>1, <1>2, <2>3, <2>4, <2>8, NearStep DEF Changed
  <1>6. CASE ~seen
    <2>0. PICK l : l = Miss(j, dir)
      OBVIOUS
    <2>1. PICK k : k = Goto(l, "entrysize") /\ CallOn(s, k, fs, m)
      BY <1>6, <1>b, <2>0
    <2>a. /\ JobType(l, fs) /\ (l.missed <=> j.missed \/ dir) /\ l.p = j.p /\ l.before = j.before
          /\ l.todo = j.todo /\ l.got = j.got /\ l.at = j.at
          /\ \A a : Follows(a, l) => Follows(a, j)
      <3>1. dir \in BOOLEAN
        BY <1>a
      <3>2. QED
        BY <1>2, <2>0, <3>1, Overlooking
    <2>b. k.pc = "entrysize" /\ Follows(k, l) /\ k.todo = l.todo /\ k.got = l.got /\ k.at = l.at /\ k.missed = l.missed
      BY <2>1, <2>a, Going
    <2>2. /\ k.pc = "entrysize" /\ Follows(k, j) /\ k.todo = j.todo /\ k.got = j.got /\ k.at = j.at
          /\ k.p = j.p /\ k.before = j.before
          /\ ~k.missed => ~j.missed /\ ~IsDirectory(fs, Append(j.p, n))
      BY <1>a, <2>a, <2>b DEF Follows
    <2>3. Right(k, fs)
      BY <1>1, <1>2, <1>4, <2>2 DEF Right, Knows
    <2>4. QED
      BY <1>1, <1>2, <2>1, <2>2, <2>3, NearStep DEF Changed
  <1>7. QED
    BY <1>5, <1>6

LEMMA LsSizeAlone == ASSUME OpsInv, AloneInv, NEW s \in Slots, LsSize(s) PROVE AloneInv'
  <1>1. PICK j, n : j = job[s] /\ n = Head(j.todo)
    OBVIOUS
  <1>2. /\ JobType(j, fs) /\ j.pc = "entrysize" /\ j.op = "ls"
        /\ j.todo \in Seq(Names) /\ j.todo # <<>>
        /\ j.before # None => fs = j.before
        /\ Right(j, fs)
    BY <1>1, AtStep DEF LsSize, At, JobType, Stage, Changed
  <1>3. j.before # None /\ ~j.missed =>
           /\ ~IsDirectory(fs, Append(j.p, n))
           /\ j.at = j.p => j.got \union Entries(fs, j.p, j.todo) = Listed(fs, Walk(fs, j.p, TRUE).ino, j.p)
    BY <1>1, <1>2 DEF Right, Knows
  <1>4. PICK size, used, todo : size = SizeOf(fs, Append(j.p, n)) /\ used = Packed(j, n) /\ todo = Tail(j.todo)
    OBVIOUS
  <1>5. PICK got : got = j.got \union {Entry(n, FALSE, size)}
    OBVIOUS
  <1>6. PICK k : k = [j EXCEPT !.pc = "entry", !.todo = todo, !.used = used, !.got = got]
    OBVIOUS
  <1>7. CallOn(s, k, fs, mem[s])
    BY <1>1, <1>4, <1>5, <1>6 DEF LsSize, Call
  <1>8. /\ k.pc = "entry" /\ k.todo = todo /\ k.got = got /\ k.at = j.at /\ k.p = j.p /\ k.before = j.before
        /\ k.missed = j.missed /\ Follows(k, j)
    BY <1>2, <1>6, JobFields DEF JobType, Follows
  <1>9. Entries(fs, j.p, j.todo) = {EntryOf(fs, j.p, n)} \union Entries(fs, j.p, todo)
    BY <1>1, <1>2, <1>4, EntriesNext
  <1>10. ASSUME j.before # None, ~j.missed
         PROVE  got \union Entries(fs, j.p, todo) = j.got \union Entries(fs, j.p, j.todo)
    <2>1. EntryOf(fs, j.p, n) = Entry(n, FALSE, size)
      BY <1>3, <1>4, <1>10 DEF EntryOf
    <2>2. QED
      BY <1>5, <1>9, <2>1
  <1>11. Right(k, fs)
    BY <1>2, <1>3, <1>8, <1>10 DEF Right, Knows
  <1>12. QED
    BY <1>1, <1>2, <1>7, <1>8, <1>11, NearStep DEF Changed

LEMMA LsEndAlone == ASSUME OpsInv, AloneInv, NEW s \in Slots, LsEnd(s) PROVE AloneInv'
  <1>1. PICK j : j = job[s]
    OBVIOUS
  <1>2. /\ JobType(j, fs) /\ j.pc = "entry" /\ j.op = "ls" /\ j.todo \in Seq(Names)
        /\ j.before # None => fs = j.before
        /\ Right(j, fs)
    BY <1>1, AtStep DEF LsEnd, At, JobType, Stage, Changed
  <1>3. PICK cut, l : cut \in BOOLEAN /\ cut = (j.todo # <<>>) /\ l = Miss(j, cut)
    OBVIOUS
  <1>4. PICK k : k = Return(l, TRUE) /\ CallOn(s, k, fs, mem[s])
    BY <1>1, <1>3 DEF LsEnd, Call
  <1>5. /\ JobType(l, fs) /\ (l.missed <=> j.missed \/ cut) /\ l.got = j.got /\ l.at = j.at
        /\ \A a : Follows(a, l) => Follows(a, j)
    <2>1. cut \in BOOLEAN /\ l = Miss(j, cut)
      BY <1>3
    <2>2. QED
      BY <1>2, <2>1, Overlooking
  <1>6. /\ k.pc = "done" /\ Follows(k, l) /\ k.answer = "ACTION_COMPLETED" /\ k.got = l.got /\ k.at = l.at
        /\ k.missed = l.missed
    BY <1>4, <1>5, Answering
  <1>7. /\ Follows(k, j) /\ k.op = "ls" /\ k.p = j.p /\ k.before = j.before /\ k.got = j.got /\ k.at = j.at
        /\ ~k.missed => ~j.missed /\ j.todo = <<>>
    BY <1>2, <1>3, <1>5, <1>6 DEF Follows
  <1>8. Entries(fs, j.p, <<>>) = {}
    BY DEF Entries
  <1>9. j.before # None /\ j.at = j.p /\ ~k.missed => j.got = Listed(fs, Walk(fs, j.p, TRUE).ino, j.p)
    <2>1. j.before # None /\ j.at = j.p /\ ~k.missed =>
             j.got \union Entries(fs, j.p, <<>>) = Listed(fs, Walk(fs, j.p, TRUE).ino, j.p)
      BY <1>2, <1>7 DEF Right, Knows
    <2>2. QED
      BY <1>8, <2>1
  <1>10. Right(k, fs)
    BY <1>6, <1>7, <1>9 DEF Right, Knows, Truthful, Completed, Noticed, Failed
  <1>11. QED
    BY <1>1, <1>4, <1>6, <1>7, <1>10, NearStep

LEMMA ReleaseAlone == ASSUME OpsInv, AloneInv, NEW s \in Slots, Release(s) PROVE AloneInv'
  <1>1. CallOn(s, NoJob, fs, mem[s]) /\ Sound(fs)
    BY AtStep DEF Release, Call
  <1>2. NoJob.before = None
    BY DEF NoJob
  <1>3. Near(NoJob, fs') /\ Right(NoJob, fs') /\ (NoJob.pc = "free" => NoJob.before = None) => AloneInv'
    BY <1>1, CallLeaves
  <1>4. QED
    BY <1>2, <1>3 DEF Near, Right

\* A request comes in: if no other is under way it is alone, and nothing has changed yet.
LEMMA RequestAlone ==
    ASSUME OpsInv, AloneInv, NEW s \in Slots, NEW op \in OnePath \union TwoPath, NEW p \in Seq(Names),
           NEW q \in Seq(Names), Request(s, op, p, q)
    PROVE  AloneInv'
  <1>1. PICK k : /\ job' = [job EXCEPT ![s] = k]
                 /\ k = [NoJob EXCEPT !.op = op, !.pc = First(op), !.p = p, !.q = q, !.at = p, !.before = fs,
                                      !.todo = <<[path |-> p, last |-> FALSE]>>]
    BY DEF Request
  <1>2. /\ k.op = op /\ k.pc = First(op) /\ k.p = p /\ k.before = fs /\ k.got = {} /\ k.sum = <<>>
        /\ k.out = None /\ k.todo = <<[path |-> p, last |-> FALSE]>> /\ k.at = p /\ ~k.spoilt
    BY <1>1 DEF NoJob
  <1>3. k.pc \in {"exists", "rename", "source", "unlink", "tree", "cp", "access", "fopen", "readlink", "opendir"}
    BY <1>2, FirstSteps DEF OnePath, TwoPath
  <1>4. Sound(fs) /\ fs' = fs
    BY DEF OpsInv, Request
  <1>5. Len(k.todo) = 1 /\ DOMAIN k.todo = {1} /\ k.todo[1].path = p
    BY <1>2
  <1>6. Near(k, fs)
    <2>1. Others(k, fs)
      BY <1>2 DEF Others
    <2>2. Doomed(k, p)
      BY <1>2, BeneathSelf DEF Doomed
    <2>3. Shrunk(fs, fs)
      BY <1>4, ShrunkSelf
    <2>4. QED
      BY <1>2, <1>3, <1>4, <1>5, <2>1, <2>2, <2>3 DEF Near, Changed
  <1>7. Right(k, fs)
    BY <1>2, <1>3, <1>5 DEF Right, Knows
  <1>8. DOMAIN job = Slots
    BY DEF OpsInv
  <1>9. \A t \in Slots : Near(job'[t], fs') /\ Right(job'[t], fs') /\ (job'[t].pc = "free" => job'[t].before = None)
    <2>1. ASSUME NEW t \in Slots, t # s PROVE job'[t] = job[t]
      BY <1>1, <1>8, <2>1
    <2>2. job'[s] = k /\ k.pc # "free"
      BY <1>1, <1>3, <1>8
    <2>3. QED
      BY <1>4, <1>6, <1>7, <2>1, <2>2 DEF AloneInv
  <1>10. QED
    BY <1>9 DEF AloneInv, Slots

LEMMA RefuseAlone == ASSUME AloneInv, NEW s \in Slots, NEW p, Refuse(s, p) PROVE AloneInv'
  BY DEF AloneInv, Refuse, Near, Right, Others, Slots

-----------------------------------------------------------------------------
(* Walks to a new directory and through a new link.                        *)

\* h is f, but for a new inode u at the free place w.
Joined(f, h, w, u) ==
    /\ Located(f, w) /\ w.ino = None /\ u \in Inodes /\ f[u].kind = "free" /\ h[w.dir].kind = "dir"
    /\ \A i \in Inodes : i # w.dir /\ (i = Root \/ InTree(f, i)) => h[i] = f[i]
    /\ \A m \in Names, i \in Inodes :
          Entered(h, w.dir, m, i) <=> (m = w.name /\ i = u) \/ (m # w.name /\ Entered(f, w.dir, m, i))

\* What a walk meets is what it was, but for the new entry.
Met(f, h, w, u, v, m, i, e) ==
    /\ v.ino \in Inodes /\ v.rest \in Seq(Names) /\ h[v.ino].kind = "dir" /\ m \in Names
    /\ i # None => i # u /\ h[i].kind = f[i].kind /\ (f[i].kind # "dir" => h[i] = f[i])
    /\ v.ino = w.dir /\ m = w.name => i = None /\ e = u
    /\ v.ino # w.dir \/ m # w.name => e = i

LEMMA EntryKept ==
    ASSUME NEW f, Sound(f), NEW h, Sound(h), NEW w, NEW u, Joined(f, h, w, u),
           NEW follow, NEW v, Visit(f, follow, v), v.ino # None, v.rest # <<>>, f[v.ino].kind = "dir",
           NEW m, m = Head(v.rest), NEW i, i = f[v.ino].has[m], NEW e, e = h[v.ino].has[m]
    PROVE  Met(f, h, w, u, v, m, i, e)
  <1>1. /\ w.dir \in Inodes /\ f[w.dir].kind = "dir" /\ f[w.dir].has[w.name] = None
        /\ u \in Inodes /\ f[u].kind = "free" /\ h[w.dir].kind = "dir"
    BY DEF Joined, Located, Is
  <1>2. \A d \in Inodes : d # w.dir /\ (d = Root \/ InTree(f, d)) => h[d] = f[d]
    BY DEF Joined
  <1>3. v.ino \in Inodes /\ (v.ino = Root \/ InTree(f, v.ino)) /\ v.rest \in Seq(Names)
    <2>1. v.ino \in Inodes /\ v.rest \in Seq(Names)
      BY DEF Visit
    <2>2. CASE v.dir = None
      BY <2>1, <2>2 DEF Visit
    <2>3. CASE v.dir # None
      BY <2>1, <2>3 DEF Visit, Located, InTree, Entered
    <2>4. QED
      BY <2>1, <2>2, <2>3
  <1>4. h[v.ino].kind = "dir"
    BY <1>1, <1>2, <1>3
  <1>5. m \in Names /\ i \in Inodes \union {None} /\ e \in Inodes \union {None}
    <2>1. m \in Names
      BY <1>3
    <2>2. IsNode(f[v.ino]) /\ IsNode(h[v.ino])
      BY <1>3 DEF Sound, FsType
    <2>3. QED
      BY <1>4, <2>1, <2>2, NodeKinds
  <1>6. ASSUME i # None PROVE i # u /\ h[i].kind = f[i].kind /\ (f[i].kind # "dir" => h[i] = f[i])
    <2>1. Entered(f, v.ino, m, i) /\ i \in Inodes
      BY <1>3, <1>5, <1>6 DEF Entered, Is
    <2>2. InTree(f, i) /\ i # u
      BY <1>1, <1>3, <1>5, <2>1 DEF InTree, Sound
    <2>3. i # w.dir => h[i] = f[i]
      BY <1>2, <2>1, <2>2
    <2>4. QED
      BY <1>1, <2>2, <2>3
  <1>7. ASSUME v.ino = w.dir, m = w.name PROVE i = None /\ e = u
    <2>1. Entered(h, w.dir, m, u)
      BY <1>1, <1>5, <1>7 DEF Joined
    <2>2. QED
      BY <1>1, <1>7, <2>1 DEF Entered
  <1>8. ASSUME v.ino = w.dir, m # w.name PROVE e = i
    <2>1. \A x \in Inodes : e = x <=> i = x
      <3>1. ASSUME NEW x \in Inodes PROVE e = x <=> i = x
        <4>1. Entered(h, w.dir, m, x) <=> Entered(f, w.dir, m, x)
          BY <1>5, <1>8, <3>1 DEF Joined
        <4>2. Entered(h, w.dir, m, x) <=> e = x
          BY <1>1, <1>8, Constants DEF Entered, Is
        <4>3. Entered(f, w.dir, m, x) <=> i = x
          BY <1>1, <1>8, Constants DEF Entered, Is
        <4>4. QED
          BY <4>1, <4>2, <4>3
      <3>2. QED
        BY <3>1
    <2>2. QED
      BY <1>5, <2>1, Constants
  <1>9. ASSUME v.ino # w.dir PROVE e = i
    BY <1>2, <1>3, <1>9
  <1>10. QED
    BY <1>3, <1>4, <1>5, <1>6, <1>7, <1>8, <1>9 DEF Met

\* A path that led to the free place leads through it: after as many steps as before, the walk
\* goes on from the new entry.
LEMMA ThroughPlace ==
    ASSUME NEW f, Sound(f), NEW h, Sound(h), NEW w, NEW u, Joined(f, h, w, u),
           NEW p \in Seq(Names), NEW no, ~no, NEW yes, w = Walk(f, p, no),
           NEW d, \A n \in 1..Hops : d[n] = Along(h, d[n - 1], yes),
           \A v : v.ino = w.dir /\ v.rest # <<>> /\ Head(v.rest) = w.name /\ Tail(v.rest) = <<>> =>
                     Along(h, v, yes) = d[0]
    PROVE  \E m \in 0..(Hops - 1) : Hopped(h, p, yes) = d[m]
  <1>1. PICK a : Goes(a, f, p, no)
    BY WalkGoes
  <1>2. PICK c : Goes(c, h, p, yes)
    BY WalkGoes
  <1>3. w.rest = <<>> /\ w.dir \in Inodes /\ w.dir # None /\ w # Nowhere /\ w.ino = None
    BY WalkType, StartIs, Constants DEF Located, Joined
  <1> DEFINE Matched(n, v, z) ==
                \/ v.rest # <<>> /\ v.ino # None /\ Visit(f, no, v) /\ z = v
                \/ v = w /\ \E m \in 0..(n - 1) : z = d[m]
                \/ v # w /\ (v.rest = <<>> \/ v.ino = None)
  <1> DEFINE S == {n \in 0..Hops : Matched(n, a[n], c[n])}
  <1>a. ASSUME NEW x, Visit(f, no, x), x.ino # None, NEW y, y = x
        PROVE  \/ x.rest # <<>> /\ x.ino # None /\ Visit(f, no, x) /\ y = x
               \/ x # w /\ (x.rest = <<>> \/ x.ino = None)
    BY <1>3, <1>a
  <1>4. 0 \in S
    <2>1. Visit(f, no, Start(p))
      BY VisitStart
    <2>a. Start(p).ino # None
      BY StartIs, Constants
    <2>2. a[0] = Start(p) /\ c[0] = Start(p)
      BY <1>1, <1>2 DEF Goes
    <2>3. Matched(0, a[0], c[0])
      BY <1>a, <2>1, <2>a, <2>2
    <2>4. QED
      BY <2>3 DEF Hops
  <1>5. ASSUME NEW n \in 1..Hops, n - 1 \in S PROVE n \in S
    <2>1. PICK v, z, x, y : v = a[n - 1] /\ z = c[n - 1] /\ x = a[n] /\ y = c[n]
      OBVIOUS
    <2>2. x = Along(f, v, no) /\ y = Along(h, z, yes)
      BY <1>1, <1>2, <2>1 DEF Goes
    <2>3. Matched(n - 1, v, z) /\ n \in 1..8
      BY <1>5, <2>1 DEF Hops
    <2>4. Matched(n, x, y)
      <3>1. CASE v # w /\ (v.rest = <<>> \/ v.ino = None)
        <4>1. (x = v /\ v.rest = <<>>) \/ x = Nowhere
          BY <2>2, <3>1, Rests
        <4>2. QED
          BY <1>3, <3>1, <4>1, StartIs
      <3>2. CASE v = w /\ \E m \in 0..(n - 2) : z = d[m]
        <4>1. x = v
          BY <1>3, <2>2, <3>2, Rests
        <4>2. PICK m \in 0..(n - 2) : z = d[m]
          BY <3>2
        <4>3. m + 1 \in 1..Hops /\ m + 1 \in 0..(n - 1) /\ m = (m + 1) - 1
          BY <2>3, <4>2 DEF Hops
        <4>4. d[m + 1] = Along(h, d[m], yes)
          BY <4>3
        <4>5. y = d[m + 1]
          BY <2>2, <4>2, <4>4
        <4>6. QED
          BY <3>2, <4>1, <4>3, <4>5
      <3>3. CASE v.rest # <<>> /\ v.ino # None /\ Visit(f, no, v) /\ z = v /\ f[v.ino].kind # "dir"
        <4>1. x = Nowhere
          BY <2>2, <3>3, Rests
        <4>2. QED
          BY <1>3, <4>1, StartIs
      <3>4. CASE v.rest # <<>> /\ v.ino # None /\ Visit(f, no, v) /\ z = v /\ f[v.ino].kind = "dir"
        <4>1. PICK m, i, e : m = Head(v.rest) /\ i = f[v.ino].has[m] /\ e = h[v.ino].has[m]
          OBVIOUS
        <4>2. /\ v.ino \in Inodes /\ v.rest \in Seq(Names) /\ h[v.ino].kind = "dir" /\ m \in Names
              /\ i # None => i # u /\ h[i].kind = f[i].kind /\ (f[i].kind # "dir" => h[i] = f[i])
              /\ v.ino = w.dir /\ m = w.name => i = None /\ e = u
              /\ v.ino # w.dir \/ m # w.name => e = i
          <5>1. Met(f, h, w, u, v, m, i, e)
            BY <3>4, <4>1, EntryKept
          <5>2. QED
            BY <5>1 DEF Met
        <4>3. Visit(f, no, x)
          BY <2>2, <3>4, VisitAlong
        <4>4. CASE Jumps(f, v, no, i)
          <5>1. i # None /\ f[i].kind = "link"
            BY <4>4 DEF Jumps
          <5>2. h[i] = f[i] /\ e = i
            BY <4>2, <5>1
          <5>3. Jumps(h, v, yes, e)
            BY <4>4, <5>2 DEF Jumps
          <5>4. x = Start(f[i].to \o Tail(v.rest))
            <6>1. v.rest # <<>> /\ v.ino # None /\ f[v.ino].kind = "dir"
              BY <3>4
            <6>2. i = f[v.ino].has[Head(v.rest)]
              BY <4>1
            <6>3. Along(f, v, no) = Start(f[i].to \o Tail(v.rest))
              BY <4>4, <6>1, <6>2, Jump, SMTT(60)
            <6>4. QED
              BY <2>2, <6>3
          <5>a. y = Along(h, v, yes) /\ v.rest # <<>> /\ v.ino # None /\ h[v.ino].kind = "dir" /\ e = h[v.ino].has[Head(v.rest)]
            BY <2>2, <3>4, <4>1, <4>2
          <5>5. y = Start(h[e].to \o Tail(v.rest))
            BY <5>a, <5>3, Jump
          <5>6. y = x /\ x.ino # None
            BY <5>2, <5>4, <5>5, StartIs, Constants
          <5>7. QED
            BY <1>a, <4>3, <5>6
        <4>5. CASE ~Jumps(f, v, no, i)
          <5>1. x = Place(v.ino, m, i, Tail(v.rest))
            BY <2>2, <3>4, <4>1, <4>5, Enter
          <5>2. x.dir = v.ino /\ x.name = m /\ x.ino = i /\ x.rest = Tail(v.rest)
            BY <5>1, PlaceIs
          <5>3. CASE i # None /\ Tail(v.rest) = <<>>
            BY <1>3, <5>2, <5>3
          <5>4. CASE i # None /\ Tail(v.rest) # <<>>
            <6>1. Len(v.rest) > 1
              <7>1. PICK r \in Seq(Names) : r = v.rest /\ r # <<>>
                BY <3>4, <4>2
              <7>2. PICK t \in Seq(Names) : t = Tail(r) /\ t # <<>>
                <8>1. Tail(r) \in Seq(Names)
                  BY <7>1
                <8>2. QED
                  BY <5>4, <7>1, <8>1
              <7>3. Len(t) \in Nat /\ Len(t) # 0 /\ Len(r) = Len(t) + 1
                BY <7>1, <7>2
              <7>4. QED
                BY <7>1, <7>3
            <6>2. e = i /\ ~Jumps(h, v, yes, e)
              BY <4>2, <4>5, <5>4, <6>1 DEF Jumps
            <6>a. y = Along(h, v, yes) /\ v.rest # <<>> /\ v.ino # None /\ h[v.ino].kind = "dir" /\ e = h[v.ino].has[Head(v.rest)]
              BY <2>2, <3>4, <4>1, <4>2
            <6>3. y = Place(v.ino, Head(v.rest), e, Tail(v.rest))
              BY <6>a, <6>2, Enter
            <6>4. y = x
              BY <4>1, <5>1, <6>2, <6>3
            <6>5. QED
              BY <1>a, <4>3, <5>2, <5>4, <6>4
          <5>5. CASE i = None /\ x # w
            BY <5>2, <5>5
          <5>6. CASE i = None /\ x = w
            <6>1. v.ino = w.dir /\ m = w.name /\ Tail(v.rest) = <<>>
              BY <1>3, <5>2, <5>6
            <6>2. y = d[0]
              BY <2>2, <3>4, <4>1, <6>1
            <6>3. 0 \in 0..(n - 1)
              BY <2>3
            <6>4. QED
              BY <5>6, <6>2, <6>3
          <5>7. QED
            BY <5>3, <5>4, <5>5, <5>6
        <4>6. QED
          BY <4>4, <4>5
      <3>5. (n - 1) - 1 = n - 2
        BY <2>3
      <3>6. QED
        BY <2>3, <3>1, <3>2, <3>3, <3>4, <3>5
    <2>5. QED
      BY <2>1, <2>4 DEF Hops
  <1>6. Hops \in S
    <2> HIDE DEF S
    <2>1. QED
      BY <1>4, <1>5, Hopping
  <1>7. PICK v, z : v = a[Hops] /\ z = c[Hops]
    OBVIOUS
  <1>8. w = (IF v.rest = <<>> THEN v ELSE Nowhere) /\ Hopped(h, p, yes) = z
    BY <1>1, <1>2, <1>7 DEF Goes
  <1>9. Matched(Hops, v, z)
    BY <1>6, <1>7
  <1>10. v = w
    BY <1>3, <1>8
  <1>11. QED
    BY <1>3, <1>8, <1>9, <1>10

\* A path that led to a free place leads to the directory that is made there, whether links
\* are followed or not.
LEMMA MadeThere ==
    ASSUME NEW f, Sound(f), NEW h, Sound(h), NEW w, NEW u, Joined(f, h, w, u), h[u].kind = "dir",
           NEW p \in Seq(Names), NEW no, ~no, NEW yes, w = Walk(f, p, no)
    PROVE  Walk(h, p, yes).ino = u
  <1>1. PICK x : x = Place(w.dir, w.name, u, <<>>) /\ x.ino = u /\ x.rest = <<>>
    BY PlaceIs
  <1>2. PICK d : d = [n \in 0..Hops |-> x]
    OBVIOUS
  <1>3. \A n \in 0..Hops : d[n] = x
    BY <1>2
  <1>4. \A n \in 1..Hops : d[n] = Along(h, d[n - 1], yes)
    <2>1. Along(h, x, yes) = x
      BY <1>1, Rests
    <2>2. \A n \in 1..Hops : n - 1 \in 0..Hops /\ n \in 0..Hops
      BY DEF Hops
    <2>3. QED
      BY <1>3, <2>1, <2>2
  <1>5. h[w.dir].kind = "dir" /\ h[w.dir].has[w.name] = u /\ w.dir # None /\ u # None
    <2>1. w.dir \in Inodes /\ w.name \in Names /\ u \in Inodes /\ h[w.dir].kind = "dir"
      BY DEF Joined, Located
    <2>2. Entered(h, w.dir, w.name, u)
      BY <2>1 DEF Joined
    <2>3. QED
      BY <2>1, <2>2, Constants DEF Entered
  <1>6. ASSUME NEW v, v.ino = w.dir, v.rest # <<>>, Head(v.rest) = w.name, Tail(v.rest) = <<>>
        PROVE  Along(h, v, yes) = d[0]
    <2>1. ~Jumps(h, v, yes, u)
      BY DEF Jumps
    <2>2. Along(h, v, yes) = Place(v.ino, Head(v.rest), u, Tail(v.rest))
      BY <1>5, <1>6, <2>1, Enter
    <2>3. d[0] = x
      BY <1>3 DEF Hops
    <2>4. Along(h, v, yes) = x
      BY <1>1, <1>6, <2>2
    <2>5. QED
      BY <2>3, <2>4
  <1>7. PICK m \in 0..(Hops - 1) : Hopped(h, p, yes) = d[m]
    BY <1>4, <1>6, ThroughPlace
  <1>8. Hopped(h, p, yes) = x
    BY <1>3, <1>7 DEF Hops
  <1>9. PICK c : Goes(c, h, p, yes)
    BY WalkGoes
  <1>10. PICK y : y = Hopped(h, p, yes) /\ Walk(h, p, yes) = IF y.rest = <<>> THEN y ELSE Nowhere
    BY <1>9 DEF Goes
  <1>11. QED
    BY <1>1, <1>5, <1>8, <1>10

\* A path with another behind it.
LEMMA Joining ==
    ASSUME NEW r \in Seq(Names), r # <<>>, NEW t \in Seq(Names)
    PROVE  /\ r \o t \in Seq(Names) /\ r \o t # <<>> /\ Head(r \o t) = Head(r)
           /\ Tail(r) \in Seq(Names) /\ Tail(r \o t) = Tail(r) \o t
  <1>1. PICK n \in Nat, l \in Nat : n = Len(r) /\ l = Len(t) /\ n # 0
    BY LenProperties, EmptySeq
  <1>a. /\ Tail(r) \in Seq(Names) /\ Len(Tail(r)) = Len(r) - 1
        /\ \A i \in 1..Len(Tail(r)) : Tail(r)[i] = r[i + 1]
    BY HeadTailProperties
  <1>2. PICK a : a = Tail(r) /\ a \in Seq(Names) /\ Len(a) = n - 1 /\ \A i \in 1..(n - 1) : a[i] = r[i + 1]
    BY <1>1, <1>a
  <1>b. /\ r \o t \in Seq(Names) /\ Len(r \o t) = Len(r) + Len(t)
        /\ \A i \in 1..(Len(r) + Len(t)) : (r \o t)[i] = IF i <= Len(r) THEN r[i] ELSE t[i - Len(r)]
    BY ConcatProperties
  <1>3. PICK c : /\ c = r \o t /\ c \in Seq(Names) /\ Len(c) = n + l
                 /\ \A i \in 1..(n + l) : c[i] = IF i <= n THEN r[i] ELSE t[i - n]
    BY <1>1, <1>b
  <1>4. c # <<>> /\ Head(c) = Head(r)
    <2>1. c # <<>> /\ c[1] = r[1]
      BY <1>1, <1>3, EmptySeq
    <2>2. Head(c) = c[1] /\ Head(r) = r[1]
      BY <1>3, <2>1
    <2>3. QED
      BY <2>1, <2>2
  <1>c. /\ a \o t \in Seq(Names) /\ Len(a \o t) = Len(a) + Len(t)
        /\ \A i \in 1..(Len(a) + Len(t)) : (a \o t)[i] = IF i <= Len(a) THEN a[i] ELSE t[i - Len(a)]
    <2>1. a \in Seq(Names)
      BY <1>2
    <2>2. QED
      BY <2>1, ConcatProperties
  <1>e. PICK b : b = a \o t
    OBVIOUS
  <1>5. /\ b \in Seq(Names) /\ Len(b) = (n - 1) + l
        /\ \A i \in 1..((n - 1) + l) : b[i] = IF i <= n - 1 THEN a[i] ELSE t[i - (n - 1)]
    <2>1. Len(a) = n - 1 /\ Len(t) = l
      BY <1>1, <1>2
    <2>2. QED
      BY <1>c, <1>e, <2>1
  <1>d. /\ Tail(c) \in Seq(Names) /\ Len(Tail(c)) = Len(c) - 1
        /\ \A i \in 1..Len(Tail(c)) : Tail(c)[i] = c[i + 1]
    <2>1. c \in Seq(Names) /\ c # <<>>
      BY <1>3, <1>4
    <2>2. QED
      BY <2>1, HeadTailProperties
  <1>f. PICK d : d = Tail(c)
    OBVIOUS
  <1>6. /\ d \in Seq(Names) /\ Len(d) = (n + l) - 1
        /\ \A i \in 1..((n + l) - 1) : d[i] = c[i + 1]
    <2>1. Len(c) = n + l
      BY <1>3
    <2>2. QED
      BY <1>d, <1>f, <2>1
  <1>7. ASSUME NEW i \in 1..Len(b) PROVE b[i] = d[i]
    <2>1. /\ i \in 1..((n - 1) + l) /\ i \in 1..((n + l) - 1) /\ i + 1 \in 1..(n + l)
          /\ (i + 1) - n = i - (n - 1) /\ (i <= n - 1 <=> i + 1 <= n)
          /\ (i <= n - 1 => i \in 1..(n - 1))
      BY <1>1, <1>5
    <2>2. d[i] = c[i + 1] /\ c[i + 1] = IF i + 1 <= n THEN r[i + 1] ELSE t[(i + 1) - n]
      BY <1>3, <1>6, <2>1
    <2>3. b[i] = IF i <= n - 1 THEN a[i] ELSE t[i - (n - 1)]
      BY <1>5, <2>1
    <2>4. QED
      BY <1>2, <2>1, <2>2, <2>3
  <1>8. Len(b) = Len(d)
    BY <1>1, <1>5, <1>6
  <1>9. b = d
    BY <1>5, <1>6, <1>7, <1>8, SeqEqual
  <1>10. QED
    BY <1>2, <1>3, <1>4, <1>e, <1>f, <1>9

LEMMA Associating ==
    ASSUME NEW a \in Seq(Names), NEW b \in Seq(Names), NEW t \in Seq(Names)
    PROVE  a \o (b \o t) = (a \o b) \o t
  BY ConcatAssociative

\* h is f with a new link to p.
WithLink(f, h, w, u, p) ==
    Sound(f) /\ Sound(h) /\ Joined(f, h, w, u) /\ h[u].kind = "link" /\ h[u].to = p

\* Links are followed.
Following(yes) == yes = TRUE

\* What is ahead of a walk, in f and in h.
LEMMA Ahead ==
    ASSUME NEW f, NEW h, NEW w, NEW u, NEW p, WithLink(f, h, w, u, p), NEW yes,
           NEW v, Visit(f, yes, v), v.ino # None, v.rest # <<>>, f[v.ino].kind = "dir"
    PROVE  \E m, i, e :
              /\ m = Head(v.rest) /\ i = f[v.ino].has[m] /\ e = h[v.ino].has[m]
              /\ v.ino \in Inodes /\ h[v.ino].kind = "dir" /\ m \in Names
              /\ i # None => i # u /\ h[i].kind = f[i].kind /\ (f[i].kind # "dir" => h[i] = f[i])
              /\ v.ino = w.dir /\ m = w.name => i = None /\ e = u
              /\ v.ino # w.dir \/ m # w.name => e = i
  <1>1. PICK m, i, e : m = Head(v.rest) /\ i = f[v.ino].has[m] /\ e = h[v.ino].has[m]
    OBVIOUS
  <1>2. Sound(f) /\ Sound(h) /\ Joined(f, h, w, u)
    BY DEF WithLink
  <1>3. /\ v.ino \in Inodes /\ h[v.ino].kind = "dir" /\ m \in Names
        /\ i # None => i # u /\ h[i].kind = f[i].kind /\ (f[i].kind # "dir" => h[i] = f[i])
        /\ v.ino = w.dir /\ m = w.name => i = None /\ e = u
        /\ v.ino # w.dir \/ m # w.name => e = i
    <2>1. Met(f, h, w, u, v, m, i, e)
      BY <1>1, <1>2, EntryKept
    <2>2. QED
      BY <2>1 DEF Met
  <1>4. QED
    BY <1>1, <1>3

\* z is where v is, with t behind its rest.
Behind(z, v, t) == z.ino = v.ino /\ z.rest = v.rest \o t

\* Two walks along the same names, in f and in h, of which the second has t behind the first's:
\* they take the same step, but where the new link is.
LEMMA StepBehind ==
    ASSUME NEW f, NEW h, NEW w, NEW u, NEW p \in Seq(Names), WithLink(f, h, w, u, p), NEW yes, Following(yes),
           NEW v, Visit(f, yes, v), v.ino # None, v.rest # <<>>, NEW t \in Seq(Names),
           NEW z, Behind(z, v, t),
           NEW x, x = Along(f, v, yes), NEW y, y = Along(h, z, yes)
    PROVE  /\ v.ino = w.dir /\ Head(v.rest) = w.name => x.ino = None /\ y = Start(p \o (Tail(v.rest) \o t))
           /\ x.ino # None => Behind(y, x, t)
  <1>0. z.ino = v.ino /\ z.rest = v.rest \o t
    BY DEF Behind
  <1>1. /\ Sound(f) /\ Sound(h) /\ Joined(f, h, w, u) /\ h[u].kind = "link" /\ h[u].to = p
        /\ u # None /\ w.dir \in Inodes /\ f[w.dir].kind = "dir"
    BY Constants DEF WithLink, Joined, Located, Is
  <1>2. v.rest \in Seq(Names)
    BY DEF Visit
  <1>3. /\ z.rest # <<>> /\ Head(z.rest) = Head(v.rest) /\ Tail(z.rest) = Tail(v.rest) \o t
        /\ Tail(v.rest) \in Seq(Names)
    BY <1>0, <1>2, Joining
  <1>4. CASE f[v.ino].kind # "dir"
    <2>1. x = Nowhere
      BY <1>4, Rests
    <2>2. x.ino = None /\ v.ino # w.dir
      BY <1>1, <1>4, <2>1, StartIs
    <2>3. QED
      BY <2>2
  <1>5. CASE f[v.ino].kind = "dir"
    <2>a. PICK m, i, e :
             /\ m = Head(v.rest) /\ i = f[v.ino].has[m] /\ e = h[v.ino].has[m]
             /\ v.ino \in Inodes /\ h[v.ino].kind = "dir" /\ m \in Names
             /\ i # None => i # u /\ h[i].kind = f[i].kind /\ (f[i].kind # "dir" => h[i] = f[i])
             /\ v.ino = w.dir /\ m = w.name => i = None /\ e = u
             /\ v.ino # w.dir \/ m # w.name => e = i
      BY <1>5, Ahead
    <2>1. m = Head(v.rest) /\ i = f[v.ino].has[m] /\ e = h[v.ino].has[m]
      BY <2>a
    <2>2. /\ v.ino \in Inodes /\ h[v.ino].kind = "dir" /\ m \in Names
          /\ i # None => i # u /\ h[i].kind = f[i].kind /\ (f[i].kind # "dir" => h[i] = f[i])
          /\ v.ino = w.dir /\ m = w.name => i = None /\ e = u
          /\ v.ino # w.dir \/ m # w.name => e = i
      BY <2>a
    <2>3. /\ z.rest # <<>> /\ z.ino # None /\ h[z.ino].kind = "dir" /\ e = h[z.ino].has[Head(z.rest)]
          /\ Tail(z.rest) = Tail(v.rest) \o t
      BY <1>0, <1>3, <2>1, <2>2
    <2>4. ASSUME v.ino = w.dir, m = w.name PROVE x.ino = None /\ y = Start(p \o (Tail(v.rest) \o t))
      <3>1. i = None /\ e = u
        BY <2>2, <2>4
      <3>2. ~Jumps(f, v, yes, i) /\ Jumps(h, z, yes, e)
        BY <1>1, <3>1 DEF Jumps, Following
      <3>3. x = Place(v.ino, m, i, Tail(v.rest))
        BY <1>5, <2>1, <3>2, Enter
      <3>4. y = Start(h[e].to \o Tail(z.rest))
        BY <2>3, <3>2, Jump
      <3>5. QED
        <4>1. x.ino = i
          BY <3>3, PlaceIs
        <4>2. h[e].to = p
          BY <1>1, <3>1
        <4>3. y = Start(p \o Tail(z.rest))
          BY <3>4, <4>2
        <4>4. Tail(z.rest) = Tail(v.rest) \o t
          BY <2>3
        <4>5. y = Start(p \o (Tail(v.rest) \o t))
          BY <4>3, <4>4
        <4>6. QED
          BY <3>1, <4>1, <4>5
    <2>5. ASSUME x.ino # None PROVE Behind(y, x, t)
      <3>2. e = i
        BY <2>2, <2>4, <2>5
      <3>3. CASE Jumps(f, v, yes, i)
        <4>1. i # None /\ f[i].kind = "link"
          BY <3>3 DEF Jumps, Following
        <4>2. h[e] = f[i]
          BY <2>2, <3>2, <4>1
        <4>3. Jumps(h, z, yes, e)
          BY <3>2, <4>1, <4>2 DEF Jumps, Following
        <4>4. x = Start(f[i].to \o Tail(v.rest))
          BY <1>5, <2>1, <3>3, Jump
        <4>5. y = Start(h[e].to \o Tail(z.rest))
          BY <2>3, <4>3, Jump
        <4>6. f[i].to \in Seq(Names)
          <5>1. IsNode(f[v.ino]) /\ i \in Inodes
            <6>1. IsNode(f[v.ino])
              BY <1>1, <2>2 DEF Sound, FsType
            <6>2. QED
              BY <1>5, <2>1, <2>2, <4>1, <6>1, NodeKinds
          <5>2. IsNode(f[i])
            BY <1>1, <5>1 DEF Sound, FsType
          <5>3. QED
            BY <4>1, <5>2, NodeKinds
        <4>7. f[i].to \o (Tail(v.rest) \o t) = (f[i].to \o Tail(v.rest)) \o t
          <5>1. PICK a \in Seq(Names), b \in Seq(Names) : a = f[i].to /\ b = Tail(v.rest)
            BY <1>3, <4>6
          <5>2. a \o (b \o t) = (a \o b) \o t
            BY Associating
          <5>3. QED
            BY <5>1, <5>2
        <4>8. x.ino = Root /\ x.rest = f[i].to \o Tail(v.rest)
          BY <4>4, StartIs
        <4>9. y.ino = Root /\ y.rest = h[e].to \o Tail(z.rest)
          BY <4>5, StartIs
        <4>10. Tail(z.rest) = Tail(v.rest) \o t
          BY <2>3
        <4>11. y.rest = f[i].to \o (Tail(v.rest) \o t)
          BY <4>2, <4>9, <4>10
        <4>12. QED
          BY <4>7, <4>8, <4>9, <4>11 DEF Behind
      <3>4. CASE ~Jumps(f, v, yes, i)
        <4>1. x = Place(v.ino, m, i, Tail(v.rest))
          BY <1>5, <2>1, <3>4, Enter
        <4>2. x.ino = i /\ x.rest = Tail(v.rest)
          BY <4>1, PlaceIs
        <4>3. ~Jumps(h, z, yes, e)
          BY <2>2, <2>5, <3>2, <3>4, <4>2 DEF Jumps, Following
        <4>4. y = Place(z.ino, Head(z.rest), e, Tail(z.rest))
          BY <2>3, <4>3, Enter
        <4>5. QED
          <5>a. PICK d, n, r : d = z.ino /\ n = Head(z.rest) /\ r = Tail(z.rest)
            OBVIOUS
          <5>b. y = Place(d, n, e, r)
            BY <4>4, <5>a
          <5>c. y.ino = e /\ y.rest = r
            BY <5>b, PlaceIs
          <5>1. y.ino = e /\ y.rest = Tail(z.rest)
            BY <5>a, <5>c
          <5>2. Tail(z.rest) = Tail(v.rest) \o t
            BY <2>3
          <5>3. QED
            BY <3>2, <4>2, <5>1, <5>2 DEF Behind
      <3>5. QED
        BY <3>3, <3>4
    <2>6. QED
      BY <2>1, <2>4, <2>5
  <1>6. QED
    BY <1>4, <1>5

\* The same, side by side.
LEMMA StepBeside ==
    ASSUME NEW f, NEW h, NEW w, NEW u, NEW p \in Seq(Names), WithLink(f, h, w, u, p), NEW yes, Following(yes),
           NEW v, Visit(f, yes, v), v.ino # None, v.rest # <<>>,
           NEW x, x = Along(f, v, yes), NEW y, y = Along(h, v, yes)
    PROVE  \/ y = x
           \/ /\ v.ino = w.dir /\ Head(v.rest) = w.name /\ x.ino = None
              /\ Tail(v.rest) \in Seq(Names) /\ y = Start(p \o Tail(v.rest))
  <1>1. /\ Sound(f) /\ Sound(h) /\ Joined(f, h, w, u) /\ h[u].kind = "link" /\ h[u].to = p
        /\ u # None /\ w.dir \in Inodes /\ f[w.dir].kind = "dir"
    BY Constants DEF WithLink, Joined, Located, Is
  <1>2. v.rest \in Seq(Names) /\ Tail(v.rest) \in Seq(Names)
    BY DEF Visit
  <1>4. CASE f[v.ino].kind # "dir"
    <2>1. h[v.ino].kind # "dir"
      <3>1. v.ino \in Inodes
        BY DEF Visit
      <3>2. v.ino = Root \/ InTree(f, v.ino)
        BY <3>1 DEF Visit, Located, InTree, Entered
      <3>3. v.ino # w.dir
        BY <1>1, <1>4
      <3>4. QED
        BY <1>1, <1>4, <3>1, <3>2, <3>3 DEF Joined
    <2>2. x = Nowhere /\ y = Nowhere
      BY <1>4, <2>1, Rests
    <2>3. QED
      BY <2>2
  <1>5. CASE f[v.ino].kind = "dir"
    <2>a. PICK m, i, e :
             /\ m = Head(v.rest) /\ i = f[v.ino].has[m] /\ e = h[v.ino].has[m]
             /\ v.ino \in Inodes /\ h[v.ino].kind = "dir" /\ m \in Names
             /\ i # None => i # u /\ h[i].kind = f[i].kind /\ (f[i].kind # "dir" => h[i] = f[i])
             /\ v.ino = w.dir /\ m = w.name => i = None /\ e = u
             /\ v.ino # w.dir \/ m # w.name => e = i
      BY <1>5, Ahead
    <2>1. m = Head(v.rest) /\ i = f[v.ino].has[m] /\ e = h[v.ino].has[m]
      BY <2>a
    <2>2. /\ v.ino \in Inodes /\ h[v.ino].kind = "dir" /\ m \in Names
          /\ i # None => i # u /\ h[i].kind = f[i].kind /\ (f[i].kind # "dir" => h[i] = f[i])
          /\ v.ino = w.dir /\ m = w.name => i = None /\ e = u
          /\ v.ino # w.dir \/ m # w.name => e = i
      BY <2>a
    <2>3. e = h[v.ino].has[Head(v.rest)]
      BY <2>1
    <2>4. CASE v.ino = w.dir /\ m = w.name
      <3>1. i = None /\ e = u
        BY <2>2, <2>4
      <3>2. ~Jumps(f, v, yes, i) /\ Jumps(h, v, yes, e)
        BY <1>1, <3>1 DEF Jumps, Following
      <3>3. x = Place(v.ino, m, i, Tail(v.rest))
        BY <1>5, <2>1, <3>2, Enter
      <3>4. y = Start(h[e].to \o Tail(v.rest))
        BY <2>2, <2>3, <3>2, Jump
      <3>5. QED
        <4>1. x.ino = i
          BY <3>3, PlaceIs
        <4>2. h[e].to = p
          BY <1>1, <3>1
        <4>3. y = Start(p \o Tail(v.rest))
          BY <3>4, <4>2
        <4>4. QED
          BY <1>2, <2>1, <2>4, <3>1, <4>1, <4>3
    <2>5. CASE ~(v.ino = w.dir /\ m = w.name)
      <3>1. e = i
        BY <2>2, <2>5
      <3>2. CASE Jumps(f, v, yes, i)
        <4>1. i # None /\ f[i].kind = "link"
          BY <3>2 DEF Jumps, Following
        <4>2. h[e] = f[i]
          BY <2>2, <3>1, <4>1
        <4>3. Jumps(h, v, yes, e)
          BY <3>1, <4>1, <4>2 DEF Jumps, Following
        <4>4. x = Start(f[i].to \o Tail(v.rest))
          BY <1>5, <2>1, <3>2, Jump
        <4>5. y = Start(h[e].to \o Tail(v.rest))
          BY <2>2, <2>3, <4>3, Jump
        <4>6. QED
          BY <4>2, <4>4, <4>5
      <3>3. CASE ~Jumps(f, v, yes, i)
        <4>1. x = Place(v.ino, Head(v.rest), i, Tail(v.rest))
          BY <1>5, <2>1, <3>3, Enter
        <4>2. ~Jumps(h, v, yes, e)
          BY <2>2, <3>1, <3>3 DEF Jumps, Following
        <4>3. y = Place(v.ino, Head(v.rest), e, Tail(v.rest))
          BY <2>2, <2>3, <4>2, Enter
        <4>4. QED
          BY <3>1, <4>1, <4>3
      <3>4. QED
        BY <3>2, <3>3
    <2>6. QED
      BY <2>4, <2>5
  <1>6. QED
    BY <1>4, <1>5

\* What is on a walk's way: it goes on from there.
Under(w) == w.rest # <<>> /\ w.ino # None

\* How the walks d in h and e in f along the same path compare after n steps: they are at the
\* same place, and both have come to an end or are both under way; or the second has met the
\* free place where the link is now, and the first goes round and round.
Together(f, yes, place, d, e, n) ==
    /\ Visit(f, yes, e[n])
    /\ \A i \in 0..n : e[i].rest = <<>> => e[n] = e[i]
    /\ \/ d[n] = e[n] /\ (e[n].rest = <<>> \/ e[n].ino = None)
       \/ d[n] = e[n] /\ \A i \in 0..n : Under(e[i])
       \/ /\ e[n].ino = None
          /\ \E k \in 0..(n - 1) :
                /\ \A i \in 0..k : Under(e[i])
                /\ e[k].ino = place.dir /\ Head(e[k].rest) = place.name
                /\ \E i \in 0..k, t \in Seq(Names) : d[n].ino = e[i].ino /\ d[n].rest = e[i].rest \o t

\* After one more step they still compare like that.
LEMMA TogetherOn ==
    ASSUME NEW f, NEW h, NEW w, NEW u, NEW p \in Seq(Names), WithLink(f, h, w, u, p), NEW yes, Following(yes),
           NEW d, Goes(d, h, p, yes), NEW e, Goes(e, f, p, yes), NEW n \in 1..Hops,
           \A m \in 0..(n - 1) : Together(f, yes, w, d, e, m)
    PROVE  Together(f, yes, w, d, e, n)
  <1>1. PICK v, z, x, y : v = e[n - 1] /\ z = d[n - 1] /\ x = e[n] /\ y = d[n]
    OBVIOUS
  <1>2. /\ x = Along(f, v, yes) /\ y = Along(h, z, yes) /\ e[0] = Start(p)
        /\ \A m \in 1..Hops : e[m] = Along(f, e[m - 1], yes)
    BY <1>1 DEF Goes
  <1>a. x = Along(f, v, yes)
    BY <1>2
  <1>b. y = Along(h, z, yes)
    BY <1>2
  <1>3. n \in 1..8 /\ n - 1 \in 0..(n - 1) /\ Hops = 8 /\ 0..n = 0..(n - 1) \union {n}
    BY DEF Hops
  <1>4. Together(f, yes, w, d, e, n - 1)
    BY <1>3
  <1>5. Visit(f, yes, v)
    BY <1>1, <1>4 DEF Together
  <1>6. Visit(f, yes, x)
    BY <1>a, <1>5, VisitAlong DEF WithLink
  <1>7. \A i \in 0..n : e[i].rest = <<>> => x = e[i]
    <2>1. \A i \in 0..(n - 1) : e[i].rest = <<>> => v = e[i]
      BY <1>1, <1>4 DEF Together
    <2>2. v.rest = <<>> => x = v
      BY <1>a, Rests
    <2>3. \A i \in 0..(n - 1) : e[i].rest = <<>> => x = e[i]
      BY <2>1, <2>2
    <2>4. QED
      BY <1>1, <1>3, <2>3
  <1>8. CASE z = v /\ (v.rest = <<>> \/ v.ino = None)
    <2>1. CASE v.rest = <<>>
      <3>a. x = v
        BY <1>a, <2>1, Rests
      <3>b. y = Along(h, v, yes)
        BY <1>b, <1>8
      <3>1. x = v /\ y = v
        BY <3>a, <3>b, <2>1, Rests
      <3>2. QED
        BY <1>1, <1>6, <1>7, <2>1, <3>1 DEF Together
    <2>2. CASE v.rest # <<>> /\ v.ino = None
      <3>a. x = Nowhere
        BY <1>a, <2>2, Rests
      <3>b. y = Along(h, v, yes)
        BY <1>b, <1>8
      <3>1. x = Nowhere /\ y = Nowhere
        BY <3>a, <3>b, <2>2, Rests
      <3>2. x.rest = <<>>
        BY <3>1, StartIs
      <3>3. QED
        BY <1>1, <1>6, <1>7, <3>1, <3>2 DEF Together
    <2>3. QED
      BY <1>8, <2>1, <2>2
  <1>9. CASE z = v /\ \A i \in 0..(n - 1) : Under(e[i])
    <2>1. v.rest # <<>> /\ v.ino # None
      BY <1>1, <1>3, <1>9 DEF Under
    <2>2. y = Along(h, v, yes)
      BY <1>b, <1>9
    <2>3. \/ y = x
          \/ /\ v.ino = w.dir /\ Head(v.rest) = w.name /\ x.ino = None
             /\ Tail(v.rest) \in Seq(Names) /\ y = Start(p \o Tail(v.rest))
      BY <1>a, <1>5, <2>1, <2>2, StepBeside
    <2>4. CASE y = x /\ (x.rest = <<>> \/ x.ino = None)
      BY <1>1, <1>6, <1>7, <2>4 DEF Together
    <2>5. CASE y = x /\ x.rest # <<>> /\ x.ino # None
      <3>1. \A i \in 0..n : Under(e[i])
        BY <1>1, <1>3, <1>9, <2>5 DEF Under
      <3>2. QED
        BY <1>1, <1>6, <1>7, <2>5, <3>1 DEF Together
    <2>6. CASE /\ v.ino = w.dir /\ Head(v.rest) = w.name /\ x.ino = None
               /\ Tail(v.rest) \in Seq(Names) /\ y = Start(p \o Tail(v.rest))
      <3>1. y.ino = Root /\ y.rest = p \o Tail(v.rest)
        BY <2>6, StartIs
      <3>2. e[0].ino = Root /\ e[0].rest = p /\ 0 \in 0..(n - 1)
        BY <1>2, <1>3, StartIs
      <3>3. \E i \in 0..(n - 1), t \in Seq(Names) : y.ino = e[i].ino /\ y.rest = e[i].rest \o t
        BY <2>6, <3>1, <3>2
      <3>4. QED
        <4>1. \E k \in 0..(n - 1) :
                 /\ \A i \in 0..k : Under(e[i])
                 /\ e[k].ino = w.dir /\ Head(e[k].rest) = w.name
                 /\ \E i \in 0..k, t \in Seq(Names) : d[n].ino = e[i].ino /\ d[n].rest = e[i].rest \o t
          BY <1>1, <1>3, <1>9, <2>6, <3>3
        <4>2. Visit(f, yes, e[n]) /\ (\A i \in 0..n : e[i].rest = <<>> => e[n] = e[i]) /\ e[n].ino = None
          BY <1>1, <1>6, <1>7, <2>6
        <4>3. QED
          BY <4>1, <4>2 DEF Together
    <2>7. QED
      BY <2>3, <2>4, <2>5, <2>6
  <1>10. ASSUME v.ino = None, NEW k \in 0..(n - 2), \A i \in 0..k : Under(e[i]),
                e[k].ino = w.dir, Head(e[k].rest) = w.name,
                NEW i \in 0..k, NEW t \in Seq(Names), z.ino = e[i].ino, z.rest = e[i].rest \o t
         PROVE  Together(f, yes, w, d, e, n)
    <2>1. x.ino = None
      <3>1. x = v \/ x = Nowhere
        BY <1>a, <1>10, Rests
      <3>2. QED
        BY <1>10, <3>1, StartIs
    <2>2. k \in 0..(n - 1) /\ i \in 0..(n - 1) /\ i + 1 \in 1..Hops /\ (i + 1) - 1 = i /\ 0 \in 0..k
      BY <1>3, <1>10
    <2>3. PICK c, s : c = e[i] /\ s = e[i + 1]
      OBVIOUS
    <2>4. /\ c.rest # <<>> /\ c.ino # None /\ Visit(f, yes, c) /\ z.ino = c.ino /\ z.rest = c.rest \o t
          /\ s = Along(f, c, yes)
      <3>1. c.rest # <<>> /\ c.ino # None
        BY <1>10, <2>3 DEF Under
      <3>2. Visit(f, yes, c)
        BY <2>2, <2>3 DEF Together
      <3>3. QED
        BY <1>2, <1>10, <2>2, <2>3, <3>1, <3>2
    <2>5. /\ c.ino = w.dir /\ Head(c.rest) = w.name => y = Start(p \o (Tail(c.rest) \o t))
          /\ s.ino # None => y.ino = s.ino /\ y.rest = s.rest \o t
      <3>1. c.rest # <<>> /\ c.ino # None /\ Visit(f, yes, c) /\ s = Along(f, c, yes) /\ y = Along(h, z, yes)
        BY <1>b, <2>4
      <3>2. t \in Seq(Names) /\ Behind(z, c, t)
        BY <1>10, <2>4 DEF Behind
      <3>3. /\ c.ino = w.dir /\ Head(c.rest) = w.name => y = Start(p \o (Tail(c.rest) \o t))
            /\ s.ino # None => Behind(y, s, t)
        BY <3>1, <3>2, StepBehind
      <3>4. QED
        BY <3>3 DEF Behind
    <2>6. \E b \in 0..k, r \in Seq(Names) : y.ino = e[b].ino /\ y.rest = e[b].rest \o r
      <3>1. CASE i = k
        <4>1. y = Start(p \o (Tail(c.rest) \o t))
          BY <1>10, <2>3, <2>5, <3>1
        <4>2. PICK r \in Seq(Names) : r = Tail(c.rest) \o t
          <5>1. c.rest \in Seq(Names)
            BY <2>4 DEF Visit
          <5>2. Tail(c.rest) \in Seq(Names)
            BY <2>4, <5>1, Joining
          <5>3. QED
            BY <5>2, ConcatProperties
        <4>3. y.ino = Root /\ y.rest = p \o r
          BY <4>1, <4>2, StartIs
        <4>4. e[0].ino = Root /\ e[0].rest = p
          BY <1>2, StartIs
        <4>5. QED
          BY <2>2, <4>2, <4>3, <4>4
      <3>2. CASE i # k
        <4>1. i + 1 \in 0..k
          BY <1>3, <1>10, <3>2
        <4>2. s.ino # None
          BY <1>10, <2>3, <4>1 DEF Under
        <4>3. QED
          BY <2>3, <2>5, <4>1, <4>2
      <3>3. QED
        BY <3>1, <3>2
    <2>7. QED
      BY <1>1, <1>6, <1>7, <1>10, <2>1, <2>2, <2>6 DEF Together
  <1>11. (n - 1) - 1 = n - 2
    BY <1>3
  <1>12. \/ z = v /\ (v.rest = <<>> \/ v.ino = None)
         \/ z = v /\ \A i \in 0..(n - 1) : Under(e[i])
         \/ /\ v.ino = None
            /\ \E k \in 0..(n - 2) :
                  /\ \A i \in 0..k : Under(e[i])
                  /\ e[k].ino = w.dir /\ Head(e[k].rest) = w.name
                  /\ \E i \in 0..k, t \in Seq(Names) : z.ino = e[i].ino /\ z.rest = e[i].rest \o t
    BY <1>1, <1>4, <1>11 DEF Together
  <1>13. QED
    BY <1>8, <1>9, <1>10, <1>12

\* A new link leads where the path it was made for led, or it is given up.
LEMMA LinkLeads ==
    ASSUME NEW f, NEW h, NEW w, NEW u, NEW p \in Seq(Names), WithLink(f, h, w, u, p), NEW yes, Following(yes),
           NEW q \in Seq(Names), NEW no, ~no, w = Walk(f, q, no)
    PROVE  Walk(h, q, yes).ino = Walk(f, p, yes).ino \/ Hopped(h, q, yes).rest # <<>>
  <1>1. PICK d : Goes(d, h, p, yes)
    BY WalkGoes
  <1>2. PICK e : Goes(e, f, p, yes)
    BY WalkGoes
  <1>3. /\ Sound(f) /\ Sound(h) /\ Joined(f, h, w, u) /\ h[u].kind = "link" /\ h[u].to = p
        /\ u # None /\ w.dir # None /\ h[w.dir].kind = "dir" /\ h[w.dir].has[w.name] = u
    <2>1. /\ Sound(f) /\ Sound(h) /\ Joined(f, h, w, u) /\ h[u].kind = "link" /\ h[u].to = p
      BY DEF WithLink
    <2>2. w.dir \in Inodes /\ w.name \in Names /\ u \in Inodes /\ h[w.dir].kind = "dir"
      BY <2>1 DEF Joined, Located
    <2>3. Entered(h, w.dir, w.name, u)
      BY <2>1, <2>2 DEF Joined
    <2>4. QED
      BY <2>1, <2>2, <2>3, Constants DEF Entered
  <1>4. ASSUME NEW v, v.ino = w.dir, v.rest # <<>>, Head(v.rest) = w.name, Tail(v.rest) = <<>>
        PROVE  Along(h, v, yes) = d[0]
    <2>1. Jumps(h, v, yes, u)
      BY <1>3 DEF Jumps, Following
    <2>2. Along(h, v, yes) = Start(h[u].to \o Tail(v.rest))
      BY <1>3, <1>4, <2>1, Jump
    <2>3. h[u].to \o Tail(v.rest) = p
      BY <1>3, <1>4, ConcatEmptySeq
    <2>4. QED
      BY <1>1, <2>2, <2>3 DEF Goes
  <1>5. \A n \in 1..Hops : d[n] = Along(h, d[n - 1], yes)
    BY <1>1 DEF Goes
  <1>6. PICK m \in 0..(Hops - 1) : Hopped(h, q, yes) = d[m]
    <2>1. /\ Sound(f) /\ Sound(h) /\ Joined(f, h, w, u)
          /\ \A v : v.ino = w.dir /\ v.rest # <<>> /\ Head(v.rest) = w.name /\ Tail(v.rest) = <<>> =>
                      Along(h, v, yes) = d[0]
      BY <1>3, <1>4
    <2>2. QED
      BY <1>5, <2>1, ThroughPlace
  <1> DEFINE S == {n \in 0..Hops : \A b \in 0..n : Together(f, yes, w, d, e, b)}
  <1>7. 0 \in S
    <2>1. Visit(f, yes, Start(p)) /\ e[0] = Start(p) /\ d[0] = Start(p)
      BY <1>1, <1>2, <1>3, VisitStart DEF Goes
    <2>2. \A i \in 0..0 : i = 0
      OBVIOUS
    <2>3. Start(p).rest = <<>> \/ Under(Start(p))
      BY StartIs, Constants DEF Under
    <2>4. Together(f, yes, w, d, e, 0)
      BY <2>1, <2>2, <2>3 DEF Together
    <2>5. \A b \in 0..0 : Together(f, yes, w, d, e, b)
      BY <2>2, <2>4
    <2>6. 0 \in 0..Hops
      BY DEF Hops
    <2>7. QED
      BY <2>5, <2>6
  <1>8. ASSUME NEW n \in 1..Hops, n - 1 \in S PROVE n \in S
    <2>1. \A b \in 0..(n - 1) : Together(f, yes, w, d, e, b)
      BY <1>8
    <2>2. Together(f, yes, w, d, e, n)
      BY <1>1, <1>2, <2>1, TogetherOn
    <2>3. n \in 0..Hops /\ 0..n = 0..(n - 1) \union {n}
      BY DEF Hops
    <2>4. QED
      BY <2>1, <2>2, <2>3
  <1>9. Hops \in S
    <2> HIDE DEF S
    <2>1. QED
      BY <1>7, <1>8, Hopping
  <1>10. m \in 0..Hops /\ Hops \in 0..Hops
    BY <1>6 DEF Hops
  <1>11. Together(f, yes, w, d, e, m) /\ Together(f, yes, w, d, e, Hops)
    BY <1>9, <1>10
  <1>12. PICK y, x, l : y = d[m] /\ x = e[m] /\ l = e[Hops]
    OBVIOUS
  <1>13. Hopped(h, q, yes) = y /\ Walk(h, q, yes) = IF y.rest = <<>> THEN y ELSE Nowhere
    <2>1. PICK c : Goes(c, h, q, yes)
      BY WalkGoes
    <2>2. QED
      BY <1>6, <1>12, <2>1 DEF Goes
  <1>14. Walk(f, p, yes) = IF l.rest = <<>> THEN l ELSE Nowhere
    BY <1>2, <1>12 DEF Goes
  <1>15. CASE y.rest # <<>>
    BY <1>13, <1>15
  <1>16. CASE y.rest = <<>> /\ y = x
    <2>1. l = x
      BY <1>10, <1>11, <1>12, <1>16 DEF Together
    <2>2. QED
      BY <1>13, <1>14, <1>16, <2>1
  <1>17. ASSUME y.rest = <<>>, NEW k, NEW i \in 0..k, \A b \in 0..k : Under(e[b]),
                NEW t \in Seq(Names), y.rest = e[i].rest \o t, NEW j \in 0..m, j = i
         PROVE  FALSE
    <2>1. Visit(f, yes, e[i]) /\ Under(e[i])
      <3>1. i \in 0..Hops
        BY <1>6, <1>17 DEF Hops
      <3>2. QED
        BY <1>9, <1>17, <3>1 DEF Together
    <2>2. e[i].rest \in Seq(Names) /\ e[i].rest # <<>>
      BY <2>1 DEF Visit, Under
    <2>3. QED
      BY <1>17, <2>2, Joining
  <1>18. CASE y.rest = <<>> /\ y # x
    <2>1. PICK k \in 0..(m - 1) :
             /\ \A b \in 0..k : Under(e[b])
             /\ \E i \in 0..k, t \in Seq(Names) : y.ino = e[i].ino /\ y.rest = e[i].rest \o t
      BY <1>11, <1>12, <1>18 DEF Together
    <2>2. \A i \in 0..k : i \in 0..m
      BY <1>6, <2>1 DEF Hops
    <2>3. QED
      BY <1>17, <1>18, <2>1, <2>2
  <1>19. QED
    BY <1>15, <1>16, <1>18

-----------------------------------------------------------------------------
(* The steps that change files.                                            *)

\* What has a name after a call is what the call has made of it.
LEMMA TreeLeft ==
    ASSUME OpsInv, AloneInv, NEW s \in Slots, NEW j, NEW f, NEW m, CallOn(s, j, f, m), Sound(f)
    PROVE  \A i \in Inodes : i = Root \/ InTree(f, i) => fs'[i] = f[i]
  BY CallLeaves

\* A new node leaves the files alone.
LEMMA Beside ==
    ASSUME NEW f, Sound(f), NEW w, Located(f, w), Creatable(f, w),
           NEW node, IsNode(node), node.kind # "free",
           node.kind = "dir" => \A n \in Names : node.has[n] = None
    PROVE  /\ Sound(Create(f, w, node))
           /\ \A i \in Inodes : f[i].kind = "file" =>
                 Create(f, w, node)[i] = f[i] /\ (InTree(f, i) => InTree(Create(f, w, node), i))
  <1>1. PICK u \in Unused(f) : \E g :
              /\ g = Create(f, w, node)
              /\ Sound(g)
              /\ \A i \in Inodes \ {u, w.dir} : g[i] = f[i]
              /\ \A i \in Inodes : InTree(g, i) <=> InTree(f, i) \/ i = u
    BY Created
  <1>2. u \in Inodes /\ f[u].kind = "free"
    BY Nodes DEF Unused
  <1>3. f[w.dir].kind = "dir"
    BY DEF Located, Is
  <1>4. QED
    BY <1>1, <1>2, <1>3

\* The new folder is where its path leads.
LEMMA MkdirAlone == ASSUME OpsInv, AloneInv, NEW s \in Slots, Mkdir(s) PROVE AloneInv'
  <1>1. PICK j, w : j = job[s] /\ w = Walk(fs, j.p, FALSE)
    OBVIOUS
  <1>2. /\ JobType(j, fs) /\ j.pc = "mkdir" /\ j.op = "mkdir" /\ j.p \in Seq(Names) /\ Sound(fs)
        /\ j.before # None => fs = j.before
    BY <1>1, AtStep DEF Mkdir, At, JobType, Stage, Changed
  <1>3. CASE ~Creatable(fs, w)
    <2>a. PICK ok \in BOOLEAN : ok = Creatable(fs, w)
      BY DEF Creatable
    <2>1. PICK k : k = Return(j, ok) /\ CallOn(s, k, fs, mem[s])
      BY <1>1, <1>3, <2>a DEF Mkdir, Call
    <2>2. k.pc = "done" /\ Follows(k, j) /\ Right(k, fs)
      BY <1>2, <1>3, <2>a, <2>1, Answering, FailureRight
    <2>3. QED
      BY <1>1, <2>1, <2>2, NearStep
  <1>4. CASE Creatable(fs, w)
    <2>1. PICK g : g = Create(fs, w, EmptyDir) /\ CallOn(s, Return(j, TRUE), g, mem[s])
      BY <1>1, <1>4 DEF Mkdir, Call
    <2>2. PICK k : k = Return(j, TRUE) /\ CallOn(s, k, g, mem[s])
      BY <2>1
    <2>3. k.pc = "done" /\ Follows(k, j) /\ k.answer = "ACTION_COMPLETED"
      BY <1>2, <2>2, Answering
    <2>4. k.op = "mkdir" /\ k.p = j.p /\ k.before = j.before
      BY <1>2, <2>3 DEF Follows
    <2>5. IsNode(EmptyDir) /\ EmptyDir.kind = "dir" /\ \A n \in Names : EmptyDir.has[n] = None
      BY Nodes
    <2>6. Located(fs, w) /\ w.ino = None
      BY <1>1, <1>2, <1>4, Found DEF Creatable
    <2>7. PICK u \in Unused(fs) :
             /\ Sound(g) /\ g[u] = EmptyDir /\ u # w.dir
             /\ \A i \in Inodes \ {u} : g[i].kind = fs[i].kind
             /\ \A i \in Inodes \ {u, w.dir} : g[i] = fs[i]
             /\ \A e \in Inodes, m \in Names, i \in Inodes :
                   Entered(g, e, m, i) <=> IF e = w.dir /\ m = w.name THEN i = u ELSE Entered(fs, e, m, i)
             /\ \A i \in Inodes : InTree(g, i) <=> InTree(fs, i) \/ i = u
      BY <1>2, <1>4, <2>1, <2>5, <2>6, Created
    <2>8. u \in Inodes /\ fs[u].kind = "free"
      BY Nodes DEF Unused
    <2>9. \A i \in Inodes : i = Root \/ InTree(g, i) => fs'[i] = g[i]
      <3>1. Sound(g)
        BY <2>7
      <3>2. QED
        BY <2>2, <3>1, TreeLeft
    <2>10. Sound(fs')
      BY MkdirKeeps DEF OpsInv
    <2>11. w.dir \in Inodes /\ fs[w.dir].kind = "dir" /\ fs'[w.dir] = g[w.dir]
      BY <2>6, <2>7, <2>9 DEF Located, Is
    <2>12. IsDirectory(fs', j.p)
      <3>1. fs'[u].kind = "dir" /\ fs'[w.dir].kind = "dir"
        BY <2>5, <2>7, <2>8, <2>9, <2>11
      <3>2. \A i \in Inodes : i # w.dir /\ (i = Root \/ InTree(fs, i)) => fs'[i] = fs[i]
        <4>1. ASSUME NEW i \in Inodes, i # w.dir, i = Root \/ InTree(fs, i) PROVE fs'[i] = fs[i]
          <5>1. fs[i].kind # "free"
            BY <1>2, <4>1 DEF Sound
          <5>2. g[i] = fs[i] /\ (i = Root \/ InTree(g, i))
            BY <2>7, <2>8, <4>1, <5>1
          <5>3. QED
            BY <2>9, <5>2
        <4>2. QED
          BY <4>1
      <3>3. \A m \in Names, i \in Inodes :
               Entered(fs', w.dir, m, i) <=> (m = w.name /\ i = u) \/ (m # w.name /\ Entered(fs, w.dir, m, i))
        <4>1. \A m \in Names, i \in Inodes : Entered(fs', w.dir, m, i) <=> Entered(g, w.dir, m, i)
          BY <2>11 DEF Entered, Is
        <4>2. QED
          BY <2>7, <2>11, <4>1
      <3>4. PICK h, yes : h = fs' /\ yes = TRUE
        OBVIOUS
      <3>5. PICK p \in Seq(Names) : p = j.p
        BY <1>2
      <3>6. PICK no : ~no /\ w = Walk(fs, p, no)
        <4>1. w = Walk(fs, p, FALSE)
          BY <1>1, <3>5
        <4>2. QED
          BY <4>1
      <3>7. Sound(h) /\ h[u].kind = "dir" /\ Joined(fs, h, w, u)
        BY <2>6, <2>8, <2>10, <3>1, <3>2, <3>3, <3>4 DEF Joined
      <3>9. Walk(h, p, yes).ino = u
        BY <1>2, <3>6, <3>7, MadeThere
      <3>10. Walk(fs', j.p, TRUE).ino = u
        BY <3>4, <3>5, <3>9
      <3>11. QED
        BY <2>8, <3>1, <3>10, Constants DEF IsDirectory, Is
    <2>13. Right(k, fs')
      BY <2>3, <2>4, <2>12 DEF Right, Knows, Truthful, Completed, Noticed, Failed
    <2>14. \A i \in Inodes : fs[i].kind = "file" => g[i] = fs[i] /\ (InTree(fs, i) => InTree(g, i))
      BY <1>2, <1>4, <2>1, <2>5, <2>6, Beside
    <2>15. QED
      BY <1>1, <2>2, <2>3, <2>7, <2>13, <2>14, NearChanged DEF Changed
  <1>5. QED
    BY <1>3, <1>4

\* The new link leads where its path leads, or it is given up.
LEMMA SymlinkAlone == ASSUME OpsInv, AloneInv, NEW s \in Slots, Symlink(s) PROVE AloneInv'
  <1>1. PICK j, w : j = job[s] /\ w = Walk(fs, j.q, FALSE)
    OBVIOUS
  <1>2. /\ JobType(j, fs) /\ j.pc = "symlink" /\ j.op = "symlink" /\ j.q \in Seq(Names) /\ Sound(fs)
        /\ j.at \in Seq(Names) /\ j.p \in Seq(Names)
        /\ j.before # None =>
              /\ fs = j.before
              /\ ~j.missed /\ ~GivenUp(fs, j.p) => Walk(fs, j.at, TRUE).ino = Walk(fs, j.p, TRUE).ino
    <2>1. JobType(j, fs) /\ j.pc = "symlink" /\ Sound(fs) /\ Right(j, fs) /\ (j.before # None => fs = j.before)
      BY <1>1, AtStep DEF Symlink, At, Changed
    <2>2. j.op = "symlink" /\ j.q \in Seq(Names) /\ j.at \in Seq(Names) /\ j.p \in Seq(Names)
      BY <2>1 DEF JobType, Stage
    <2>3. QED
      BY <2>1, <2>2 DEF Right, Knows
  <1>3. CASE ~Creatable(fs, w)
    <2>a. PICK ok \in BOOLEAN : ok = Creatable(fs, w)
      BY DEF Creatable
    <2>1. PICK k : k = Return(j, ok) /\ CallOn(s, k, fs, mem[s])
      BY <1>1, <1>3, <2>a DEF Symlink, Call
    <2>2. k.pc = "done" /\ Follows(k, j) /\ Right(k, fs)
      BY <1>2, <1>3, <2>a, <2>1, Answering, FailureRight
    <2>3. QED
      BY <1>1, <2>1, <2>2, NearStep
  <1>4. CASE Creatable(fs, w)
    <2>1. PICK node, g : /\ node = Link(j.at) /\ g = Create(fs, w, node)
                         /\ CallOn(s, Return(j, TRUE), g, mem[s])
      BY <1>1, <1>4 DEF Symlink, Call
    <2>2. PICK k : k = Return(j, TRUE) /\ CallOn(s, k, g, mem[s])
      BY <2>1
    <2>3. k.pc = "done" /\ Follows(k, j) /\ k.answer = "ACTION_COMPLETED" /\ k.missed = j.missed
      BY <1>2, <2>2, Answering
    <2>4. k.op = j.op
      BY <2>3 DEF Follows
    <2>5. IsNode(node) /\ node.kind = "link"
      BY <1>2, <2>1, Nodes
    <2>6. Located(fs, w)
      BY <1>1, <1>2, <1>4, Found DEF Creatable
    <2>7. /\ Sound(g)
          /\ \A i \in Inodes : fs[i].kind = "file" => g[i] = fs[i] /\ (InTree(fs, i) => InTree(g, i))
      BY <1>2, <1>4, <2>1, <2>5, <2>6, Beside
    <2>8. PICK u \in Unused(fs) :
             /\ Sound(g) /\ g[u] = node /\ u # w.dir
             /\ \A i \in Inodes \ {u} : g[i].kind = fs[i].kind
             /\ \A i \in Inodes \ {u, w.dir} : g[i] = fs[i]
             /\ \A e \in Inodes, m \in Names, i \in Inodes :
                   Entered(g, e, m, i) <=> IF e = w.dir /\ m = w.name THEN i = u ELSE Entered(fs, e, m, i)
             /\ \A i \in Inodes : InTree(g, i) <=> InTree(fs, i) \/ i = u
      BY <1>2, <1>4, <2>1, <2>5, <2>6, Created
    <2>9. u \in Inodes /\ fs[u].kind = "free"
      BY Nodes DEF Unused
    <2>10. \A i \in Inodes : i = Root \/ InTree(g, i) => fs'[i] = g[i]
      <3>1. Sound(g)
        BY <2>7
      <3>2. QED
        BY <2>2, <3>1, TreeLeft
    <2>11. Sound(fs')
      BY SymlinkKeeps DEF OpsInv
    <2>12. w.dir \in Inodes /\ fs[w.dir].kind = "dir" /\ fs'[w.dir] = g[w.dir]
      BY <2>6, <2>8, <2>10 DEF Located, Is
    <2>13. PICK h : h = fs'
      OBVIOUS
    <2>14. fs'[u] = node /\ fs'[w.dir].kind = "dir"
      BY <2>8, <2>9, <2>10, <2>12
    <2>15. WithLink(fs, h, w, u, j.at)
      <3>1. \A i \in Inodes : i # w.dir /\ (i = Root \/ InTree(fs, i)) => fs'[i] = fs[i]
        <4>1. ASSUME NEW i \in Inodes, i # w.dir, i = Root \/ InTree(fs, i) PROVE fs'[i] = fs[i]
          <5>1. fs[i].kind # "free"
            BY <1>2, <4>1 DEF Sound
          <5>2. g[i] = fs[i] /\ (i = Root \/ InTree(g, i))
            BY <2>8, <2>9, <4>1, <5>1
          <5>3. QED
            BY <2>10, <5>2
        <4>2. QED
          BY <4>1
      <3>2. \A m \in Names, i \in Inodes :
               Entered(fs', w.dir, m, i) <=> (m = w.name /\ i = u) \/ (m # w.name /\ Entered(fs, w.dir, m, i))
        <4>1. \A m \in Names, i \in Inodes : Entered(fs', w.dir, m, i) <=> Entered(g, w.dir, m, i)
          BY <2>12 DEF Entered, Is
        <4>2. QED
          BY <2>8, <2>12, <4>1
      <3>3. w.ino = None
        BY <1>4 DEF Creatable
      <3>4. Joined(fs, h, w, u)
        BY <2>6, <2>9, <2>13, <2>14, <3>1, <3>2, <3>3 DEF Joined
      <3>5. h[u].kind = "link" /\ h[u].to = j.at
        BY <1>2, <2>1, <2>5, <2>13, <2>14, Nodes
      <3>6. QED
        BY <1>2, <2>11, <2>13, <3>4, <3>5 DEF WithLink
    <2>16. Walk(h, j.q, TRUE).ino = Walk(fs, j.at, TRUE).ino \/ GivenUp(h, j.q)
      <3>1. PICK yes : yes = TRUE
        OBVIOUS
      <3>2. PICK p \in Seq(Names), q \in Seq(Names) : p = j.at /\ q = j.q
        BY <1>2
      <3>3. PICK no : ~no /\ w = Walk(fs, q, no)
        <4>1. w = Walk(fs, q, FALSE)
          BY <1>1, <3>2
        <4>2. QED
          BY <4>1
      <3>4. Following(yes) /\ WithLink(fs, h, w, u, p)
        BY <2>15, <3>1, <3>2 DEF Following
      <3>5. Walk(h, q, yes).ino = Walk(fs, p, yes).ino \/ Hopped(h, q, yes).rest # <<>>
        BY <3>3, <3>4, LinkLeads
      <3>6. QED
        BY <3>1, <3>2, <3>5 DEF GivenUp
    <2>17. k.op = "symlink" /\ k.p = j.p /\ k.q = j.q /\ k.before = j.before
      BY <1>2, <2>3 DEF Follows
    <2>18. ASSUME k.before # None, ~k.missed
           PROVE  \/ Walk(h, k.q, TRUE).ino = Walk(k.before, k.p, TRUE).ino
                  \/ GivenUp(h, k.q) \/ GivenUp(k.before, k.p)
      <3>1. k.before = fs /\ (~GivenUp(fs, j.p) => Walk(fs, j.at, TRUE).ino = Walk(fs, j.p, TRUE).ino)
        BY <1>2, <2>3, <2>17, <2>18
      <3>2. GivenUp(h, j.q) = GivenUp(h, k.q) /\ GivenUp(fs, j.p) = GivenUp(k.before, k.p)
        BY <2>17, <3>1
      <3>3. Walk(h, j.q, TRUE) = Walk(h, k.q, TRUE) /\ Walk(fs, j.p, TRUE) = Walk(k.before, k.p, TRUE)
        BY <2>17, <3>1
      <3>4. QED
        BY <2>16, <3>1, <3>2, <3>3, Zenon
    <2>19. k.before # None => Truthful(k, h)
      BY <2>3, <2>17, <2>18 DEF Truthful, Completed, Noticed, Failed
    <2>20. Right(k, fs')
      BY <2>3, <2>13, <2>17, <2>19 DEF Right, Knows
    <2>21. QED
      BY <1>1, <2>2, <2>3, <2>7, <2>20, NearChanged DEF Changed
  <1>5. QED
    BY <1>3, <1>4

\* What is left of what is left is what is left.
LEMMA ShrunkMore ==
    ASSUME NEW f, NEW g, NEW h, FsType(g), Shrunk(h, g), Shrunk(g, f)
    PROVE  Shrunk(h, f)
  <1>1. ASSUME NEW d \in Inodes, Is(h, d, "dir")
        PROVE  Is(f, d, "dir") /\ \A n \in Names : h[d].has[n] \in {None, f[d].has[n]}
    <2>1. Is(g, d, "dir") /\ \A n \in Names : h[d].has[n] \in {None, g[d].has[n]}
      BY <1>1 DEF Shrunk
    <2>2. Is(f, d, "dir") /\ \A n \in Names : g[d].has[n] \in {None, f[d].has[n]}
      BY <2>1 DEF Shrunk
    <2>3. QED
      BY <2>1, <2>2
  <1>2. ASSUME NEW i \in Inodes, InTree(h, i)
        PROVE  h[i].kind = f[i].kind /\ (f[i].kind = "link" => h[i] = f[i])
    <2>1. h[i].kind = g[i].kind /\ (g[i].kind = "link" => h[i] = g[i])
      BY <1>2 DEF Shrunk
    <2>2. PICK d \in Inodes, n \in Names : Is(h, d, "dir") /\ h[d].has[n] = i
      BY <1>2 DEF InTree, Entered
    <2>3. Is(g, d, "dir") /\ h[d].has[n] \in {None, g[d].has[n]}
      BY <2>2 DEF Shrunk
    <2>4. InTree(g, i)
      BY <2>2, <2>3, Constants DEF InTree, Entered
    <2>5. g[i].kind = f[i].kind /\ (f[i].kind = "link" => g[i] = f[i])
      BY <2>4 DEF Shrunk
    <2>6. QED
      BY <2>1, <2>5
  <1>3. QED
    BY <1>1, <1>2 DEF Shrunk

\* Taking an entry away touches no file but the one that had it.
LEMMA TakeTouches ==
    ASSUME NEW f, Sound(f), NEW w, Located(f, w), Removable(f, w)
    PROVE  /\ Sound(Take(f, w))
           /\ \A i \in Inodes : f[i].kind = "file" =>
                 Take(f, w)[i] = f[i] /\ (InTree(f, i) => InTree(Take(f, w), i) \/ i = w.ino)
  <1>1. PICK g :
           /\ g = Take(f, w) /\ Sound(g)
           /\ \A i \in Inodes \ {w.dir} : g[i] = f[i]
           /\ \A i \in Inodes : InTree(g, i) <=> InTree(f, i) /\ i # w.ino
    BY Taken DEF Removable
  <1>2. f[w.dir].kind = "dir"
    BY DEF Located, Is
  <1>3. QED
    BY <1>1, <1>2

\* What is left when an entry has been taken away.
LEMMA TakeLeaves ==
    ASSUME OpsInv, AloneInv, Sound(fs'), NEW s \in Slots, NEW j, NEW m,
           NEW w, Located(fs, w), Removable(fs, w), NEW g, g = Take(fs, w), CallOn(s, j, g, m)
    PROVE  /\ Sound(fs') /\ Shrunk(fs', fs)
           /\ \A p \in Seq(Names) : w = Walk(fs, p, FALSE) => Walk(fs', p, FALSE).ino = None
  <1>1. Sound(fs) /\ w.ino # None /\ (fs[w.ino].kind = "dir" => fs[w.ino] = EmptyDir)
    BY DEF Removable, OpsInv
  <1>2. /\ Sound(g)
        /\ \A i \in Inodes : g[i].kind = fs[i].kind
        /\ \A i \in Inodes \ {w.dir} : g[i] = fs[i]
        /\ \A e \in Inodes, n \in Names, i \in Inodes :
              Entered(g, e, n, i) <=> ~(e = w.dir /\ n = w.name) /\ Entered(fs, e, n, i)
        /\ \A i \in Inodes : InTree(g, i) <=> InTree(fs, i) /\ i # w.ino
    BY <1>1, Taken
  <1>3. Sound(fs')
    OBVIOUS
  <1>4. PICK h : h = fs'
    OBVIOUS
  <1>5. \A i \in Inodes : i = Root \/ InTree(g, i) => h[i] = g[i]
    BY <1>2, <1>4, TreeLeft
  <1>6. \A i \in Inodes : h[i] = g[i] \/ h[i] = Free
    BY <1>2, <1>4, CallLeaves
  <1>7. ASSUME NEW d \in Inodes, Is(h, d, "dir") PROVE h[d] = g[d] /\ Is(fs, d, "dir")
    <2>1. h[d] # Free
      BY <1>7, Nodes DEF Is
    <2>2. h[d] = g[d] /\ h[d].kind = "dir" /\ d # None
      BY <1>6, <1>7, <2>1 DEF Is
    <2>3. fs[d].kind = "dir"
      BY <1>2, <2>2
    <2>4. QED
      BY <2>2, <2>3 DEF Is
  <1>8. \A d \in Inodes, n \in Names, i \in Inodes : Entered(h, d, n, i) => Entered(g, d, n, i)
    <2>1. ASSUME NEW d \in Inodes, NEW n \in Names, NEW i \in Inodes, Entered(h, d, n, i) PROVE Entered(g, d, n, i)
      <3>1. Is(h, d, "dir") /\ h[d].has[n] = i
        BY <2>1 DEF Entered
      <3>2. h[d] = g[d]
        BY <1>7, <3>1
      <3>3. Is(g, d, "dir") /\ g[d].has[n] = i
        BY <3>1, <3>2 DEF Is
      <3>4. QED
        BY <3>3 DEF Entered
    <2>2. QED
      BY <2>1
  <1>9. ASSUME NEW d \in Inodes, Is(h, d, "dir"), NEW n \in Names
        PROVE  h[d].has[n] \in {None, fs[d].has[n]}
    <2>1. IsNode(h[d])
      BY <1>3, <1>4 DEF Sound, FsType
    <2>2. h[d].has[n] \in Inodes \union {None}
      BY <1>9, <2>1, NodeKinds DEF Is
    <2>3. ASSUME h[d].has[n] # None PROVE h[d].has[n] = fs[d].has[n]
      <3>1. PICK i \in Inodes : i = h[d].has[n]
        BY <2>2, <2>3
      <3>2. Entered(g, d, n, i)
        BY <1>8, <1>9, <3>1 DEF Entered
      <3>3. Entered(fs, d, n, i)
        BY <1>2, <3>2
      <3>4. QED
        BY <3>1, <3>3 DEF Entered
    <2>4. QED
      BY <2>3
  <1>10. ASSUME NEW i \in Inodes, InTree(h, i)
         PROVE  h[i].kind = fs[i].kind /\ (fs[i].kind # "dir" => h[i] = fs[i])
    <2>1. InTree(g, i)
      BY <1>8, <1>10 DEF InTree
    <2>2. h[i] = g[i]
      BY <1>5, <2>1
    <2>3. fs[w.dir].kind = "dir"
      BY DEF Located, Is
    <2>4. QED
      BY <1>2, <2>2, <2>3
  <1>11. Shrunk(h, fs)
    BY <1>7, <1>9, <1>10 DEF Shrunk
  <1>12. ASSUME NEW p \in Seq(Names), w = Walk(fs, p, FALSE) PROVE Walk(h, p, FALSE).ino = None
    <2>1. SUFFICES ASSUME Walk(h, p, FALSE).ino # None PROVE FALSE
      OBVIOUS
    <2>2. Sound(h)
      BY <1>3, <1>4
    <2>3. Walk(h, p, FALSE) = w
      <3>1. Walk(h, p, FALSE).ino = None \/ Walk(h, p, FALSE) = Walk(fs, p, FALSE)
        <4>1. PICK no : no = FALSE
          OBVIOUS
        <4>2. Walk(h, p, no).ino = None \/ Walk(h, p, no) = Walk(fs, p, no)
          BY <1>1, <1>11, <2>2, ShrunkWalk
        <4>3. QED
          BY <4>1, <4>2
      <3>2. QED
        BY <1>12, <2>1, <3>1
    <2>4. w.dir # None
      BY Constants DEF Located
    <2>5. Located(h, w)
      BY <2>2, <2>3, <2>4, Found
    <2>6. Entered(h, w.dir, w.name, w.ino) /\ w.dir \in Inodes /\ w.name \in Names /\ w.ino \in Inodes
      BY <1>1, <2>5 DEF Located, Entered
    <2>7. Entered(g, w.dir, w.name, w.ino)
      BY <1>8, <2>6
    <2>8. QED
      BY <1>2, <2>6, <2>7
  <1>13. QED
    BY <1>3, <1>4, <1>11, <1>12

\* The file that is removed is the one the path leads to, and then it leads nowhere.
LEMMA RemoveFileAlone == ASSUME OpsInv, AloneInv, NEW s \in Slots, RemoveFile(s) PROVE AloneInv'
  <1>1. PICK j, w : j = job[s] /\ w = Walk(fs, j.p, FALSE)
    OBVIOUS
  <1>2. /\ JobType(j, fs) /\ j.pc = "unlink" /\ j.op = "remove" /\ j.p \in Seq(Names) /\ Sound(fs)
        /\ j.before # None => fs = j.before
    BY <1>1, AtStep DEF RemoveFile, At, JobType, Stage, Changed
  <1>3. PICK ok \in BOOLEAN : ok = (Removable(fs, w) /\ ~Is(fs, w.ino, "dir"))
    OBVIOUS
  <1>4. CASE ~ok
    <2>1. PICK k : k = Return(j, ok) /\ CallOn(s, k, fs, mem[s])
      BY <1>1, <1>3, <1>4 DEF RemoveFile, Call
    <2>2. k.pc = "done" /\ Follows(k, j) /\ Right(k, fs)
      BY <1>2, <1>4, <2>1, Answering, FailureRight
    <2>3. QED
      BY <1>1, <2>1, <2>2, NearStep
  <1>5. CASE ok
    <2>1. PICK g : g = Take(fs, w) /\ CallOn(s, Return(j, ok), g, mem[s])
      BY <1>1, <1>3, <1>5 DEF RemoveFile, Call
    <2>2. PICK k : k = Return(j, ok) /\ CallOn(s, k, g, mem[s])
      BY <2>1
    <2>3. k.pc = "done" /\ Follows(k, j)
      BY <1>2, <1>5, <2>2, Answering
    <2>4. k.op = "remove" /\ k.p = j.p /\ k.before = j.before
      BY <1>2, <2>3 DEF Follows
    <2>5. Located(fs, w) /\ Removable(fs, w) /\ w.ino # None
      BY <1>1, <1>2, <1>3, <1>5, Found DEF Removable
    <2>6. Sound(fs')
      BY RemoveFileKeeps DEF OpsInv
    <2>7. Walk(fs', j.p, FALSE).ino = None
      <3>1. PICK p \in Seq(Names) : p = j.p /\ w = Walk(fs, p, FALSE)
        BY <1>1, <1>2
      <3>2. PICK m : CallOn(s, k, g, m)
        BY <2>2
      <3>3. g = Take(fs, w) /\ Located(fs, w) /\ Removable(fs, w)
        BY <2>1, <2>5
      <3>4. Walk(fs', p, FALSE).ino = None
        BY <2>6, <3>1, <3>2, <3>3, TakeLeaves
      <3>5. QED
        BY <3>1, <3>4
    <2>a. /\ Sound(g)
          /\ \A i \in Inodes : fs[i].kind = "file" => g[i] = fs[i] /\ (InTree(fs, i) => InTree(g, i) \/ i = w.ino)
      BY <1>2, <2>1, <2>5, TakeTouches
    <2>8. Right(k, fs')
      <3>1. Completed(k, {"remove", "rmtree"}) => Walk(fs', k.p, FALSE).ino = None
        BY <2>4, <2>7
      <3>2. k.answer = "ACTION_COMPLETED"
        BY <1>2, <1>5, <2>2, Answering
      <3>3. QED
        BY <2>3, <2>4, <3>1, <3>2 DEF Right, Knows, Truthful, Completed, Noticed, Failed
    <2>9. j.before # None => Meant(j, w.ino)
      BY <1>1, <1>2, <2>5, BeneathSelf DEF Meant, Named
    <2>b. \A i \in Inodes : /\ job[s].before # None /\ fs[i].kind = "file"
                            /\ g[i] # fs[i] \/ (InTree(fs, i) /\ ~InTree(g, i))
                            => Meant(job[s], i)
      <3>1. ASSUME NEW i \in Inodes, job[s].before # None, fs[i].kind = "file",
                   g[i] # fs[i] \/ (InTree(fs, i) /\ ~InTree(g, i))
            PROVE  Meant(job[s], i)
        <4>1. i = w.ino
          BY <2>a, <3>1
        <4>2. QED
          BY <1>1, <2>9, <3>1, <4>1
      <3>2. QED
        BY <3>1
    <2>10. QED
      BY <1>1, <2>2, <2>3, <2>a, <2>b, <2>8, NearChanged DEF Changed
  <1>6. QED
    BY <1>4, <1>5

\* What had the other name is the only file that may be gone, and the file is there now.
LEMMA MoveAlone == ASSUME OpsInv, AloneInv, NEW s \in Slots, Move(s) PROVE AloneInv'
  <1>1. PICK j, w, v : j = job[s] /\ w = Walk(fs, j.p, FALSE) /\ v = Walk(fs, j.q, FALSE)
    OBVIOUS
  <1>2. /\ JobType(j, fs) /\ j.pc = "rename" /\ j.op = "move" /\ j.p \in Seq(Names) /\ j.q \in Seq(Names)
        /\ Sound(fs)
        /\ j.before # None => fs = j.before
    BY <1>1, AtStep DEF Move, At, JobType, Stage, Changed
  <1>3. PICK ok \in BOOLEAN : ok = Renamable(fs, w, v)
    BY DEF Renamable
  <1>4. CASE ~ok
    <2>1. PICK k : k = Return(j, ok) /\ CallOn(s, k, fs, mem[s])
      BY <1>1, <1>3, <1>4 DEF Move, Call
    <2>2. k.pc = "done" /\ Follows(k, j) /\ Right(k, fs)
      BY <1>2, <1>4, <2>1, Answering, FailureRight
    <2>3. QED
      BY <1>1, <2>1, <2>2, NearStep
  <1>5. CASE ok
    <2>1. PICK g : g = Rename(fs, w, v) /\ CallOn(s, Return(j, ok), g, mem[s])
      BY <1>1, <1>3, <1>5 DEF Move, Call
    <2>2. PICK k : k = Return(j, ok) /\ CallOn(s, k, g, mem[s])
      BY <2>1
    <2>3. k.pc = "done" /\ Follows(k, j)
      BY <1>2, <1>5, <2>2, Answering
    <2>4. k.op = "move" /\ k.p = j.p /\ k.q = j.q /\ k.before = j.before
      BY <1>2, <2>3 DEF Follows
    <2>5. Located(fs, w) /\ Located(fs, v) /\ Renamable(fs, w, v)
      BY <1>1, <1>2, <1>3, <1>5, Found DEF Renamable
    <2>6. /\ Sound(g)
          /\ \A i \in Inodes \ {w.dir, v.dir} : g[i] = fs[i]
          /\ g[v.dir].has[v.name] = w.ino
          /\ \A i \in Inodes : InTree(fs, i) => InTree(g, i) \/ i = v.ino
      BY <1>2, <2>1, <2>5, Renamed
    <2>7. w.dir \in Inodes /\ v.dir \in Inodes /\ fs[w.dir].kind = "dir" /\ fs[v.dir].kind = "dir"
      BY <2>5 DEF Located, Is
    <2>8. fs'[v.dir] = g[v.dir]
      <3>1. \A i \in Inodes : i = Root \/ InTree(g, i) => fs'[i] = g[i]
        BY <2>2, <2>6, TreeLeft
      <3>2. v.dir = Root \/ InTree(fs, v.dir)
        BY <2>5 DEF Located
      <3>3. CASE v.dir = v.ino
        <4>1. g = fs
          <5>1. v.ino # None /\ fs[v.ino].has[v.name] # None /\ v.name \in Names
            BY <2>5, <2>7, <3>3, Constants DEF Located
          <5>2. fs[v.ino] # EmptyDir
            BY <5>1, Nodes
          <5>3. v.ino = w.ino
            BY <2>5, <2>7, <3>3, <5>1, <5>2 DEF Renamable
          <5>4. QED
            BY <2>1, <5>3 DEF Rename
        <4>2. QED
          BY <2>7, <3>1, <3>2, <4>1
      <3>4. CASE v.dir # v.ino
        BY <2>6, <2>7, <3>1, <3>2, <3>4
      <3>5. QED
        BY <3>3, <3>4
    <2>9. Right(k, fs')
      <3>1. k.before # None => fs'[Walk(k.before, k.q, FALSE).dir].has[Walk(k.before, k.q, FALSE).name]
                               = Walk(k.before, k.p, FALSE).ino
        BY <1>1, <1>2, <2>4, <2>6, <2>8
      <3>2. k.answer = "ACTION_COMPLETED"
        BY <1>2, <1>5, <2>2, Answering
      <3>3. QED
        BY <2>3, <2>4, <3>1, <3>2 DEF Right, Knows, Truthful, Completed, Noticed, Failed
    <2>10. j.before # None /\ v.ino # None => Meant(j, v.ino)
      BY <1>1, <1>2, BeneathSelf DEF Meant, Named
    <2>11. \A i \in Inodes : /\ job[s].before # None /\ fs[i].kind = "file"
                             /\ g[i] # fs[i] \/ (InTree(fs, i) /\ ~InTree(g, i))
                             => Meant(job[s], i)
      <3>1. ASSUME NEW i \in Inodes, job[s].before # None, fs[i].kind = "file",
                   g[i] # fs[i] \/ (InTree(fs, i) /\ ~InTree(g, i))
            PROVE  Meant(job[s], i)
        <4>1. i = v.ino
          BY <2>6, <2>7, <3>1
        <4>2. QED
          BY <1>1, <2>10, <3>1, <4>1, Constants
      <3>2. QED
        BY <3>1
    <2>12. QED
      BY <1>1, <2>2, <2>3, <2>6, <2>9, <2>11, NearChanged DEF Changed
  <1>6. QED
    BY <1>4, <1>5

\* What is in a doomed folder is doomed too.
LEMMA DoomedBelow ==
    ASSUME NEW j, NEW f, j.before # None, Sound(j.before), Sound(f), Shrunk(f, j.before),
           NEW x \in Seq(Names), Doomed(j, x), Is(f, Walk(f, x, FALSE).ino, "dir"), NEW n \in Names
    PROVE  Doomed(j, Append(x, n))
  <1>1. PICK b, top : b = j.before /\ top = Walk(j.before, j.p, FALSE).ino
    OBVIOUS
  <1>2. PICK no : no = FALSE
    OBVIOUS
  <1>3. PICK w, v : w = Walk(f, x, no) /\ v = Walk(b, Append(x, n), no)
    OBVIOUS
  <1>4. Walk(b, x, no) = w /\ w.ino # None /\ f[w.ino].kind = "dir"
    <2>1. Is(f, w.ino, "dir")
      BY <1>2, <1>3
    <2>2. w.ino # None /\ f[w.ino].kind = "dir"
      BY <2>1 DEF Is
    <2>3. Walk(f, x, no).ino = None \/ Walk(f, x, no) = Walk(b, x, no)
      BY <1>1, ShrunkWalk
    <2>4. QED
      BY <1>3, <2>2, <2>3
  <1>5. w.ino \in Inodes /\ Is(b, w.ino, "dir")
    <2>1. w.ino \in Inodes \union {None}
      BY <1>3, Found
    <2>2. QED
      BY <1>1, <1>4, <2>1 DEF Shrunk, Is
  <1>6. top # None /\ Beneath(b, w.ino, top)
    BY <1>1, <1>2, <1>4 DEF Doomed
  <1>7. v.ino = None \/ v.ino = b[w.ino].has[n]
    <2>1. Is(b, Walk(b, x, no).ino, "dir")
      BY <1>4, <1>5
    <2>2. Walk(b, Append(x, n), no).ino = None \/ Walk(b, Append(x, n), no).ino = b[Walk(b, x, no).ino].has[n]
      <3>1. Sound(b) /\ x \in Seq(Names) /\ n \in Names
        BY <1>1
      <3>2. QED
        BY <1>2, <2>1, <3>1, WalkAppend
    <2>3. QED
      BY <1>3, <1>4, <2>2
  <1>8. v.ino # None => Beneath(b, v.ino, top)
    BY <1>5, <1>6, <1>7, BeneathHeld
  <1>9. QED
    BY <1>1, <1>2, <1>3, <1>6, <1>8 DEF Doomed

\* What a list consists of.
LEMMA Unfolded ==
    ASSUME NEW below \in Seq(Visits), NEW self \in Visits, NEW rest \in Seq(Visits),
           NEW todo, todo = below \o <<self>> \o rest
    PROVE  /\ \A k \in DOMAIN todo : \/ \E i \in DOMAIN below : todo[k] = below[i]
                                     \/ todo[k] = self
                                     \/ \E i \in DOMAIN rest : todo[k] = rest[i]
           /\ rest = <<>> => todo[Len(todo)] = self
           /\ rest # <<>> => todo[Len(todo)] = rest[Len(rest)]
  <1>1. PICK a \in Nat, c \in Nat : a = Len(below) /\ c = Len(rest)
    OBVIOUS
  <1>2. PICK one : one = <<self>> /\ one \in Seq(Visits) /\ Len(one) = 1 /\ one[1] = self
    <2>1. <<self>> \in Seq(Visits)
      OBVIOUS
    <2>2. Len(<<self>>) = 1 /\ <<self>>[1] = self
      OBVIOUS
    <2>3. QED
      BY <2>1, <2>2
  <1>3. PICK x : x = below \o one /\ x \in Seq(Visits)
    <2>1. one \in Seq(Visits)
      BY <1>2
    <2>2. below \o one \in Seq(Visits)
      BY <2>1
    <2>3. QED
      BY <2>2
  <1>4. Len(x) = a + 1 /\ (\A i \in 1..a : x[i] = below[i]) /\ x[a + 1] = self
    <2>1. Len(x) = a + 1
      BY <1>1, <1>2, <1>3
    <2>2. \A i \in 1..a : x[i] = below[i]
      BY <1>1, <1>2, <1>3
    <2>3. x[a + 1] = one[1]
      BY <1>1, <1>2, <1>3
    <2>4. QED
      BY <1>2, <2>1, <2>2, <2>3
  <1>5. todo \in Seq(Visits) /\ todo = x \o rest
    BY <1>2, <1>3
  <1>6. Len(todo) = a + 1 + c /\ DOMAIN todo = 1..(a + 1 + c)
    BY <1>1, <1>4, <1>5
  <1>7. \A i \in 1..(a + 1) : todo[i] = x[i]
    BY <1>1, <1>4, <1>5
  <1>8. \A i \in 1..c : todo[a + 1 + i] = rest[i]
    BY <1>1, <1>4, <1>5
  <1>9. ASSUME NEW k \in 1..(a + 1 + c)
        PROVE  \/ \E i \in DOMAIN below : todo[k] = below[i]
               \/ todo[k] = self
               \/ \E i \in DOMAIN rest : todo[k] = rest[i]
    <2>1. CASE k \in 1..a
      <3>1. k \in DOMAIN below /\ todo[k] = below[k]
        BY <1>1, <1>4, <1>7, <2>1
      <3>2. QED
        BY <3>1
    <2>2. CASE k = a + 1
      <3>1. a + 1 \in 1..(a + 1)
        OBVIOUS
      <3>2. todo[k] = self
        BY <1>4, <1>7, <2>2, <3>1
      <3>3. QED
        BY <3>2
    <2>3. CASE k \notin 1..a /\ k # a + 1
      <3>1. PICK i \in 1..c : k = a + 1 + i
        <4>1. k - (a + 1) \in 1..c
          BY <2>3
        <4>2. QED
          BY <4>1
      <3>2. i \in DOMAIN rest /\ todo[k] = rest[i]
        BY <1>1, <1>8, <3>1
      <3>3. QED
        BY <3>2
    <2>4. QED
      BY <2>1, <2>2, <2>3
  <1>10. CASE rest = <<>>
    <2>1. c = 0
      BY <1>1, <1>10
    <2>2. QED
      BY <1>4, <1>6, <1>7, <1>9, <1>10, <2>1
  <1>11. CASE rest # <<>>
    <2>1. c \in 1..c
      BY <1>1, <1>11
    <2>2. todo[a + 1 + c] = rest[c]
      BY <1>8, <2>1
    <2>3. QED
      BY <1>1, <1>6, <1>9, <1>11, <2>2
  <1>12. QED
    BY <1>10, <1>11

\* A list without its head.
LEMMA TailOf ==
    ASSUME NEW t \in Seq(Visits), t # <<>>, NEW r, r = Tail(t)
    PROVE  /\ r \in Seq(Visits) /\ 1 \in DOMAIN t /\ Head(t) = t[1]
           /\ \A i \in DOMAIN r : i + 1 \in DOMAIN t /\ r[i] = t[i + 1]
           /\ r = <<>> <=> Len(t) = 1
           /\ r # <<>> => r[Len(r)] = t[Len(t)]
  <1>1. PICK n \in Nat : n = Len(t) /\ n # 0 /\ DOMAIN t = 1..n
    OBVIOUS
  <1>2. /\ r \in Seq(Visits) /\ Head(t) = t[1] /\ Len(r) = n - 1 /\ DOMAIN r = 1..(n - 1)
        /\ \A i \in 1..(n - 1) : r[i] = t[i + 1]
    BY <1>1
  <1>3. r = <<>> <=> n = 1
    <2>1. PICK z \in Seq(Visits) : z = r
      BY <1>2
    <2>2. z = <<>> <=> Len(z) = 0
      OBVIOUS
    <2>3. QED
      BY <1>2, <2>1, <2>2
  <1>4. n # 1 => r[n - 1] = t[n]
    <2>1. n # 1 => n - 1 \in 1..(n - 1) /\ (n - 1) + 1 = n
      BY <1>1
    <2>2. QED
      BY <1>2, <2>1
  <1>5. QED
    BY <1>1, <1>2, <1>3, <1>4

\* Links are not followed on the way down, so that nothing outside goes on the list.
LEMMA TreeLookAlone == ASSUME OpsInv, AloneInv, NEW s \in Slots, TreeLook(s) PROVE AloneInv'
  <1>1. PICK j, x, w : j = job[s] /\ x = Head(j.todo).path /\ w = Walk(fs, x, FALSE)
    OBVIOUS
  <1>2. /\ JobType(j, fs) /\ j.pc = "tree" /\ j.op = "rmtree"
        /\ j.todo \in Seq(Visits) /\ j.todo # <<>> /\ Sound(fs)
        /\ Near(j, fs) /\ Right(j, fs)
    BY <1>1, AtStep DEF TreeLook, At, JobType, Stage
  <1>3. PICK t, r : t = j.todo /\ t \in Seq(Visits) /\ t # <<>> /\ r = Tail(j.todo)
    BY <1>2
  <1>4. /\ r \in Seq(Visits) /\ 1 \in DOMAIN t /\ Head(t) = t[1]
        /\ \A i \in DOMAIN r : i + 1 \in DOMAIN t /\ r[i] = t[i + 1]
        /\ r = <<>> <=> Len(t) = 1
        /\ r # <<>> => r[Len(r)] = t[Len(t)]
    <2>1. r = Tail(t)
      BY <1>3
    <2>2. QED
      BY <1>3, <2>1, TailOf
  <1>5. x \in Seq(Names) /\ x = t[1].path
    <2>1. t[1] \in Visits
      BY <1>3, <1>4
    <2>2. x = t[1].path
      BY <1>1, <1>3, <1>4
    <2>3. QED
      BY <2>1, <2>2 DEF Visits
  <1>a. PICK S \in SUBSET Names : S = IF Is(fs, w.ino, "dir") THEN Inside(fs, w.ino) ELSE {}
    BY DEF Inside
  <1>b. \/ CallOn(s, Return(j, FALSE), fs, mem[s])
        \/ /\ w.ino # None
           /\ \E names \in SetToSeqs(S) :
                 CallOn(s, [j EXCEPT !.todo = [k \in DOMAIN names |-> [path |-> Append(x, names[k]), last |-> FALSE]]
                                             \o <<[path |-> x, last |-> TRUE]>> \o Tail(@)], fs, mem[s])
    BY <1>1, <1>a, Zenon DEF TreeLook, Call
  <1>6. CASE CallOn(s, Return(j, FALSE), fs, mem[s])
    <2>1. PICK k : k = Return(j, FALSE) /\ CallOn(s, k, fs, mem[s])
      BY <1>6
    <2>2. k.pc = "done" /\ Follows(k, j) /\ Right(k, fs)
      BY <1>2, <2>1, Answering, FailureRight
    <2>3. QED
      BY <1>1, <2>1, <2>2, NearStep
  <1>7. CASE \E names \in SetToSeqs(S) :
                CallOn(s, [j EXCEPT !.todo = [k \in DOMAIN names |-> [path |-> Append(x, names[k]), last |-> FALSE]]
                                            \o <<[path |-> x, last |-> TRUE]>> \o Tail(@)], fs, mem[s])
    <2>2. PICK names \in SetToSeqs(S) :
             CallOn(s, [j EXCEPT !.todo = [k \in DOMAIN names |-> [path |-> Append(x, names[k]), last |-> FALSE]]
                                          \o <<[path |-> x, last |-> TRUE]>> \o Tail(@)], fs, mem[s])
      BY <1>7
    <2>3. names \in Seq(S) /\ names \in Seq(Names)
      BY Listing
    <2>4. PICK below : below = [k \in DOMAIN names |-> [path |-> Append(x, names[k]), last |-> FALSE]]
      OBVIOUS
    <2>5. PICK n \in Nat : n = Len(names) /\ DOMAIN names = 1..n
      BY <2>3
    <2>a. \A i \in 1..n : names[i] \in S /\ Append(x, names[i]) \in Seq(Names)
      BY <1>5, <2>3, <2>5
    <2>b. below \in Seq(Visits) /\ DOMAIN below = 1..n
      <3>1. \A i \in 1..n : [path |-> Append(x, names[i]), last |-> FALSE] \in Visits
        BY <2>a DEF Visits
      <3>2. below \in [1..n -> Visits]
        BY <2>4, <2>5, <3>1
      <3>3. QED
        BY <3>2
    <2>c. ASSUME NEW i \in 1..n PROVE below[i].path = Append(x, names[i])
      <3>1. PICK y : y = Append(x, names[i])
        OBVIOUS
      <3>2. below[i] = [path |-> y, last |-> FALSE]
        BY <2>4, <2>5, <3>1
      <3>3. below[i].path = y
        BY <3>2
      <3>4. QED
        BY <3>1, <3>3
    <2>d. PICK self : self = [path |-> x, last |-> TRUE]
      OBVIOUS
    <2>6. self = [path |-> x, last |-> TRUE] /\ self.path = x
      BY <2>d
    <2>7. self \in Visits
      BY <1>5, <2>6 DEF Visits
    <2>8. PICK todo : todo = below \o <<self>> \o r
      OBVIOUS
    <2>9. /\ \A k \in DOMAIN todo : \/ \E i \in DOMAIN below : todo[k] = below[i]
                                    \/ todo[k] = self
                                    \/ \E i \in DOMAIN r : todo[k] = r[i]
          /\ r = <<>> => todo[Len(todo)] = self
          /\ r # <<>> => todo[Len(todo)] = r[Len(r)]
      BY <1>4, <2>b, <2>7, <2>8, Unfolded
    <2>10. PICK k : k = [j EXCEPT !.todo = todo] /\ CallOn(s, k, fs, mem[s])
      BY <1>3, <2>2, <2>4, <2>6, <2>8
    <2>11. k.pc = "tree" /\ k.todo = todo /\ k.p = j.p /\ k.before = j.before /\ k.out = j.out /\ Follows(k, j)
      BY <1>2, <2>10, JobFields DEF JobType, Follows
    <2>12. ASSUME j.before # None PROVE todo[Len(todo)].path = j.p
      <3>1. t[Len(t)].path = j.p
        BY <1>2, <1>3, <2>12 DEF Right, Knows
      <3>2. CASE r = <<>>
        BY <1>4, <1>5, <2>6, <2>9, <3>1, <3>2
      <3>3. CASE r # <<>>
        BY <1>4, <2>9, <3>1, <3>3
      <3>4. QED
        BY <3>2, <3>3
    <2>13. Right(k, fs)
      BY <2>11, <2>12 DEF Right, Knows
    <2>14. ASSUME j.before # None PROVE \A e \in DOMAIN todo : Doomed(j, todo[e].path)
      <3>1. Sound(j.before) /\ Shrunk(fs, j.before) /\ \A e \in DOMAIN t : Doomed(j, t[e].path)
        BY <1>2, <1>3, <2>14 DEF Near
      <3>2. Doomed(j, x)
        BY <1>4, <1>5, <3>1
      <3>3. ASSUME NEW i \in DOMAIN below PROVE Doomed(j, below[i].path)
        <4>1. names[i] \in Names /\ below[i].path = Append(x, names[i]) /\ S # {}
          BY <2>a, <2>b, <2>c
        <4>2. Is(fs, Walk(fs, x, FALSE).ino, "dir")
          BY <1>1, <1>a, <4>1
        <4>3. QED
          BY <1>2, <1>5, <2>14, <3>1, <3>2, <4>1, <4>2, DoomedBelow
      <3>4. \A i \in DOMAIN r : Doomed(j, r[i].path)
        BY <1>4, <3>1
      <3>5. Doomed(j, self.path)
        BY <2>6, <3>2
      <3>6. QED
        BY <2>9, <3>3, <3>4, <3>5
    <2>15. Near(k, fs)
      <3>1. SUFFICES ASSUME j.before # None PROVE Near(k, fs)
        BY <2>11 DEF Near
      <3>2. Sound(j.before) /\ Shrunk(fs, j.before) /\ Others(j, fs) /\ ~j.spoilt /\ j.pc = "tree"
        BY <1>2, <3>1 DEF Near
      <3>3. Others(k, fs) /\ ~k.spoilt /\ \A e \in DOMAIN todo : Doomed(k, todo[e].path)
        BY <2>11, <2>14, <3>1, <3>2, SameNamed DEF Follows
      <3>4. QED
        BY <2>11, <3>2, <3>3 DEF Near, Changed
    <2>16. QED
      BY <1>1, <2>10, <2>11, <2>13, <2>15, NearLocal
  <1>8. QED
    BY <1>6, <1>7, <1>b

\* The folder itself comes last; when it is gone the path leads nowhere.
LEMMA TreeRemoveAlone == ASSUME OpsInv, AloneInv, NEW s \in Slots, TreeRemove(s) PROVE AloneInv'
  <1>1. PICK j, x, w : j = job[s] /\ x = Head(j.todo).path /\ w = Walk(fs, x, FALSE)
    OBVIOUS
  <1>2. /\ JobType(j, fs) /\ j.pc = "tree" /\ j.op = "rmtree"
        /\ j.todo \in Seq(Visits) /\ j.todo # <<>> /\ Sound(fs)
        /\ Near(j, fs) /\ Right(j, fs)
    BY <1>1, AtStep DEF TreeRemove, At, JobType, Stage
  <1>3. PICK t, r : t = j.todo /\ t \in Seq(Visits) /\ t # <<>> /\ r = Tail(j.todo)
    BY <1>2
  <1>4. /\ r \in Seq(Visits) /\ 1 \in DOMAIN t /\ Head(t) = t[1]
        /\ \A i \in DOMAIN r : i + 1 \in DOMAIN t /\ r[i] = t[i + 1]
        /\ r = <<>> <=> Len(t) = 1
        /\ r # <<>> => r[Len(r)] = t[Len(t)]
    <2>1. r = Tail(t)
      BY <1>3
    <2>2. QED
      BY <1>3, <2>1, TailOf
  <1>5. x \in Seq(Names) /\ x = t[1].path
    <2>1. t[1] \in Visits
      BY <1>3, <1>4
    <2>2. x = t[1].path
      BY <1>1, <1>3, <1>4
    <2>3. QED
      BY <2>1, <2>2 DEF Visits
  <1>6. CASE ~Removable(fs, w)
    <2>1. PICK k : k = Return(j, FALSE) /\ CallOn(s, k, fs, mem[s])
      BY <1>1, <1>6 DEF TreeRemove, Call
    <2>2. k.pc = "done" /\ Follows(k, j) /\ Right(k, fs)
      BY <1>2, <2>1, Answering, FailureRight
    <2>3. QED
      BY <1>1, <2>1, <2>2, NearStep
  <1>7. CASE Removable(fs, w)
    <2>1. PICK g : g = Take(fs, w)
      OBVIOUS
    <2>2. PICK k : /\ k = (IF Len(j.todo) = 1 THEN Return(j, TRUE) ELSE [j EXCEPT !.todo = Tail(@)])
                   /\ CallOn(s, k, g, mem[s])
      BY <1>1, <1>7, <2>1 DEF TreeRemove, Call
    <2>3. /\ Follows(k, j) /\ k.pc \in {"done", "tree"} /\ k.p = j.p /\ k.op = j.op /\ k.before = j.before
          /\ k.pc = "done" => Len(t) = 1 /\ k.answer = "ACTION_COMPLETED"
          /\ k.pc = "tree" => Len(t) # 1 /\ k.todo = r
      <3>1. CASE Len(j.todo) = 1
        <4>1. k.pc = "done" /\ Follows(k, j) /\ k.answer = "ACTION_COMPLETED"
          BY <1>2, <2>2, <3>1, Answering
        <4>2. QED
          BY <1>3, <3>1, <4>1 DEF Follows
      <3>2. CASE Len(j.todo) # 1
        <4>1. k = [j EXCEPT !.todo = r]
          BY <1>3, <2>2, <3>2
        <4>2. k.todo = r /\ k.pc = "tree" /\ Follows(k, j)
          BY <1>2, <4>1, JobFields DEF JobType, Follows
        <4>3. QED
          BY <1>3, <3>2, <4>2 DEF Follows
      <3>3. QED
        BY <3>1, <3>2
    <2>4. Located(fs, w) /\ w.ino # None
      BY <1>1, <1>2, <1>5, <1>7, Found DEF Removable
    <2>5. Sound(fs')
      BY TreeRemoveKeeps DEF OpsInv
    <2>6. /\ Shrunk(fs', fs)
          /\ \A p \in Seq(Names) : w = Walk(fs, p, FALSE) => Walk(fs', p, FALSE).ino = None
      <3>1. PICK m : CallOn(s, k, g, m)
        BY <2>2
      <3>2. g = Take(fs, w) /\ Located(fs, w) /\ Removable(fs, w)
        BY <1>7, <2>1, <2>4
      <3>3. QED
        BY <2>5, <3>1, <3>2, TakeLeaves
    <2>7. /\ Sound(g)
          /\ \A i \in Inodes : fs[i].kind = "file" => g[i] = fs[i] /\ (InTree(fs, i) => InTree(g, i) \/ i = w.ino)
      BY <1>2, <1>7, <2>1, <2>4, TakeTouches
    <2>8. ASSUME j.before # None
          PROVE  /\ Sound(j.before) /\ Shrunk(fs, j.before) /\ (\A e \in DOMAIN t : Doomed(j, t[e].path))
                 /\ t[Len(t)].path = j.p
      BY <1>2, <1>3, <2>8 DEF Near, Right, Knows
    <2>9. k.pc = "done" => Walk(fs', k.p, FALSE).ino = None \/ j.before = None
      <3>1. SUFFICES ASSUME k.pc = "done", j.before # None PROVE Walk(fs', k.p, FALSE).ino = None
        OBVIOUS
      <3>2. x = j.p
        BY <1>5, <2>3, <2>8, <3>1
      <3>3. QED
        BY <1>1, <1>5, <2>3, <2>6, <3>2
    <2>10. Right(k, fs')
      <3>1. CASE k.pc = "done"
        <4>1. k.before # None => Truthful(k, fs')
          BY <1>2, <2>3, <2>9, <3>1 DEF Truthful, Completed, Noticed, Failed
        <4>2. QED
          BY <3>1, <4>1 DEF Right, Knows
      <3>2. CASE k.pc = "tree"
        <4>1. j.before # None => k.todo[Len(k.todo)].path = k.p
          BY <1>4, <2>3, <2>8, <3>2
        <4>2. QED
          BY <2>3, <3>2, <4>1 DEF Right, Knows
      <3>3. QED
        BY <2>3, <3>1, <3>2
    <2>11. j.before # None => Meant(j, w.ino)
      <3>1. SUFFICES ASSUME j.before # None PROVE Meant(j, w.ino)
        OBVIOUS
      <3>2. PICK no, b : no = FALSE /\ b = j.before
        OBVIOUS
      <3>3. w = Walk(fs, x, no) /\ Sound(b) /\ Shrunk(fs, b)
        BY <1>1, <2>8, <3>1, <3>2
      <3>4. Walk(fs, x, no).ino = None \/ Walk(fs, x, no) = Walk(b, x, no)
        BY <1>2, <1>5, <3>3, ShrunkWalk
      <3>5. Walk(b, x, no) = w
        BY <2>4, <3>3, <3>4
      <3>6. Doomed(j, x)
        BY <1>4, <1>5, <2>8, <3>1
      <3>7. Walk(j.before, j.p, FALSE).ino # None /\ Beneath(j.before, w.ino, Walk(j.before, j.p, FALSE).ino)
        BY <2>4, <3>2, <3>5, <3>6 DEF Doomed
      <3>8. QED
        BY <1>2, <3>7 DEF Meant, Named
    <2>12. \A i \in Inodes : /\ job[s].before # None /\ fs[i].kind = "file"
                             /\ g[i] # fs[i] \/ (InTree(fs, i) /\ ~InTree(g, i))
                             => Meant(job[s], i)
      <3>1. ASSUME NEW i \in Inodes, job[s].before # None, fs[i].kind = "file",
                   g[i] # fs[i] \/ (InTree(fs, i) /\ ~InTree(g, i))
            PROVE  Meant(job[s], i)
        <4>1. i = w.ino
          BY <2>7, <3>1
        <4>2. QED
          BY <1>1, <2>11, <3>1, <4>1
      <3>2. QED
        BY <3>1
    <2>13. k.before # None /\ k.pc = "tree" => /\ Shrunk(fs', k.before)
                                               /\ \A e \in DOMAIN k.todo : Doomed(k, k.todo[e].path)
      <3>1. SUFFICES ASSUME j.before # None, k.pc = "tree"
                     PROVE  Shrunk(fs', j.before) /\ \A e \in DOMAIN r : Doomed(k, r[e].path)
        BY <2>3
      <3>2. Shrunk(fs', j.before)
        BY <1>2, <2>6, <2>8, <3>1, ShrunkMore DEF Sound
      <3>3. \A e \in DOMAIN r : Doomed(j, r[e].path)
        BY <1>4, <2>8, <3>1
      <3>4. QED
        BY <2>3, <3>2, <3>3, SameNamed
    <2>14. QED
      BY <1>1, <2>2, <2>3, <2>7, <2>10, <2>12, <2>13, NearChanged DEF Changed
  <1>8. QED
    BY <1>6, <1>7

\* What has a name in f has one in g, and so has what is new.
Grown(g, f) ==
    \A i \in Inodes :
       IF f[i].kind = "free" THEN g[i].kind = "free" \/ InTree(g, i) ELSE InTree(f, i) => InTree(g, i)

\* A call by which nothing loses its name frees nothing.
LEMMA CallExact ==
    ASSUME OpsInv, AloneInv, NEW s \in Slots, NEW j, NEW f, NEW m, CallOn(s, j, f, m), Sound(f),
           Follows(j, job[s]), Grown(f, fs)
    PROVE  fs' = f
  <1>1. /\ fs' = [i \in Inodes |-> fs'[i]]
        /\ \A i \in Inodes : fs'[i] = f[i] \/ fs'[i] = Free
        /\ \A i \in Inodes : i = Root \/ InTree(f, i) => fs'[i] = f[i]
        /\ \A i \in Inodes : /\ fs[i].kind # "free" /\ (InTree(fs, i) => InTree(f, i))
                             /\ i \in {job[s].in, job[s].out} => i \in {j.in, j.out}
                             => fs'[i] = f[i]
    BY CallLeaves
  <1>2. ASSUME NEW i \in Inodes PROVE fs'[i] = f[i]
    <2>1. CASE fs[i].kind # "free"
      BY <1>1, <2>1, Constants DEF Follows, Grown
    <2>2. CASE fs[i].kind = "free"
      <3>1. f[i].kind = "free" \/ InTree(f, i)
        BY <2>2 DEF Grown
      <3>2. f[i].kind = "free" => f[i] = Free
        BY NodeKinds DEF Sound, FsType
      <3>3. QED
        BY <1>1, <3>1, <3>2
    <2>3. QED
      BY <2>1, <2>2
  <1>3. QED
    BY <1>1, <1>2 DEF Sound, FsType

\* Paths lead where they led if no more than the contents of files has changed.
LEMMA WalkSame ==
    ASSUME NEW f, Sound(f), NEW g, Sound(g), \A i \in Inodes : g[i].kind = f[i].kind,
           \A i \in Inodes : f[i].kind # "file" => g[i] = f[i], NEW p \in Seq(Names), NEW follow
    PROVE  Walk(g, p, follow).ino = Walk(f, p, follow).ino
  <1>1. Shrunk(g, f)
    BY DEF Shrunk, Is
  <1>2. Shrunk(f, g)
    BY DEF Shrunk, Is
  <1>3. Walk(g, p, follow).ino = None \/ Walk(g, p, follow) = Walk(f, p, follow)
    BY <1>1, ShrunkWalk
  <1>4. Walk(f, p, follow).ino = None \/ Walk(f, p, follow) = Walk(g, p, follow)
    BY <1>2, ShrunkWalk
  <1>5. QED
    BY <1>3, <1>4

\* A file is opened, and made if there is none: no file has changed, and what has been opened
\* is what the path led to before, or new.
LEMMA OpensTouches ==
    ASSUME NEW f, Sound(f), NEW p \in Seq(Names), NEW follow, NEW w, w = Walk(f, p, follow),
           NEW node, IsNode(node), node.kind = "file",
           NEW g, g = f \/ (Creatable(f, w) /\ g = Create(f, w, node)), NEW o, o = Walk(g, p, follow).ino
    PROVE  /\ Sound(g)
           /\ \A i \in Inodes : f[i].kind = "file" => g[i] = f[i] /\ (InTree(f, i) => InTree(g, i))
           /\ o \in Inodes \union {None}
           /\ o # None /\ f[o].kind = "file" => o = w.ino
           /\ Grown(g, f)
  <1>1. w.dir # None => Located(f, w)
    BY Found
  <1>2. CASE g # f
    <2>1. node.kind # "free" /\ node.kind # "dir"
      OBVIOUS
    <2>2. Located(f, w) /\ w.ino = None /\ g = Create(f, w, node) /\ Creatable(f, w)
      BY <1>1, <1>2 DEF Creatable
    <2>3. PICK u \in Unused(f) :
             /\ Sound(g) /\ g[u] = node
             /\ \A i \in Inodes \ {u} : g[i].kind = f[i].kind
             /\ \A i \in Inodes \ {u, w.dir} : g[i] = f[i]
             /\ \A e \in Inodes, m \in Names, i \in Inodes :
                   Entered(g, e, m, i) <=> IF e = w.dir /\ m = w.name THEN i = u ELSE Entered(f, e, m, i)
             /\ \A i \in Inodes : InTree(g, i) <=> InTree(f, i) \/ i = u
      BY <2>1, <2>2, Created
    <2>4. u \in Inodes /\ f[u].kind = "free" /\ g[u].kind = "file"
      BY <2>3, Nodes DEF Unused
    <2>5. o \in {None, u}
      <3>1. /\ Sound(g) /\ \A i \in Inodes \ {u} : g[i].kind = f[i].kind
            /\ \A i \in Inodes \ {u, w.dir} : g[i] = f[i]
        BY <2>3
      <3>2. \A e \in Inodes, m \in Names, i \in Inodes :
               Entered(g, e, m, i)
                  <=> (e = w.dir /\ m = w.name /\ i = u) \/ (~(e = w.dir /\ m = w.name) /\ Entered(f, e, m, i))
        BY <2>3
      <3>3. Walk(f, p, follow).ino = None
        BY <2>2
      <3>4. QED
        BY <2>2, <2>4, <3>1, <3>2, <3>3, Reaches
    <2>6. \A i \in Inodes : f[i].kind = "file" => g[i] = f[i] /\ (InTree(f, i) => InTree(g, i))
      BY <2>1, <2>2, Beside
    <2>7. Grown(g, f)
      <3>1. \A i \in Inodes : InTree(f, i) => InTree(g, i)
        BY <2>3
      <3>2. \A i \in Inodes : f[i].kind = "free" => g[i].kind = "free" \/ InTree(g, i)
        BY <2>3
      <3>3. QED
        BY <3>1, <3>2 DEF Grown
    <2>8. QED
      BY <2>3, <2>4, <2>5, <2>6, <2>7
  <1>3. CASE g = f
    <2>1. o \in Inodes \union {None}
      BY <1>3, Found
    <2>2. Grown(g, f)
      BY <1>3 DEF Grown
    <2>3. QED
      BY <1>3, <2>1, <2>2
  <1>4. QED
    BY <1>2, <1>3

\* A new file is empty.
LEMMA NewFile == IsNode(File(<<>>)) /\ File(<<>>).kind = "file"
  <1>1. <<>> \in Seq(Blocks)
    OBVIOUS
  <1>2. PICK none \in Seq(Blocks) : none = <<>>
    BY <1>1
  <1>3. QED
    BY <1>2, Nodes

\* Writing to a file touches no other, and every path leads where it led.
LEMMA StoreTouches ==
    ASSUME NEW f, Sound(f), NEW o \in Inodes, f[o].kind = "file", NEW d \in Seq(Blocks),
           NEW g, g = Stored(f, o, d)
    PROVE  /\ Sound(g) /\ g[o].data = d
           /\ \A i \in Inodes : g[i].kind = f[i].kind
           /\ \A i \in Inodes : (i # o => g[i] = f[i]) /\ (InTree(f, i) <=> InTree(g, i))
           /\ \A follow : \A p \in Seq(Names) : Walk(g, p, follow).ino = Walk(f, p, follow).ino
  <1>1. /\ Sound(g) /\ \A i \in Inodes : g[i].kind = f[i].kind
        /\ g[o].data = d /\ \A i \in Inodes \ {o} : g[i] = f[i]
        /\ \A i \in Inodes : InTree(g, i) <=> InTree(f, i)
    <2>1. PICK h : /\ h = [f EXCEPT ![o].data = d]
                   /\ Sound(h) /\ \A i \in Inodes : h[i].kind = f[i].kind
                   /\ h[o].data = d /\ \A i \in Inodes \ {o} : h[i] = f[i]
                   /\ \A i \in Inodes : InTree(h, i) <=> InTree(f, i)
      BY DataSet
    <2>2. h = g
      BY <2>1 DEF Stored
    <2>3. QED
      BY <2>1, <2>2
  <1>2. \A i \in Inodes : f[i].kind # "file" => g[i] = f[i]
    BY <1>1
  <1>3. ASSUME NEW p \in Seq(Names), NEW follow PROVE Walk(g, p, follow).ino = Walk(f, p, follow).ino
    BY <1>1, <1>2, WalkSame
  <1>4. QED
    BY <1>1, <1>3

\* A copy is answered truly if it is whole.
LEMMA CopyAnswered ==
    ASSUME NEW f, NEW j, JobType(j, f), j.op \in {"copy", "cptree"}, NEW ok, NEW g,
           ok /\ j.before # None =>
              /\ j.op = "copy" /\ j.in # None => IsPrefix(Data(j.before, j.p), Data(g, j.q))
              /\ j.op = "cptree" /\ ~j.missed => Data(g, CpTarget(j.before, j.p, j.q)) = Data(j.before, j.p)
    PROVE  Right(Return(j, ok), g)
  <1>1. PICK k : k = Return(j, ok)
    OBVIOUS
  <1>2. /\ k.pc = "done" /\ Follows(k, j) /\ k.in = j.in /\ k.missed = j.missed
        /\ ~ok => k.answer = "ERROR_OCCURED"
    BY <1>1, Answering
  <1>3. k.op = j.op /\ k.p = j.p /\ k.q = j.q /\ k.before = j.before
    BY <1>2 DEF Follows
  <1>4. k.before # None => Knows(k)
    BY <1>2 DEF Knows
  <1>5. k.before # None => Truthful(k, g)
    BY <1>2, <1>3 DEF Truthful, Completed, Noticed, Failed
  <1>6. QED
    BY <1>1, <1>4, <1>5 DEF Right

\* Nothing at all is the beginning of everything.
LEMMA NoneIsPrefix == ASSUME NEW d \in Seq(Blocks) PROVE IsPrefix(<<>>, d)
  <1>1. \E T : d \in Seq(T)
    OBVIOUS
  <1>2. QED
    BY <1>1 DEF IsPrefix

\* The contents that a path leads to.
LEMMA DataAt ==
    ASSUME NEW f, NEW p, NEW i, Walk(f, p, TRUE).ino = i
    PROVE  /\ i # None /\ f[i].kind = "file" => Data(f, p) = f[i].data
           /\ ~(i # None /\ f[i].kind = "file") => Data(f, p) = <<>>
  BY DEF Data, Is

\* The target is opened: the file that has the name, or a new one.
LEMMA CopyTargetAlone == ASSUME OpsInv, AloneInv, NEW s \in Slots, CopyTarget(s) PROVE AloneInv'
  <1>1. PICK j, w : j = job[s] /\ w = Walk(fs, j.q, TRUE)
    OBVIOUS
  <1>2. /\ JobType(j, fs) /\ j.pc = "target" /\ j.op = "copy" /\ j.q \in Seq(Names) /\ Sound(fs)
        /\ j.in \in Inodes \union {None} /\ j.out = None /\ Right(j, fs)
        /\ j.before # None => fs = j.before
    BY <1>1, AtStep DEF CopyTarget, At, JobType, Stage, Changed
  <1>3. PICK g : g = Opens(fs, w, TRUE)
    OBVIOUS
  <1>4. PICK i, o : i = Walk(g, j.q, TRUE).ino /\ o = IF Is(g, i, "file") THEN i ELSE None
    OBVIOUS
  <1>5. /\ Sound(g) /\ Grown(g, fs)
        /\ \A e \in Inodes : fs[e].kind = "file" => g[e] = fs[e] /\ (InTree(fs, e) => InTree(g, e))
        /\ i # None /\ fs[i].kind = "file" => i = w.ino
    <2>1. PICK p \in Seq(Names) : p = j.q
      BY <1>2
    <2>2. PICK node : node = File(<<>>) /\ IsNode(node) /\ node.kind = "file"
      BY NewFile
    <2>3. PICK follow : w = Walk(fs, p, follow) /\ i = Walk(g, p, follow).ino
      BY <1>1, <1>4, <2>1
    <2>a. g = fs \/ (Creatable(fs, w) /\ g = Create(fs, w, node))
      BY <1>3, <2>2 DEF Opens
    <2>4. /\ Sound(g) /\ Grown(g, fs)
          /\ \A e \in Inodes : fs[e].kind = "file" => g[e] = fs[e] /\ (InTree(fs, e) => InTree(g, e))
      BY <1>2, <2>2, <2>3, <2>a, OpensTouches
    <2>5. i # None /\ fs[i].kind = "file" => i = w.ino
      BY <1>2, <2>2, <2>3, <2>a, OpensTouches
    <2>6. QED
      BY <2>4, <2>5
  <1>a. [j EXCEPT !.pc = "fstat"] = [j EXCEPT !.pc = "fstat", !.out = None]
    BY <1>2, JobFields DEF JobType
  <1>b. \E a, h : /\ (a = o /\ h = g) \/ (a = None /\ h = fs)
                  /\ CallOn(s, [j EXCEPT !.pc = "fstat", !.out = a], h, mem[s])
    BY <1>1, <1>3, <1>4, <1>a DEF CopyTarget, Call, Opens
  <1>6. PICK a, h, k : /\ (a = o /\ h = g) \/ (a = None /\ h = fs)
                       /\ k = [j EXCEPT !.pc = "fstat", !.out = a] /\ CallOn(s, k, h, mem[s])
    BY <1>b
  <1>7. /\ k.pc = "fstat" /\ k.out = a /\ k.in = j.in /\ Follows(k, j) /\ k.op = "copy"
        /\ k.p = j.p /\ k.q = j.q /\ k.before = j.before
    BY <1>2, <1>6, JobFields DEF JobType, Follows
  <1>8. Right(k, fs')
    BY <1>2, <1>7 DEF Right, Knows
  <1>9. /\ Sound(h) /\ Grown(h, fs)
        /\ \A e \in Inodes : fs[e].kind = "file" => h[e] = fs[e] /\ (InTree(fs, e) => InTree(h, e))
    <2>1. Grown(fs, fs)
      BY DEF Grown
    <2>2. QED
      BY <1>2, <1>5, <1>6, <2>1
  <1>10. fs' = h
    BY <1>1, <1>6, <1>7, <1>9, CallExact
  <1>11. k.before # None /\ k.out # None /\ k.before[k.out].kind = "file" => k.out \in Named(k)
    <2>1. SUFFICES ASSUME k.before # None, a # None, k.before[a].kind = "file" PROVE a \in Named(k)
      BY <1>7
    <2>2. fs = k.before /\ a = i
      BY <1>2, <1>4, <1>6, <1>7, <2>1
    <2>3. a = w.ino
      BY <1>5, <2>1, <2>2
    <2>4. QED
      BY <1>1, <1>7, <2>2, <2>3 DEF Named
  <1>12. k.before # None => Copying(k, fs')
    <2>1. SUFFICES ASSUME k.before # None PROVE Copying(k, h)
      BY <1>10
    <2>2. fs = k.before
      BY <1>2, <1>7, <2>1
    <2>3. k.in # None /\ k.before[k.in].kind = "file" => h[k.in] = k.before[k.in]
      BY <1>2, <1>7, <1>9, <2>2
    <2>4. k.out # None => Walk(h, k.q, TRUE).ino = k.out
      BY <1>4, <1>6, <1>7
    <2>5. QED
      BY <1>7, <2>3, <2>4 DEF Copying, Target
  <1>13. \A e \in Inodes : /\ job[s].before # None /\ fs[e].kind = "file" /\ job[s].before[e] = fs[e]
                           /\ h[e] # fs[e] \/ (InTree(fs, e) /\ ~InTree(h, e))
                           => Meant(job[s], e)
    BY <1>9
  <1>14. Sound(h) /\ k.pc \in Changed /\ k.pc # "tree"
    BY <1>7, <1>9 DEF Changed
  <1>15. QED
    BY <1>1, <1>6, <1>7, <1>8, <1>11, <1>12, <1>13, <1>14, NearChanged

\* Only the target is written, and it begins with the source if all of that was sent.
LEMMA CopySendAlone == ASSUME OpsInv, AloneInv, NEW s \in Slots, CopySend(s) PROVE AloneInv'
  <1>1. PICK j, i, o : j = job[s] /\ i = j.in /\ o = j.out
    OBVIOUS
  <1>2. /\ JobType(j, fs) /\ j.pc = "sendfile" /\ j.op = "copy" /\ j.q \in Seq(Names)
        /\ Sound(fs) /\ Near(j, fs) /\ Right(j, fs)
        /\ i \in Inodes \union {None} /\ o \in Inodes \union {None} /\ (o # None => fs[o].kind = "file")
    BY <1>1, AtStep DEF CopySend, At, JobType, Stage
  <1>a. /\ j.size \in Int /\ (j.in # None => 0 <= j.size)
        /\ ~j.spoilt /\ Is(fs, j.in, "file") => j.size = Len(fs[j.in].data)
    BY <1>1, <1>2, Slot DEF CopyInv
  <1>3. CASE Is(fs, i, "file") /\ o # None
    <2>1. PICK n \in 0..j.size :
             /\ n <= Len(fs[i].data)
             /\ CallOn(s, Return(j, n = j.size), [fs EXCEPT ![o].data = Over(fs[i].data, @, n)], mem[s])
      BY <1>1, <1>3, Zenon DEF CopySend, Call
    <2>2. i \in Inodes /\ o \in Inodes /\ fs[i].kind = "file" /\ fs[o].kind = "file"
      BY <1>2, <1>3 DEF Is
    <2>3. PICK new \in Seq(Blocks), old \in Seq(Blocks) : new = fs[i].data /\ old = fs[o].data
      BY <1>2, <2>2, FileData
    <2>4. n \in 0..Len(new)
      BY <1>a, <2>1, <2>3
    <2>5. PICK d \in Seq(Blocks) : d = Over(new, old, n) /\ (n = Len(new) => IsPrefix(new, d))
      BY <2>4, Overwritten
    <2>6. PICK g : g = Stored(fs, o, d)
      OBVIOUS
    <2>7. PICK ok : ok = (n = j.size)
      OBVIOUS
    <2>8. PICK k : k = Return(j, ok) /\ CallOn(s, k, g, mem[s])
      BY <2>1, <2>3, <2>5, <2>6, <2>7 DEF Stored
    <2>9. k.pc = "done" /\ Follows(k, j)
      BY <1>2, <2>8, Answering
    <2>10. /\ Sound(g) /\ g[o].data = d
           /\ \A e \in Inodes : g[e].kind = fs[e].kind
           /\ \A e \in Inodes : (e # o => g[e] = fs[e]) /\ (InTree(fs, e) <=> InTree(g, e))
           /\ \A follow : \A p \in Seq(Names) : Walk(g, p, follow).ino = Walk(fs, p, follow).ino
      BY <1>2, <2>2, <2>6, StoreTouches
    <2>11. fs' = g
      <3>1. Grown(g, fs)
        BY <2>10 DEF Grown
      <3>2. QED
        BY <1>1, <2>8, <2>9, <2>10, <3>1, CallExact
    <2>12. ASSUME ok, j.before # None PROVE IsPrefix(Data(j.before, j.p), Data(g, j.q))
      <3>1. ~j.spoilt /\ Copying(j, fs) /\ i = Walk(j.before, j.p, TRUE).ino
        BY <1>1, <1>2, <1>3, <2>12 DEF Near, Right, Knows, Is
      <3>2. IsPrefix(new, d)
        BY <1>1, <1>3, <1>a, <2>3, <2>5, <2>7, <2>12, <3>1
      <3>3. Walk(g, j.q, TRUE).ino = o
        <4>1. Walk(fs, j.q, TRUE).ino = o
          BY <1>1, <1>2, <1>3, <3>1 DEF Copying, Target
        <4>2. QED
          BY <1>2, <2>10, <4>1
      <3>4. Data(g, j.q) = d
        <4>1. g[o].kind = "file" /\ o # None /\ g[o].data = d
          BY <1>3, <2>2, <2>10
        <4>2. QED
          BY <3>3, <4>1, DataAt, Zenon
      <3>5. CASE j.before[i].kind = "file"
        <4>1. fs[i] = j.before[i]
          BY <1>1, <2>2, <3>1, <3>5, Constants DEF Copying
        <4>2. Data(j.before, j.p) = new
          <5>1. j.before[i].data = new /\ i # None
            BY <1>3, <2>3, <4>1 DEF Is
          <5>2. QED
            BY <3>1, <3>5, <5>1, DataAt, Zenon
        <4>3. QED
          BY <3>2, <3>4, <4>2
      <3>6. CASE j.before[i].kind # "file"
        <4>1. Data(j.before, j.p) = <<>>
          BY <3>1, <3>6, DataAt
        <4>2. QED
          BY <3>4, <4>1, NoneIsPrefix
      <3>7. QED
        BY <3>5, <3>6
    <2>13. Right(k, fs')
      BY <1>2, <2>8, <2>11, <2>12, CopyAnswered
    <2>14. j.before # None /\ j.before[o].kind = "file" => Meant(j, o)
      BY <1>1, <1>2, <1>3, BeneathSelf DEF Near, Meant
    <2>15. \A e \in Inodes : /\ job[s].before # None /\ fs[e].kind = "file" /\ job[s].before[e] = fs[e]
                             /\ g[e] # fs[e] \/ (InTree(fs, e) /\ ~InTree(g, e))
                             => Meant(job[s], e)
      BY <1>1, <2>10, <2>14
    <2>16. QED
      BY <1>1, <2>8, <2>9, <2>10, <2>13, <2>15, NearChanged DEF Changed
  <1>4. CASE ~(Is(fs, i, "file") /\ o # None)
    <2>1. PICK ok \in BOOLEAN : ok = (j.size = -1)
      OBVIOUS
    <2>2. PICK k : k = Return(j, ok) /\ CallOn(s, k, fs, mem[s])
      BY <1>1, <1>4, <2>1 DEF CopySend, Call
    <2>3. ASSUME j.in # None, ok PROVE FALSE
      <3>1. j.size \in Int /\ 0 <= j.size /\ j.size = -1
        BY <1>a, <2>1, <2>3
      <3>2. QED
        BY <3>1
    <2>4. k.pc = "done" /\ Follows(k, j)
      BY <1>2, <2>2, Answering
    <2>5. Right(k, fs)
      BY <1>2, <2>2, <2>3, CopyAnswered
    <2>6. QED
      BY <1>1, <2>2, <2>4, <2>5, NearStep
  <1>5. QED
    BY <1>3, <1>4

\* cp opens its target, under the name of the source if it is a folder.
LEMMA CpOpenAlone == ASSUME OpsInv, AloneInv, NEW s \in Slots, CpOpen(s) PROVE AloneInv'
  <1>1. PICK j, i, q : j = job[s] /\ i = Walk(fs, j.p, TRUE).ino /\ q = CpTarget(fs, j.p, j.q)
    OBVIOUS
  <1>2. /\ JobType(j, fs) /\ j.pc = "cp" /\ j.op = "cptree" /\ Sound(fs)
        /\ j.p \in Seq(Names) /\ j.q \in Seq(Names) /\ j.in = None /\ j.out = None
        /\ j.before # None => fs = j.before
    BY <1>1, AtStep DEF CpOpen, At, JobType, Stage, Changed
  <1>3. PICK w : w = Walk(fs, q, TRUE)
    OBVIOUS
  <1>4. PICK yes \in BOOLEAN : yes = (Walk(fs, q, FALSE).ino = None)
    OBVIOUS
  <1>5. PICK f : f = Opens(fs, w, yes)
    OBVIOUS
  <1>6. PICK o : o = Walk(f, q, TRUE).ino
    OBVIOUS
  <1>c. \/ /\ Is(fs, i, "file") /\ i # o /\ Is(f, o, "file")
           /\ CallOn(s, [j EXCEPT !.pc = "cpwrite", !.in = i, !.out = o], [f EXCEPT ![o].data = <<>>], mem[s])
        \/ \E killed \in BOOLEAN : CallOn(s, Return(Miss(j, killed), killed), fs, mem[s])
    BY <1>1, <1>3, <1>4, <1>5, <1>6 DEF CpOpen, Call, Opens
  <1>7. ASSUME Is(fs, i, "file"), i # o, Is(f, o, "file"),
               CallOn(s, [j EXCEPT !.pc = "cpwrite", !.in = i, !.out = o], [f EXCEPT ![o].data = <<>>], mem[s])
        PROVE  AloneInv'
    <2>2. q \in Seq(Names)
      BY <1>1, <1>2, <1>7, Targeted
    <2>3. /\ Sound(f) /\ Grown(f, fs)
          /\ \A e \in Inodes : fs[e].kind = "file" => f[e] = fs[e] /\ (InTree(fs, e) => InTree(f, e))
          /\ o \in Inodes \union {None}
          /\ o # None /\ fs[o].kind = "file" => o = w.ino
      <3>1. PICK node : node = File(<<>>) /\ IsNode(node) /\ node.kind = "file"
        BY NewFile
      <3>2. PICK follow : w = Walk(fs, q, follow) /\ o = Walk(f, q, follow).ino
        BY <1>3, <1>6
      <3>3. f = fs \/ (Creatable(fs, w) /\ f = Create(fs, w, node))
        BY <1>5, <3>1 DEF Opens
      <3>4. /\ Sound(f) /\ Grown(f, fs)
            /\ \A e \in Inodes : fs[e].kind = "file" => f[e] = fs[e] /\ (InTree(fs, e) => InTree(f, e))
        BY <1>2, <2>2, <3>1, <3>2, <3>3, OpensTouches
      <3>5. o \in Inodes \union {None}
        BY <2>2, <3>2, <3>4, Found
      <3>6. o # None /\ fs[o].kind = "file" => o = w.ino
        BY <1>2, <2>2, <3>1, <3>2, <3>3, OpensTouches
      <3>7. QED
        BY <3>4, <3>5, <3>6
    <2>4. o \in Inodes /\ f[o].kind = "file"
      BY <1>7, <2>3 DEF Is
    <2>5. PICK d \in Seq(Blocks) : d = <<>>
      <3>1. <<>> \in Seq(Blocks)
        OBVIOUS
      <3>2. QED
        BY <3>1
    <2>6. PICK g : g = Stored(f, o, d)
      OBVIOUS
    <2>7. /\ Sound(g)
          /\ \A e \in Inodes : g[e].kind = f[e].kind
          /\ \A e \in Inodes : (e # o => g[e] = f[e]) /\ (InTree(f, e) <=> InTree(g, e))
          /\ \A follow : \A p \in Seq(Names) : Walk(g, p, follow).ino = Walk(f, p, follow).ino
      BY <2>3, <2>4, <2>6, StoreTouches
    <2>8. PICK k : k = [j EXCEPT !.pc = "cpwrite", !.in = i, !.out = o] /\ CallOn(s, k, g, mem[s])
      BY <1>7, <2>5, <2>6 DEF Stored
    <2>9. /\ k.pc = "cpwrite" /\ k.in = i /\ k.out = o /\ Follows(k, j) /\ k.op = "cptree"
          /\ k.p = j.p /\ k.q = j.q /\ k.before = j.before
      BY <1>2, <2>8, JobFields DEF JobType, Follows
    <2>10. Right(k, fs')
      BY <1>1, <1>2, <1>7, <2>9 DEF Right, Knows
    <2>11. j.before # None /\ fs[o].kind = "file" => o \in Named(j) /\ o \in Named(k)
      <3>1. SUFFICES ASSUME j.before # None, fs[o].kind = "file" PROVE o \in Named(j) /\ o \in Named(k)
        OBVIOUS
      <3>2. o = w.ino /\ fs = j.before
        BY <1>2, <2>3, <2>4, <3>1, Constants
      <3>3. o \in Named(j)
        BY <1>1, <1>2, <1>3, <3>2 DEF Named
      <3>4. QED
        BY <2>9, <3>3, SameNamed
    <2>12. j.before # None /\ fs[o].kind = "file" => Meant(j, o)
      BY <2>4, <2>11, BeneathSelf, Constants DEF Meant
    <2>13. \A e \in Inodes : /\ job[s].before # None /\ fs[e].kind = "file" /\ job[s].before[e] = fs[e]
                             /\ g[e] # fs[e] \/ (InTree(fs, e) /\ ~InTree(g, e))
                             => Meant(job[s], e)
      BY <1>1, <2>3, <2>7, <2>12
    <2>14. k.before # None /\ k.out # None /\ k.before[k.out].kind = "file" => k.out \in Named(k)
      BY <1>2, <2>9, <2>11
    <2>15. Sound(g) /\ k.pc \in Changed /\ k.pc # "tree"
      BY <2>7, <2>9 DEF Changed
    <2>16. fs' = g
      <3>1. Grown(g, fs)
        BY <2>3, <2>7 DEF Grown
      <3>2. QED
        BY <1>1, <2>7, <2>8, <2>9, <3>1, CallExact
    <2>17. k.before # None => Copying(k, fs')
      <3>1. SUFFICES ASSUME k.before # None PROVE Copying(k, g)
        BY <2>16
      <3>2. fs = k.before
        BY <1>2, <2>9, <3>1
      <3>3. i \in Inodes /\ fs[i].kind = "file"
        BY <1>1, <1>2, <1>7, Found DEF Is
      <3>4. g[i] = fs[i]
        BY <1>7, <2>3, <2>7, <3>3
      <3>5. Target(k) = q
        BY <1>1, <2>9, <3>2 DEF Target
      <3>6. Walk(g, q, TRUE).ino = o
        BY <1>6, <2>2, <2>7
      <3>7. QED
        BY <2>9, <3>2, <3>4, <3>5, <3>6 DEF Copying
    <2>18. QED
      BY <1>1, <2>8, <2>9, <2>10, <2>13, <2>14, <2>15, <2>17, NearChanged
  <1>8. ASSUME NEW killed \in BOOLEAN, CallOn(s, Return(Miss(j, killed), killed), fs, mem[s])
        PROVE  AloneInv'
    <2>1. PICK l, k : l = Miss(j, killed) /\ k = Return(l, killed) /\ CallOn(s, k, fs, mem[s])
      BY <1>8
    <2>2. /\ JobType(l, fs) /\ l.before = j.before /\ (l.missed <=> j.missed \/ killed)
          /\ Follows(l, j) /\ \A a : Follows(a, l) => Follows(a, j)
      <3>1. killed \in BOOLEAN /\ l = Miss(j, killed)
        BY <2>1
      <3>2. QED
        BY <1>2, <3>1, Overlooking
    <2>3. l.op = "cptree"
      BY <1>2, <2>2 DEF Follows
    <2>4. k.pc = "done" /\ Follows(k, j)
      BY <2>1, <2>2, Answering
    <2>5. Right(k, fs)
      BY <2>1, <2>2, <2>3, CopyAnswered
    <2>6. QED
      BY <1>1, <2>1, <2>4, <2>5, NearStep
  <1>9. QED
    BY <1>7, <1>8, <1>c

\* Only the target is written, and it is the source if cp has ended by itself.
LEMMA CpWriteAlone == ASSUME OpsInv, AloneInv, NEW s \in Slots, CpWrite(s) PROVE AloneInv'
  <1>1. PICK j, i, o : j = job[s] /\ i = j.in /\ o = j.out
    OBVIOUS
  <1>2. /\ JobType(j, fs) /\ j.pc = "cpwrite" /\ j.op = "cptree"
        /\ j.p \in Seq(Names) /\ j.q \in Seq(Names)
        /\ Sound(fs) /\ Near(j, fs) /\ Right(j, fs) /\ CopyInv(j, fs)
        /\ i \in Inodes \union {None} /\ o \in Inodes \union {None} /\ (o # None => fs[o].kind = "file")
    BY <1>1, AtStep, Slot DEF CpWrite, At, JobType, Stage
  <1>3. /\ i \in Inodes /\ o \in Inodes /\ i # None /\ o # None /\ fs[i].kind = "file" /\ fs[o].kind = "file"
        /\ ~j.spoilt => fs[o].data = <<>>
    BY <1>1, <1>2 DEF CopyInv
  <1>4. PICK new \in Seq(Blocks), old \in Seq(Blocks) : new = fs[i].data /\ old = fs[o].data
    BY <1>2, <1>3, FileData
  <1>5. PICK n \in 0..Len(new), killed \in BOOLEAN :
           CallOn(s, Return(Miss(j, killed), killed \/ n = Len(new)), [fs EXCEPT ![o].data = Over(new, @, n)], mem[s])
    BY <1>1, <1>4, Zenon DEF CpWrite, Call
  <1>6. PICK d \in Seq(Blocks) : d = Over(new, old, n) /\ (n = Len(new) /\ old = <<>> => d = new)
    BY Overwritten
  <1>7. PICK g : g = Stored(fs, o, d)
    OBVIOUS
  <1>8. PICK ok, l : ok = (killed \/ n = Len(new)) /\ killed \in BOOLEAN /\ l = Miss(j, killed)
    OBVIOUS
  <1>9. PICK k : k = Return(l, ok) /\ CallOn(s, k, g, mem[s])
    BY <1>4, <1>5, <1>6, <1>7, <1>8 DEF Stored
  <1>a. /\ JobType(l, fs) /\ l.before = j.before /\ (l.missed <=> j.missed \/ killed)
        /\ Follows(l, j) /\ \A a : Follows(a, l) => Follows(a, j)
    BY <1>2, <1>8, Overlooking
  <1>b. l.op = "cptree" /\ l.p = j.p /\ l.q = j.q
    BY <1>2, <1>a DEF Follows
  <1>10. k.pc = "done" /\ Follows(k, j)
    BY <1>9, <1>a, Answering
  <1>11. /\ Sound(g) /\ g[o].data = d
         /\ \A e \in Inodes : g[e].kind = fs[e].kind
         /\ \A e \in Inodes : (e # o => g[e] = fs[e]) /\ (InTree(fs, e) <=> InTree(g, e))
         /\ \A follow : \A p \in Seq(Names) : Walk(g, p, follow).ino = Walk(fs, p, follow).ino
    BY <1>2, <1>3, <1>7, StoreTouches
  <1>12. fs' = g
    <2>1. Grown(g, fs)
      BY <1>11 DEF Grown
    <2>2. QED
      BY <1>1, <1>9, <1>10, <1>11, <2>1, CallExact
  <1>13. ASSUME ok, j.before # None, ~l.missed
         PROVE  Data(g, CpTarget(j.before, j.p, j.q)) = Data(j.before, j.p)
    <2>1. ~j.spoilt /\ Copying(j, fs) /\ i = Walk(j.before, j.p, TRUE).ino /\ Is(j.before, i, "file") /\ Sound(j.before)
      BY <1>1, <1>2, <1>3, <1>13 DEF Near, Right, Knows
    <2>2. d = new
      <3>1. n = Len(new)
        BY <1>8, <1>13, <1>a
      <3>2. old = <<>>
        BY <1>3, <1>4, <2>1
      <3>3. QED
        BY <1>6, <3>1, <3>2
    <2>3. PICK q : q = CpTarget(j.before, j.p, j.q) /\ q \in Seq(Names)
      BY <1>2, <2>1, Targeted
    <2>4. Walk(g, q, TRUE).ino = o
      <3>1. Walk(fs, q, TRUE).ino = o
        BY <1>1, <1>2, <1>3, <2>1, <2>3 DEF Copying, Target
      <3>2. QED
        BY <1>11, <2>3, <3>1
    <2>5. Data(g, q) = d
      <3>1. g[o].kind = "file" /\ o # None /\ g[o].data = d
        BY <1>3, <1>11
      <3>2. QED
        BY <2>4, <3>1, DataAt, Zenon
    <2>6. fs[i] = j.before[i]
      BY <1>1, <1>3, <2>1 DEF Copying, Is
    <2>7. Data(j.before, j.p) = new
      <3>1. j.before[i].data = new /\ j.before[i].kind = "file"
        BY <1>4, <2>1, <2>6 DEF Is
      <3>2. QED
        BY <1>3, <2>1, <3>1, DataAt, Zenon
    <2>8. QED
      BY <2>2, <2>3, <2>5, <2>7
  <1>14. Right(k, fs')
    BY <1>9, <1>12, <1>13, <1>a, <1>b, CopyAnswered
  <1>15. j.before # None /\ j.before[o].kind = "file" => Meant(j, o)
    BY <1>1, <1>2, <1>3, BeneathSelf DEF Near, Meant
  <1>16. \A e \in Inodes : /\ job[s].before # None /\ fs[e].kind = "file" /\ job[s].before[e] = fs[e]
                           /\ g[e] # fs[e] \/ (InTree(fs, e) /\ ~InTree(g, e))
                           => Meant(job[s], e)
    BY <1>1, <1>11, <1>15
  <1>17. QED
    BY <1>1, <1>9, <1>10, <1>11, <1>14, <1>16, NearChanged DEF Changed

-----------------------------------------------------------------------------
(* The answers.                                                            *)

\* No request is under way at first.
LEMMA InitAlone == Init => AloneInv
  BY DEF Init, AloneInv, NoJob, Near, Right, Slots

\* Every step keeps what holds of a request that is alone.
LEMMA StepAlone == OpsInv /\ AloneInv /\ [Next]_vars => AloneInv'
  <1> SUFFICES ASSUME OpsInv, AloneInv, [Next]_vars PROVE AloneInv'
    OBVIOUS
  <1>1. ASSUME NEW s \in Slots, NEW p \in Asked, NEW op \in OnePath, Request(s, op, p, <<>>) PROVE AloneInv'
    <2>1. p \in Seq(Names) /\ <<>> \in Seq(Names)
      BY Asking
    <2>2. QED
      BY <1>1, <2>1, RequestAlone
  <1>2. ASSUME NEW s \in Slots, NEW p \in Asked, NEW op \in TwoPath, NEW q \in Asked, Request(s, op, p, q)
        PROVE  AloneInv'
    BY <1>2, Asking, RequestAlone
  <1>3. ASSUME NEW s \in Slots, NEW p \in Asked, Refuse(s, p) PROVE AloneInv'
    BY <1>3, RefuseAlone
  <1>4. ASSUME NEW s \in Slots, Slave(s) PROVE AloneInv'
    <2>1. CASE MkdirStat(s) \/ Mkdir(s) \/ Move(s) \/ RemoveFile(s)
      BY <2>1, MkdirStatAlone, MkdirAlone, MoveAlone, RemoveFileAlone
    <2>2. CASE CopySource(s) \/ CopyTarget(s) \/ CopyStat(s) \/ CopySend(s)
      BY <2>2, CopySourceAlone, CopyTargetAlone, CopyStatAlone, CopySendAlone
    <2>3. CASE TreeLook(s) \/ TreeRemove(s) \/ CpOpen(s) \/ CpWrite(s)
      BY <2>3, TreeLookAlone, TreeRemoveAlone, CpOpenAlone, CpWriteAlone
    <2>4. CASE StatAccess(s) \/ StatIsDir(s) \/ StatSize(s) \/ MD5Open(s) \/ MD5Read(s)
      BY <2>4, StatAccessAlone, StatIsDirAlone, StatSizeAlone, MD5OpenAlone, MD5ReadAlone
    <2>5. CASE ReadLink(s) \/ Symlink(s) \/ LsOpen(s) \/ LsEntry(s) \/ LsSize(s) \/ LsEnd(s) \/ Release(s)
      BY <2>5, ReadLinkAlone, SymlinkAlone, LsOpenAlone, LsEntryAlone, LsSizeAlone, LsEndAlone, ReleaseAlone
    <2>6. QED
      BY <1>4, <2>1, <2>2, <2>3, <2>4, <2>5 DEF Slave
  <1>5. CASE UNCHANGED vars
    BY <1>5 DEF vars, AloneInv
  <1>6. QED
    BY <1>1, <1>2, <1>3, <1>4, <1>5 DEF Next, Arrive

\* No other file has changed under it.
LEMMA AloneKept == AloneInv => OthersKept
  BY DEF AloneInv, Near, Others, OthersKept, Alone

\* Its answer is true.
LEMMA AloneTrue == OpsInv /\ AloneInv => AnswerIsTrue
  <1> SUFFICES ASSUME OpsInv, AloneInv, NEW s \in Slots, Alone(s) PROVE Truthful(job[s], fs)
    BY DEF AnswerIsTrue
  <1>1. PICK j : j = job[s] /\ JobType(j, fs) /\ Right(j, fs) /\ j.before # None
    BY AtStep DEF Alone
  <1>2. CASE j.pc = "done"
    BY <1>1, <1>2 DEF Right
  <1>3. CASE j.pc # "done"
    <2>1. j.answer = "none"
      BY <1>1, <1>3 DEF JobType
    <2>2. Truthful(j, fs)
      BY <2>1 DEF Truthful, Completed, Noticed, Failed
    <2>3. QED
      BY <1>1, <2>2
  <1>4. QED
    BY <1>2, <1>3

\* A request that runs alone, from the call it starts with to its answer, changes no file
\* but those it names and what lies in them: a tree is removed without following the links
\* in it, and neither a copy, a move nor a new name touches what another name has.
THEOREM OthersAreKept == Spec => []OthersKept
  <1>1. OpsInv /\ AloneInv /\ [Next]_vars => AloneInv'
    BY StepAlone
  <1>2. QED
    BY <1>1, InitAlone, AloneKept, OpsAlways, PTL DEF Spec

\* What a request answers when it has run alone is so: the folder is made, or something was
\* there already and nothing is done; the file has moved, the file or the tree is gone; the
\* target of a copy begins with the source, that of cp is the source; the link leads where
\* the path it was made for leads, or the kernel gives up one of the two; size, digest and
\* listing are those of the file.  After an error the files are as they were, but for copies
\* and removals of trees.  Left out is what the functions do not look at themselves: a source
\* that could not be opened, a cp that was killed, what is left over behind a link's text, a
\* directory that cannot be opened, a read that fails; and a listing of another folder than
\* the one that was asked for.
THEOREM AnswersAreTrue == Spec => []AnswerIsTrue
  <1>1. OpsInv /\ AloneInv /\ [Next]_vars => AloneInv'
    BY StepAlone
  <1>2. QED
    BY <1>1, InitAlone, AloneTrue, OpsAlways, PTL DEF Spec
=============================================================================
