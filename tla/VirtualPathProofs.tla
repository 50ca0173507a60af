-------------------------- MODULE VirtualPathProofs --------------------------
(***************************************************************************)
(* Proofs about VirtualPath, for every set of names, every set of          *)
(* restricted folders and paths of any length: no path leads out of the    *)
(* base folder, every path is read as what it means, and none gets round a *)
(* restriction.                                                            *)
(***************************************************************************)
EXTENDS VirtualPath, SequenceTheorems, FiniteSetTheorems, TLAPS

\* What is left of a sequence without its last element.
LEMMA FrontType ==
    ASSUME NEW T, NEW s \in Seq(T), s # <<>>
    PROVE  Front(s) \in Seq(T)
  <1>1. Len(s) \in Nat \ {0}
    OBVIOUS
  <1>2. \A k \in 1..Len(s) - 1 : s[k] \in T
    BY <1>1
  <1>3. QED
    BY <1>1, <1>2 DEF Front

LEMMA FrontAppend ==
    ASSUME NEW T, NEW s \in Seq(T), s # <<>>
    PROVE  /\ s = Append(Front(s), s[Len(s)]) /\ Len(Front(s)) = Len(s) - 1
           /\ \A k \in 1..Len(s) - 1 : Front(s)[k] = s[k]
  <1>1. Len(s) \in Nat \ {0}
    OBVIOUS
  <1>2. /\ Front(s) \in Seq(T) /\ Len(Front(s)) = Len(s) - 1
        /\ \A k \in 1..Len(s) - 1 : Front(s)[k] = s[k]
    <2>1. 1 \in Int /\ Len(s) - 1 \in Int /\ \A k \in 1..Len(s) - 1 : s[k] \in T
      BY <1>1
    <2>2. /\ Len(Front(s)) = IF 1 <= Len(s) - 1 THEN (Len(s) - 1) - 1 + 1 ELSE 0
          /\ \A k \in 1..(Len(s) - 1) - 1 + 1 : Front(s)[k] = s[1 + k - 1]
      BY <2>1, SubSeqProperties DEF Front
    <2>a. PICK m \in Nat : Len(s) = m /\ m # 0
      BY <1>1
    <2>3. Len(Front(s)) = Len(s) - 1
      BY <2>a, <2>2
    <2>4. \A k \in 1..Len(s) - 1 : Front(s)[k] = s[k]
      BY <1>1, <2>2
    <2>5. QED
      BY <2>3, <2>4, FrontType
  <1>3. Append(Front(s), s[Len(s)]) = s
    BY <1>1, <1>2
  <1>4. QED
    BY <1>2, <1>3

\* A path that is sent is a sequence of parts, and stays one without its last separator.
LEMMA PathType ==
    ASSUME NEW p \in Paths
    PROVE  /\ p \in Seq(Part)
           /\ Stripped(p) \in Seq(Part)
           /\ Absolute(Stripped(p)) => Tail(Stripped(p)) \in Seq(Part)
  <1>1. PICK n \in 1..MaxLen : p \in [1..n -> Part]
    BY DEF Paths
  <1>2. p \in Seq(Part)
    BY <1>1, VirtualPathAssumption
  <1>3. Stripped(p) \in Seq(Part)
    BY <1>2, FrontType DEF Stripped
  <1>4. Absolute(Stripped(p)) => Tail(Stripped(p)) \in Seq(Part)
    BY <1>3 DEF Absolute
  <1>5. QED
    BY <1>2, <1>3, <1>4

LEMMA NoPath == <<NoName>> \in Seq(Part) /\ <<>> \in Seq(Part) /\ <<>> \in Folder
  <1>1. NoName \in Part
    BY DEF Part, Special
  <1>2. QED
    BY <1>1 DEF Folder

LEMMA InitType == Init => TypeOK
  <1> SUFFICES ASSUME Init PROVE TypeOK
    OBVIOUS
  <1>1. Contained /\ rest \in Seq(Part) /\ path \in Seq(Part)
    BY NoPath DEF Init, Contained
  <1>2. QED
    BY <1>1 DEF Init, TypeOK

\* A new path starts from the root or from the folder of the user.
LEMMA BeginType ==
    ASSUME TypeOK, NEW kind \in {"cd", "file"}, NEW p \in Paths, Begin(kind, p)
    PROVE  TypeOK'
  <1>1. newStr' \in Folder /\ touched' = (newStr' # <<>>)
    BY DEF Begin, TypeOK, Contained, Folder
  <1>2. rest' \in Seq(Part) /\ path' \in Seq(Part)
    BY PathType DEF Begin
  <1>3. QED
    BY <1>1, <1>2 DEF Begin, TypeOK, Contained

\* A part of the path takes away the last name of the folder, adds a name, or does
\* neither: no dots and no empty name ever come in.
LEMMA PartType ==
    ASSUME TypeOK, Up \/ UpIgnored \/ UpBreaks \/ Stay \/ Down
    PROVE  TypeOK'
  <1>1. rest \in Seq(Part) /\ rest # <<>> /\ Tail(rest) \in Seq(Part)
    BY DEF TypeOK, Up, UpIgnored, UpBreaks, Stay, Down, Parsing
  <1>2. CASE Up
    <2>1. newStr' \in Folder
      BY <1>2, FrontType DEF Up, TypeOK, Contained, Folder
    <2>2. QED
      BY <1>1, <1>2, <2>1 DEF Up, TypeOK, Contained
  <1>3. CASE UpIgnored \/ UpBreaks \/ Stay
    <2>1. rest' \in Seq(Part)
      BY <1>1, <1>3, NoPath DEF UpIgnored, UpBreaks, Stay
    <2>2. UNCHANGED <<folder, limited, op, newStr, touched, refused, path>>
      BY <1>3 DEF UpIgnored, UpBreaks, Stay
    <2>3. QED
      BY <2>1, <2>2 DEF TypeOK, Contained
  <1>4. CASE Down
    <2>1. newStr' \in Folder
      BY <1>4 DEF Down, TypeOK, Contained, Folder
    <2>2. QED
      BY <1>1, <1>4, <2>1 DEF Down, TypeOK, Contained
  <1>5. QED
    BY <1>2, <1>3, <1>4

LEMMA DoneType ==
    ASSUME TypeOK, ChangeDir \/ GetRealFile
    PROVE  TypeOK'
  <1>1. <<NoName>> \in Seq(Part) /\ <<>> \in Folder
    BY NoPath DEF Folder
  <1>2. IsRestricted(newStr) \in BOOLEAN
    BY DEF IsRestricted, TypeOK
  <1>3. QED
    BY <1>1, <1>2 DEF ChangeDir, GetRealFile, Done, TypeOK, Contained

\* No path, whatever its parts and wherever the user is, leads out of the base folder:
\* the folder that parseChangeDir puts together, and the one it leaves with the user, are
\* sequences of names.
THEOREM PathsStayInside == Spec => []TypeOK
  <1>1. TypeOK /\ [Next]_vars => TypeOK'
    <2> SUFFICES ASSUME TypeOK, [Next]_vars PROVE TypeOK'
      OBVIOUS
    <2>1. CASE \E kind \in {"cd", "file"}, p \in Paths : Begin(kind, p)
      BY <2>1, BeginType
    <2>2. CASE Up \/ UpIgnored \/ UpBreaks \/ Stay \/ Down
      BY <2>2, PartType
    <2>3. CASE ChangeDir \/ GetRealFile
      BY <2>3, DoneType
    <2>4. CASE UNCHANGED vars
      BY <2>4 DEF vars, TypeOK, Contained
    <2>5. QED
      BY <2>1, <2>2, <2>3, <2>4 DEF Next
  <1>2. QED
    BY InitType, <1>1, PTL DEF Spec

-----------------------------------------------------------------------------
(* The elements of a finite set of numbers in their order: what Meaning is *)
(* put together by.                                                        *)

Rank(P, k) == Cardinality({i \in P : i <= k})
Nth(P, n) == CHOOSE k \in P : Rank(P, k) = n

\* Every element has its place in the order, and no two have the same.
LEMMA RankInjective ==
    ASSUME NEW P \in SUBSET Nat, IsFiniteSet(P)
    PROVE  /\ Cardinality(P) \in Nat
           /\ \A k \in P : Rank(P, k) \in 1..Cardinality(P)
           /\ \A k, l \in P : k < l => Rank(P, k) < Rank(P, l)
           /\ \A k, l \in P : Rank(P, k) = Rank(P, l) => k = l
  <1>1. \A k : IsFiniteSet({i \in P : i <= k}) /\ {i \in P : i <= k} \in SUBSET P
    BY FS_Subset
  <1>2. ASSUME NEW k \in P PROVE Rank(P, k) \in 1..Cardinality(P)
    <2>1. Cardinality({i \in P : i <= k}) # 0
      BY <1>1, FS_EmptySet
    <2>2. QED
      BY <1>1, <2>1, FS_Subset, FS_CardinalityType DEF Rank
  <1>3. ASSUME NEW k \in P, NEW l \in P, k < l PROVE Rank(P, k) < Rank(P, l)
    <2>1. \A i \in P : i <= k => i <= l
      BY <1>3
    <2>a. ~(l <= k) /\ l <= l
      BY <1>3
    <2>2. {i \in P : i <= k} \subseteq {i \in P : i <= l} /\ l \notin {i \in P : i <= k} /\ l \in {i \in P : i <= l}
      BY <2>1, <2>a
    <2>3. QED
      BY <1>1, <2>2, FS_Subset, FS_CardinalityType DEF Rank
  <1>4. ASSUME NEW k \in P, NEW l \in P, Rank(P, k) = Rank(P, l) PROVE k = l
    BY <1>2, <1>3, <1>4
  <1>5. QED
    BY <1>2, <1>3, <1>4, FS_CardinalityType

\* Every place in the order is taken.
LEMMA NthElement ==
    ASSUME NEW P \in SUBSET Nat, IsFiniteSet(P), NEW n \in 1..Cardinality(P)
    PROVE  Nth(P, n) \in P /\ Rank(P, Nth(P, n)) = n
  <1> DEFINE rank == [k \in P |-> Rank(P, k)]
  <1> DEFINE places == 1..Cardinality(P)
  <1>1. Cardinality(P) \in Nat
    BY FS_CardinalityType
  <1>2. rank \in Injection(P, places)
    BY RankInjective DEF Injection, IsInjective
  <1>3. IsFiniteSet(places) /\ Cardinality(places) = Cardinality(P)
    BY <1>1, FS_Interval
  <1>4. rank \in Surjection(P, places)
    BY <1>2, <1>3, FS_Injection
  <1>5. \E k \in P : Rank(P, k) = n
    BY <1>4 DEF Surjection
  <1>6. QED
    BY <1>5 DEF Nth

LEMMA NthOfRank ==
    ASSUME NEW P \in SUBSET Nat, IsFiniteSet(P), NEW k \in P
    PROVE  Nth(P, Rank(P, k)) = k
  <1>1. Cardinality(P) \in Nat /\ Rank(P, k) \in 1..Cardinality(P)
    BY RankInjective
  <1>2. Nth(P, Rank(P, k)) \in P /\ Rank(P, Nth(P, Rank(P, k))) = Rank(P, k)
    BY <1>1, NthElement
  <1>3. \A i, j \in P : Rank(P, i) = Rank(P, j) => i = j
    BY RankInjective
  <1>4. QED
    BY <1>2, <1>3

\* A new largest element comes last, and leaves the others where they are.
LEMMA NthAdd ==
    ASSUME NEW P \in SUBSET Nat, IsFiniteSet(P), NEW x \in Nat, \A i \in P : i < x
    PROVE  /\ IsFiniteSet(P \cup {x}) /\ Cardinality(P \cup {x}) = Cardinality(P) + 1
           /\ \A n \in 1..Cardinality(P) : Nth(P \cup {x}, n) = Nth(P, n)
           /\ Nth(P \cup {x}, Cardinality(P) + 1) = x
  <1> DEFINE Q == P \cup {x}
  <1>1. x \notin P /\ Q \in SUBSET Nat
    OBVIOUS
  <1>2. IsFiniteSet(Q) /\ Cardinality(Q) = Cardinality(P) + 1
    BY <1>1, FS_AddElement
  <1>3. ASSUME NEW n \in 1..Cardinality(P) PROVE Nth(Q, n) = Nth(P, n)
    <2>1. Nth(P, n) \in P /\ Rank(P, Nth(P, n)) = n
      BY NthElement
    <2>2. PICK k \in P : k = Nth(P, n)
      BY <2>1
    <2>a. k \in Nat /\ k < x /\ ~(x <= k)
      OBVIOUS
    <2>b. {i \in Q : i <= Nth(P, n)} = {i \in P : i <= Nth(P, n)}
      BY <2>2, <2>a
    <2>3. Rank(Q, Nth(P, n)) = n /\ Nth(P, n) \in Q
      BY <2>1, <2>b DEF Rank
    <2>4. QED
      BY <1>1, <1>2, <2>3, NthOfRank
  <1>4. Nth(Q, Cardinality(P) + 1) = x
    <2>a. \A i \in Q : i <= x
      OBVIOUS
    <2>1. {i \in Q : i <= x} = Q
      BY <2>a
    <2>2. Rank(Q, x) = Cardinality(P) + 1
      BY <1>2, <2>1 DEF Rank
    <2>3. QED
      BY <1>1, <1>2, <2>2, NthOfRank
  <1>5. QED
    BY <1>2, <1>3, <1>4

\* The last element is the largest.
LEMMA NthLast ==
    ASSUME NEW P \in SUBSET Nat, IsFiniteSet(P), P # {}
    PROVE  \E x \in P : \A i \in P : i <= x
  <1>1. Cardinality(P) \in Nat \ {0}
    BY FS_CardinalityType, FS_EmptySet
  <1>a. Cardinality(P) \in 1..Cardinality(P)
    BY <1>1
  <1>2. PICK x \in P : Rank(P, x) = Cardinality(P)
    BY <1>a, NthElement
  <1>3. {i \in P : i <= x} = P
    BY <1>2, FS_Subset DEF Rank
  <1>4. QED
    BY <1>3

-----------------------------------------------------------------------------
(* What one more part does to a path.                                      *)

LEMMA Occurrences ==
    ASSUME NEW q, NEW S, NEW a \in Int, NEW b \in Int
    PROVE  /\ IsFiniteSet({k \in a..b : q[k] \in S})
           /\ Count(q, S, a, b) \in Nat
  <1>1. IsFiniteSet(a..b)
    BY FS_Interval
  <1>2. IsFiniteSet({k \in a..b : q[k] \in S})
    BY <1>1, FS_Subset
  <1>3. QED
    BY <1>2, FS_CardinalityType DEF Count

LEMMA CountAppend ==
    ASSUME NEW q \in Seq(Part), NEW x \in Part, NEW S, NEW a \in 1..Len(q) + 1
    PROVE  /\ \A b \in a..Len(q) : Count(Append(q, x), S, a, b) = Count(q, S, a, b)
           /\ Count(Append(q, x), S, a, Len(q) + 1)
                 = Count(q, S, a, Len(q)) + IF x \in S THEN 1 ELSE 0
  <1> DEFINE p == Append(q, x)
  <1>0. Len(q) \in Nat /\ p \in Seq(Part) /\ Len(p) = Len(q) + 1 /\ p[Len(q) + 1] = x
        /\ \A k \in 1..Len(q) : p[k] = q[k]
    OBVIOUS
  <1> HIDE DEF p
  <1>1. ASSUME NEW b \in a..Len(q) PROVE Count(p, S, a, b) = Count(q, S, a, b)
    <2>1. {k \in a..b : p[k] \in S} = {k \in a..b : q[k] \in S}
      BY <1>0
    <2>2. QED
      BY <2>1 DEF Count
  <1>2. Count(p, S, a, Len(q) + 1) = Count(q, S, a, Len(q)) + IF x \in S THEN 1 ELSE 0
    <2> DEFINE old == {k \in a..Len(q) : q[k] \in S}
    <2> DEFINE new == {k \in a..Len(q) + 1 : p[k] \in S}
    <2>a. a \in Int /\ Len(q) \in Int
      BY <1>0
    <2>b. IsFiniteSet(old)
      BY <2>a, Occurrences
    <2>1. IsFiniteSet(old) /\ Cardinality(old) \in Nat
      BY <2>b, FS_CardinalityType
    <2>c. Count(q, S, a, Len(q)) = Cardinality(old) /\ Count(p, S, a, Len(q) + 1) = Cardinality(new)
      BY DEF Count
    <2> HIDE DEF old, new
    <2>2. CASE x \in S
      <3>1. new = old \cup {Len(q) + 1} /\ Len(q) + 1 \notin old
        BY <1>0, <2>2 DEF old, new
      <3>2. Cardinality(new) = Cardinality(old) + 1
        BY <2>1, <3>1, FS_AddElement
      <3>3. QED
        BY <2>2, <2>c, <3>2
    <2>3. CASE x \notin S
      <3>1. new = old
        BY <1>0, <2>3 DEF old, new
      <3>2. QED
        BY <2>1, <2>3, <2>c, <3>1
    <2>4. QED
      BY <2>2, <2>3
  <1>3. QED
    BY <1>1, <1>2 DEF p

\* How many more names than `..' there are from a place to the end.
Balance(q, k) == Count(q, Names, k, Len(q)) - Count(q, {".."}, k, Len(q))

LEMMA PlacesFinite ==
    ASSUME NEW q \in Seq(Part)
    PROVE  Places(q) \in SUBSET Nat /\ Places(q) \subseteq 1..Len(q) /\ IsFiniteSet(Places(q))
  <1>1. IsFiniteSet(1..Len(q))
    BY FS_Interval
  <1>2. Places(q) \subseteq 1..Len(q)
    BY DEF Places
  <1>3. QED
    BY <1>1, <1>2, FS_Subset

\* The names that stay if a part is added: those that have names to spare, and the new one.
LEMMA PlacesAppend ==
    ASSUME NEW q \in Seq(Part), NEW x \in Part
    PROVE  Places(Append(q, x))
              = {k \in Places(q) : x = ".." => Balance(q, k) > 1}
                \cup (IF x \in Names THEN {Len(q) + 1} ELSE {})
  <1> DEFINE p == Append(q, x)
  <1>0. Len(q) \in Nat /\ Len(p) = Len(q) + 1 /\ p[Len(q) + 1] = x
        /\ \A k \in 1..Len(q) : p[k] = q[k]
    OBVIOUS
  <1>n. x = ".." => x \notin Names
    BY VirtualPathAssumption DEF Special
  <1>a. ASSUME NEW k \in 1..Len(q) + 1
        PROVE  /\ Count(q, Names, k, Len(q)) \in Nat /\ Count(q, {".."}, k, Len(q)) \in Nat
               /\ \A to \in k..Len(q) : /\ Count(p, Names, k, to) = Count(q, Names, k, to)
                                        /\ Count(p, {".."}, k, to) = Count(q, {".."}, k, to)
               /\ Count(p, Names, k, Len(q) + 1)
                     = Count(q, Names, k, Len(q)) + IF x \in Names THEN 1 ELSE 0
               /\ Count(p, {".."}, k, Len(q) + 1)
                     = Count(q, {".."}, k, Len(q)) + IF x = ".." THEN 1 ELSE 0
    <2>1. k \in Int /\ Len(q) \in Int
      BY <1>0
    <2>2. Count(q, Names, k, Len(q)) \in Nat /\ Count(q, {".."}, k, Len(q)) \in Nat
      BY <2>1, Occurrences
    <2>3. \A S : /\ \A to \in k..Len(q) : Count(p, S, k, to) = Count(q, S, k, to)
                 /\ Count(p, S, k, Len(q) + 1) = Count(q, S, k, Len(q)) + IF x \in S THEN 1 ELSE 0
      BY CountAppend
    <2>4. x \in {".."} <=> x = ".."
      OBVIOUS
    <2> HIDE DEF p
    <2>5. QED
      BY <2>2, <2>3, <2>4
  <1> HIDE DEF p
  <1>1. ASSUME NEW k \in 1..Len(q) PROVE k \in Places(p) <=> k \in Places(q) /\ (x = ".." => Balance(q, k) > 1)
    <2>1. k \in 1..Len(q) + 1 /\ Len(q) \in k..Len(q) /\ k..Len(q) + 1 = (k..Len(q)) \cup {Len(q) + 1}
      BY <1>0
    <2>2. p[k] = q[k]
      BY <1>0
    <2>3. (\A to \in k..Len(q) : Count(p, {".."}, k, to) < Count(p, Names, k, to))
          <=> (\A to \in k..Len(q) : Count(q, {".."}, k, to) < Count(q, Names, k, to))
      BY <1>a, <2>1
    <2>4. ASSUME Count(q, {".."}, k, Len(q)) < Count(q, Names, k, Len(q))
          PROVE Count(p, {".."}, k, Len(q) + 1) < Count(p, Names, k, Len(q) + 1)
                <=> (x = ".." => Balance(q, k) > 1)
      BY <1>a, <1>n, <2>1, <2>4 DEF Balance
    <2>5. QED
      BY <1>0, <2>1, <2>2, <2>3, <2>4 DEF Places, Stays
  <1>2. Len(q) + 1 \in Places(p) <=> x \in Names
    <2>1. Len(q) + 1 \in 1..Len(q) + 1 /\ (Len(q) + 1)..Len(q) = {}
      BY <1>0
    <2>2. Count(q, Names, Len(q) + 1, Len(q)) = 0 /\ Count(q, {".."}, Len(q) + 1, Len(q)) = 0
      BY <2>1, FS_EmptySet DEF Count
    <2>3. x \in Names => Count(p, {".."}, Len(q) + 1, Len(q) + 1) < Count(p, Names, Len(q) + 1, Len(q) + 1)
      BY <1>a, <1>n, <2>1, <2>2
    <2>4. \A to \in (Len(q) + 1)..(Len(q) + 1) : to = Len(q) + 1
      BY <1>0
    <2>5. QED
      BY <1>0, <2>1, <2>3, <2>4 DEF Places, Stays
  <1>3. Places(p) \subseteq 1..Len(q) + 1 /\ Places(q) \subseteq 1..Len(q)
    BY <1>0 DEF Places
  <1>4. \A k \in 1..Len(q) + 1 : k \in 1..Len(q) \/ k = Len(q) + 1
    BY <1>0
  <1>5. Len(q) + 1 \notin Places(q)
    BY <1>0, <1>3
  <1>6. QED
    BY <1>1, <1>2, <1>3, <1>4, <1>5 DEF p

\* At every place that stays, there are as many names to spare as names that stay from
\* there on.
Balanced(q) ==
    \A k \in Places(q) : Balance(q, k) = Cardinality({i \in Places(q) : k <= i})

LEMMA MeaningOf ==
    ASSUME NEW q \in Seq(Part)
    PROVE  /\ Meaning(q) = [n \in 1..Cardinality(Places(q)) |-> q[Nth(Places(q), n)]]
           /\ Cardinality(Places(q)) \in Nat
           /\ Meaning(q) \in Folder /\ Len(Meaning(q)) = Cardinality(Places(q))
           /\ Meaning(q) = <<>> <=> Places(q) = {}
  <1>1. Meaning(q) = [n \in 1..Cardinality(Places(q)) |-> q[Nth(Places(q), n)]]
    BY DEF Meaning, Nth, Rank
  <1>2. Cardinality(Places(q)) \in Nat /\ (Cardinality(Places(q)) = 0 <=> Places(q) = {})
    BY PlacesFinite, FS_CardinalityType, FS_EmptySet
  <1>3. \A n \in 1..Cardinality(Places(q)) : Nth(Places(q), n) \in Places(q)
    BY PlacesFinite, NthElement
  <1>4. \A n \in 1..Cardinality(Places(q)) : q[Nth(Places(q), n)] \in Names
    BY <1>3 DEF Places, Stays
  <1>5. Meaning(q) \in Folder /\ Len(Meaning(q)) = Cardinality(Places(q))
    BY <1>1, <1>2, <1>4 DEF Folder
  <1>6. Meaning(q) = <<>> <=> Len(Meaning(q)) = 0
    BY <1>5 DEF Folder
  <1>7. QED
    BY <1>1, <1>2, <1>5, <1>6

\* From an element on there is one more, once a larger one has come to the set.
LEMMA FromOn ==
    ASSUME NEW P \in SUBSET Nat, IsFiniteSet(P), NEW x \in Nat, \A i \in P : i < x
    PROVE  /\ \A k \in P : /\ Cardinality({i \in P : k <= i}) \in Nat \ {0}
                           /\ Cardinality({i \in P \cup {x} : k <= i})
                                 = Cardinality({i \in P : k <= i}) + 1
           /\ Cardinality({i \in P \cup {x} : x <= i}) = 1
  <1>0. \A i \in P : i \in Nat /\ i <= i /\ i <= x /\ ~(x <= i)
    OBVIOUS
  <1>1. ASSUME NEW k \in P
        PROVE  /\ Cardinality({i \in P : k <= i}) \in Nat \ {0}
               /\ Cardinality({i \in P \cup {x} : k <= i}) = Cardinality({i \in P : k <= i}) + 1
    <2>1. {i \in P \cup {x} : k <= i} = {i \in P : k <= i} \cup {x} /\ x \notin {i \in P : k <= i}
      BY <1>0
    <2>2. IsFiniteSet({i \in P : k <= i}) /\ {i \in P : k <= i} # {}
      BY <1>0, FS_Subset
    <2>3. Cardinality({i \in P : k <= i}) \in Nat \ {0}
      BY <2>2, FS_CardinalityType, FS_EmptySet
    <2>4. QED
      BY <2>1, <2>2, <2>3, FS_AddElement
  <1>2. {i \in P \cup {x} : x <= i} = {x}
    <2>1. x <= x
      OBVIOUS
    <2>2. QED
      BY <1>0, <2>1
  <1>3. QED
    BY <1>1, <1>2, FS_Singleton

\* A part that adds no place and takes none away.
LEMMA SamePlaces ==
    ASSUME NEW q \in Seq(Part), NEW x \in Part, Places(Append(q, x)) = Places(q)
    PROVE  Meaning(Append(q, x)) = Meaning(q)
  <1> DEFINE p == Append(q, x)
  <1>1. p \in Seq(Part) /\ \A k \in 1..Len(q) : p[k] = q[k]
    OBVIOUS
  <1>2. \A n \in 1..Cardinality(Places(q)) : Nth(Places(q), n) \in 1..Len(q)
    BY PlacesFinite, NthElement
  <1> HIDE DEF p
  <1>3. Places(p) = Places(q)
    BY DEF p
  <1>4. [n \in 1..Cardinality(Places(q)) |-> p[Nth(Places(q), n)]]
        = [n \in 1..Cardinality(Places(q)) |-> q[Nth(Places(q), n)]]
    BY <1>1, <1>2
  <1>5. Meaning(p) = Meaning(q)
    BY <1>1, <1>3, <1>4, MeaningOf
  <1>6. QED
    BY <1>5 DEF p

\* The balance of a place, one part later.
LEMMA BalanceAppend ==
    ASSUME NEW q \in Seq(Part), NEW x \in Part, NEW k \in 1..Len(q)
    PROVE  /\ Balance(q, k) \in Int
           /\ x \in Names => Balance(Append(q, x), k) = Balance(q, k) + 1
           /\ x = ".." => Balance(Append(q, x), k) = Balance(q, k) - 1
           /\ x \in {".", NoName} => Balance(Append(q, x), k) = Balance(q, k)
  <1>1. k \in 1..Len(q) + 1 /\ k \in Int /\ Len(q) \in Int
    OBVIOUS
  <1>2. Count(q, Names, k, Len(q)) \in Nat /\ Count(q, {".."}, k, Len(q)) \in Nat
    BY <1>1, Occurrences
  <1>3. \A S : Count(Append(q, x), S, k, Len(q) + 1)
               = Count(q, S, k, Len(q)) + IF x \in S THEN 1 ELSE 0
    BY <1>1, CountAppend
  <1>4. Len(Append(q, x)) = Len(q) + 1
    OBVIOUS
  <1>5. x \in {".."} <=> x = ".."
    OBVIOUS
  <1>6. (x = ".." => x \notin Names) /\ (x \in {".", NoName} => x \notin Names /\ x # "..")
    BY VirtualPathAssumption DEF Special, NoName
  <1>7. /\ Balance(Append(q, x), k)
             = (Count(q, Names, k, Len(q)) + IF x \in Names THEN 1 ELSE 0)
               - (Count(q, {".."}, k, Len(q)) + IF x = ".." THEN 1 ELSE 0)
    BY <1>3, <1>4, <1>5 DEF Balance
  <1>8. Balance(q, k) = Count(q, Names, k, Len(q)) - Count(q, {".."}, k, Len(q))
    BY DEF Balance
  <1>9. QED
    BY <1>2, <1>6, <1>7, <1>8

\* `.' and nothing between two separators say nothing.
LEMMA ReadStay ==
    ASSUME NEW q \in Seq(Part), NEW x \in {".", NoName}
    PROVE  /\ Places(Append(q, x)) = Places(q)
           /\ Meaning(Append(q, x)) = Meaning(q)
           /\ Balanced(q) => Balanced(Append(q, x))
  <1>0. x \in Part /\ x \notin Names /\ x # ".."
    BY VirtualPathAssumption DEF Part, Special, NoName
  <1>1. Places(Append(q, x)) = Places(q)
    BY <1>0, PlacesAppend
  <1>2. Meaning(Append(q, x)) = Meaning(q)
    BY <1>0, <1>1, SamePlaces
  <1>3. \A k \in Places(q) : Balance(Append(q, x), k) = Balance(q, k)
    BY <1>0, BalanceAppend, PlacesFinite
  <1>4. Balanced(q) => Balanced(Append(q, x))
    BY <1>1, <1>3 DEF Balanced
  <1>5. QED
    BY <1>1, <1>2, <1>4

\* A name is one more place, behind all others.
LEMMA ReadDown ==
    ASSUME NEW q \in Seq(Part), NEW x \in Names
    PROVE  /\ Meaning(Append(q, x)) = Append(Meaning(q), x)
           /\ Balanced(q) => Balanced(Append(q, x))
  <1> DEFINE p == Append(q, x)  P == Places(q)  end == Len(q) + 1
  <1>0. x \in Part /\ x # ".."
    BY VirtualPathAssumption DEF Part, Special
  <1>a. p \in Seq(Part) /\ end \in Nat /\ Len(p) = end /\ p[end] = x /\ \A k \in 1..Len(q) : p[k] = q[k]
    BY <1>0
  <1>b. P \in SUBSET Nat /\ IsFiniteSet(P) /\ P \subseteq 1..Len(q)
    BY PlacesFinite
  <1>c. \A i \in P : i < end
    BY <1>b
  <1>1. Places(p) = P \cup {end}
    BY <1>0, PlacesAppend
  <1>m. /\ Meaning(q) = [n \in 1..Cardinality(P) |-> q[Nth(P, n)]]
        /\ Meaning(p) = [n \in 1..Cardinality(Places(p)) |-> p[Nth(Places(p), n)]]
        /\ Meaning(q) \in Seq(Names) /\ Len(Meaning(q)) = Cardinality(P) /\ Cardinality(P) \in Nat
    BY <1>a, MeaningOf DEF Folder
  <1> HIDE DEF p, P, end
  <1>2. /\ Cardinality(P \cup {end}) = Cardinality(P) + 1
        /\ \A n \in 1..Cardinality(P) : Nth(P \cup {end}, n) = Nth(P, n)
        /\ Nth(P \cup {end}, Cardinality(P) + 1) = end
    BY <1>a, <1>b, <1>c, NthAdd
  <1>3. \A n \in 1..Cardinality(P) : Nth(P, n) \in 1..Len(q)
    BY <1>b, NthElement
  <1>4. Meaning(p) = Append(Meaning(q), x)
    <2>1. Meaning(p) = [n \in 1..Cardinality(P) + 1 |-> p[Nth(P \cup {end}, n)]]
      BY <1>m, <1>1, <1>2
    <2>2. \A n \in 1..Cardinality(P) : p[Nth(P \cup {end}, n)] = Meaning(q)[n]
      BY <1>m, <1>2, <1>3, <1>a
    <2>3. p[Nth(P \cup {end}, Cardinality(P) + 1)] = x
      BY <1>2, <1>a
    <2>4. Append(Meaning(q), x)
          = [n \in 1..Cardinality(P) + 1 |-> IF n \in 1..Cardinality(P) THEN Meaning(q)[n] ELSE x]
      BY <1>m
    <2>5. ASSUME NEW n \in 1..Cardinality(P) + 1
          PROVE  p[Nth(P \cup {end}, n)] = IF n \in 1..Cardinality(P) THEN Meaning(q)[n] ELSE x
      <3>1. n \in 1..Cardinality(P) \/ (n = Cardinality(P) + 1 /\ n \notin 1..Cardinality(P))
        BY <1>m
      <3>2. QED
        BY <2>2, <2>3, <3>1
    <2>6. QED
      BY <2>1, <2>4, <2>5
  <1>5. ASSUME Balanced(q) PROVE Balanced(p)
    <2> SUFFICES ASSUME NEW k \in Places(p)
                 PROVE  Balance(p, k) = Cardinality({i \in Places(p) : k <= i})
      BY DEF Balanced
    <2>1. CASE k \in P
      <3>1. Balance(p, k) = Balance(q, k) + 1 /\ Balance(q, k) = Cardinality({i \in P : k <= i})
        BY <1>0, <1>b, <1>5, <2>1, BalanceAppend DEF Balanced, p, P
      <3>2. Cardinality({i \in Places(p) : k <= i}) = Cardinality({i \in P : k <= i}) + 1
        <4>1. Cardinality({i \in P \cup {end} : k <= i}) = Cardinality({i \in P : k <= i}) + 1
          BY <1>a, <1>b, <1>c, <2>1, FromOn
        <4>2. QED
          BY <4>1, <1>1
      <3>3. QED
        BY <3>1, <3>2
    <2>2. CASE k = end
      <3>1. Count(p, Names, end, end) = 1 /\ Count(p, {".."}, end, end) = 0
        <4>1. end..end = {end}
          BY <1>a
        <4>2. {i \in end..end : p[i] \in Names} = {end} /\ {i \in end..end : p[i] \in {".."}} = {}
          BY <4>1, <1>a, <1>0
        <4>3. QED
          BY <4>2, FS_Singleton, FS_EmptySet DEF Count
      <3>2. Cardinality({i \in Places(p) : end <= i}) = 1
        BY <1>1, <1>c, <1>b, <1>a, FromOn
      <3>3. Balance(p, end) = 1
        BY <3>1, <1>a DEF Balance
      <3>4. QED
        BY <2>2, <3>2, <3>3
    <2>3. QED
      BY <1>1, <2>1, <2>2
  <1>6. QED
    BY <1>4, <1>5 DEF p

\* `..' takes away the last place, whichever part of the path it was.
LEMMA ReadUp ==
    ASSUME NEW q \in Seq(Part), Balanced(q), Meaning(q) # <<>>
    PROVE  /\ Meaning(Append(q, "..")) = Front(Meaning(q))
           /\ Balanced(Append(q, ".."))
  <1> DEFINE p == Append(q, "..")  P == Places(q)
  <1>0. ".." \in Part /\ ".." \notin Names
    BY VirtualPathAssumption DEF Part, Special
  <1>a. p \in Seq(Part) /\ \A k \in 1..Len(q) : p[k] = q[k]
    BY <1>0
  <1>b. P \in SUBSET Nat /\ IsFiniteSet(P) /\ P \subseteq 1..Len(q) /\ P # {}
    BY PlacesFinite, MeaningOf
  <1>c. Places(p) = {k \in P : Balance(q, k) > 1}
    BY <1>0, PlacesAppend
  <1>d. \A k \in P : Balance(q, k) = Cardinality({i \in P : k <= i})
    BY DEF Balanced
  <1>e. \A k \in P : Balance(p, k) = Balance(q, k) - 1 /\ Balance(q, k) \in Int
    BY <1>0, <1>b, BalanceAppend
  <1>m. /\ Meaning(q) = [n \in 1..Cardinality(P) |-> q[Nth(P, n)]]
        /\ Meaning(p) = [n \in 1..Cardinality(Places(p)) |-> p[Nth(Places(p), n)]]
        /\ Meaning(q) \in Seq(Names) /\ Len(Meaning(q)) = Cardinality(P) /\ Cardinality(P) \in Nat
    BY <1>a, MeaningOf DEF Folder
  <1> HIDE DEF p, P
  <1>1. PICK last \in P : \A i \in P : i <= last
    BY <1>b, NthLast
  <1> DEFINE Q == P \ {last}
  <1>2. Q \in SUBSET Nat /\ IsFiniteSet(Q) /\ P = Q \cup {last} /\ last \in Nat /\ last \notin Q
    BY <1>b, FS_RemoveElement
  <1>3. \A i \in Q : i < last
    BY <1>1, <1>b
  <1> HIDE DEF Q
  <1>4. /\ \A k \in Q : /\ Cardinality({i \in Q : k <= i}) \in Nat \ {0}
                        /\ Balance(q, k) = Cardinality({i \in Q : k <= i}) + 1
        /\ Balance(q, last) = 1
    BY <1>2, <1>3, <1>d, FromOn
  <1>5. Places(p) = Q
    <2>1. ASSUME NEW k \in Q PROVE Balance(q, k) > 1
      <3>1. PICK c \in Nat \ {0} : c = Cardinality({i \in Q : k <= i})
        BY <1>4
      <3>2. Balance(q, k) = c + 1
        BY <1>4, <3>1
      <3>3. QED
        BY <3>1, <3>2
    <2>2. ~(Balance(q, last) > 1)
      BY <1>4
    <2>3. QED
      BY <1>c, <1>2, <2>1, <2>2
  <1>6. Cardinality(P) = Cardinality(Q) + 1 /\ \A n \in 1..Cardinality(Q) : Nth(P, n) = Nth(Q, n)
    BY <1>2, <1>3, NthAdd
  <1>7. Meaning(p) = Front(Meaning(q))
    <2>1. \A n \in 1..Cardinality(Q) : Nth(Q, n) \in 1..Len(q)
      BY <1>2, <1>b, NthElement
    <2>2. Cardinality(Q) \in Nat
      BY <1>2, FS_CardinalityType
    <2>3. Meaning(p) = [n \in 1..Cardinality(Q) |-> Meaning(q)[n]]
      BY <1>m, <1>5, <1>6, <1>a, <2>1, <2>2
    <2>4. Front(Meaning(q)) = [n \in 1..Cardinality(Q) |-> Meaning(q)[n]]
      BY <1>m, <1>6, <2>2 DEF Front
    <2>5. QED
      BY <2>3, <2>4
  <1>8. Balanced(p)
    <2> SUFFICES ASSUME NEW k \in Q
                 PROVE  Balance(p, k) = Cardinality({i \in Q : k <= i})
      BY <1>5 DEF Balanced
    <2>1. k \in P
      BY <1>2
    <2>2. QED
      BY <1>4, <1>e, <2>1
  <1>9. QED
    BY <1>7, <1>8 DEF p

\* Where nothing stays, `..' has nothing to take away.
LEMMA ReadUpNothing ==
    ASSUME NEW q \in Seq(Part), Meaning(q) = <<>>
    PROVE  Meaning(Append(q, "..")) = <<>> /\ Balanced(Append(q, ".."))
  <1>0. ".." \in Part /\ ".." \notin Names
    BY VirtualPathAssumption DEF Part, Special
  <1>1. Places(q) = {}
    BY MeaningOf
  <1>2. Places(Append(q, "..")) = {}
    BY <1>0, <1>1, PlacesAppend
  <1>3. Append(q, "..") \in Seq(Part)
    BY <1>0
  <1>4. QED
    BY <1>2, <1>3, MeaningOf DEF Balanced

-----------------------------------------------------------------------------
(* The loop of parseChangeDir: what it has made of the part it has read.   *)

HasName(q) == \E k \in 1..Len(q) : q[k] \in Names

\* The path that is read: the separator at its end is taken away before.
Sent == From(folder, Stripped(path))

AsRead(q) ==
    /\ newStr = Meaning(q)
    /\ touched <=> HasName(q)
    /\ ~Climbs(q)
    /\ Balanced(q)

\* Either the loop was left at a `..' above the root, or newStr is what the parts so far mean.
LeftAtRoot == rest = <<>> /\ newStr = <<>> /\ Climbs(Sent)
Reading == \E q \in Seq(Part) : Sent = q \o rest /\ AsRead(q)
ReadInv == op # "idle" => LeftAtRoot \/ Reading

\* The path has gone above the root if it had before, or if it goes there now.
LEMMA ClimbsAppend ==
    ASSUME NEW q \in Seq(Part), NEW x \in Part
    PROVE  Climbs(Append(q, x)) <=> Climbs(q) \/ (x = ".." /\ Meaning(q) = <<>> /\ HasName(q))
  <1> DEFINE p == Append(q, x)
  <1>1. Len(p) = Len(q) + 1 /\ Len(q) \in Nat /\ p[Len(q) + 1] = x /\ \A k \in 1..Len(q) : p[k] = q[k]
    OBVIOUS
  <1>2. \A k \in 1..Len(q) + 1 : SubSeq(p, 1, k - 1) = SubSeq(q, 1, k - 1)
    OBVIOUS
  <1>3. SubSeq(q, 1, Len(q)) = q
    OBVIOUS
  <1> HIDE DEF p
  <1> DEFINE Above(r, k) == /\ r[k] = ".." /\ Meaning(SubSeq(r, 1, k - 1)) = <<>>
                            /\ \E i \in 1..k - 1 : r[i] \in Names
  <1>4. ASSUME NEW k \in 1..Len(q) PROVE Above(p, k) <=> Above(q, k)
    <2>1. p[k] = q[k] /\ SubSeq(p, 1, k - 1) = SubSeq(q, 1, k - 1)
      BY <1>1, <1>2
    <2>2. \A i \in 1..k - 1 : p[i] = q[i]
      BY <1>1
    <2>3. QED
      BY <2>1, <2>2
  <1>5. Above(p, Len(q) + 1) <=> x = ".." /\ Meaning(q) = <<>> /\ HasName(q)
    <2>1. (Len(q) + 1) - 1 = Len(q) /\ Len(q) + 1 \in 1..Len(q) + 1
      BY <1>1
    <2>2. SubSeq(p, 1, (Len(q) + 1) - 1) = q
      BY <1>2, <1>3, <2>1
    <2>3. QED
      BY <1>1, <2>1, <2>2 DEF HasName
  <1>6. \A r : Climbs(r) <=> \E k \in 1..Len(r) : Above(r, k)
    BY DEF Climbs
  <1> HIDE DEF Above
  <1>7. \A k : k \in 1..Len(q) + 1 <=> k \in 1..Len(q) \/ k = Len(q) + 1
    BY <1>1
  <1>8. QED
    BY <1>1, <1>4, <1>5, <1>6, <1>7 DEF p

\* A path that has gone above the root has done so however it goes on.
LEMMA ClimbsOn ==
    ASSUME NEW q \in Seq(Part), NEW r \in Seq(Part), r # <<>>, r[1] = "..",
           Meaning(q) = <<>>, HasName(q)
    PROVE  Climbs(q \o r)
  <1> DEFINE k == Len(q) + 1
  <1>1. k \in 1..Len(q \o r) /\ (q \o r)[k] = ".." /\ SubSeq(q \o r, 1, k - 1) = q
    OBVIOUS
  <1>2. \E i \in 1..k - 1 : (q \o r)[i] \in Names
    BY DEF HasName
  <1>3. QED
    BY <1>1, <1>2 DEF Climbs

\* The folder of the user means itself.
LEMMA ReadFolder ==
    ASSUME NEW f \in Folder
    PROVE  /\ f \in Seq(Part) /\ Meaning(f) = f /\ Balanced(f)
           /\ HasName(f) <=> f # <<>>
           /\ ~Climbs(f)
  <1>1. f \in Seq(Part) /\ f \in Seq(Names) /\ Len(f) \in Nat /\ \A k \in 1..Len(f) : f[k] \in Names
    BY DEF Folder, Part
  <1>2. \A k \in 1..Len(f) : f[k] # ".."
    BY <1>1, VirtualPathAssumption DEF Special
  <1>3. ASSUME NEW k \in 1..Len(f), NEW to \in k..Len(f)
        PROVE  Count(f, Names, k, to) = (to - k) + 1 /\ Count(f, {".."}, k, to) = 0
    <2>1. {i \in k..to : f[i] \in Names} = k..to /\ {i \in k..to : f[i] \in {".."}} = {}
      BY <1>1, <1>2
    <2>2. Cardinality(k..to) = (to - k) + 1
      BY <1>1, FS_Interval
    <2>3. QED
      BY <2>1, <2>2, FS_EmptySet DEF Count
  <1>4. Places(f) = 1..Len(f)
    <2>1. ASSUME NEW k \in 1..Len(f) PROVE Stays(f, k)
      <3>1. \A to \in k..Len(f) : 0 < (to - k) + 1
        OBVIOUS
      <3>2. QED
        BY <1>1, <1>3, <3>1 DEF Stays
    <2>2. QED
      BY <2>1 DEF Places
  <1>5. Cardinality(1..Len(f)) = Len(f) /\ 1..Len(f) \in SUBSET Nat /\ IsFiniteSet(1..Len(f))
    <2>1. 1..Len(f) \in SUBSET Nat
      BY <1>1
    <2>2. PICK m \in Nat : m = Len(f)
      BY <1>1
    <2>3. IsFiniteSet(1..m) /\ Cardinality(1..m) = m
      BY FS_Interval
    <2>4. QED
      BY <2>1, <2>2, <2>3
  <1>6. ASSUME NEW n \in 1..Len(f) PROVE Nth(1..Len(f), n) = n
    <2>1. {i \in 1..Len(f) : i <= n} = 1..n
      BY <1>1
    <2>2. Cardinality(1..n) = n
      BY FS_Interval
    <2>3. Rank(1..Len(f), n) = n
      BY <2>1, <2>2 DEF Rank
    <2>4. QED
      BY <1>5, <2>3, NthOfRank
  <1>7. Meaning(f) = f
    <2>1. Meaning(f) = [n \in 1..Len(f) |-> f[n]]
      BY <1>1, <1>4, <1>5, <1>6, MeaningOf
    <2>2. QED
      BY <1>1, <2>1
  <1>8. Balanced(f)
    <2> SUFFICES ASSUME NEW k \in 1..Len(f)
                 PROVE  Balance(f, k) = Cardinality({i \in 1..Len(f) : k <= i})
      BY <1>4 DEF Balanced
    <2>1. Balance(f, k) = (Len(f) - k) + 1
      <3>1. Len(f) \in k..Len(f)
        BY <1>1
      <3>2. QED
        BY <1>1, <1>3, <3>1 DEF Balance
    <2>2. {i \in 1..Len(f) : k <= i} = k..Len(f)
      BY <1>1
    <2>3. Cardinality(k..Len(f)) = (Len(f) - k) + 1
      BY <1>1, FS_Interval
    <2>4. QED
      BY <2>1, <2>2, <2>3
  <1>9. HasName(f) <=> f # <<>>
    BY <1>1 DEF HasName
  <1>10. ~Climbs(f)
    BY <1>2 DEF Climbs
  <1>11. QED
    BY <1>1, <1>7, <1>8, <1>9, <1>10

LEMMA InitRead == Init => ReadInv
  BY DEF Init, ReadInv

\* A path begins with nothing but the separator read, or with the user's folder.
LEMMA BeginRead ==
    ASSUME TypeOK, NEW kind \in {"cd", "file"}, NEW p \in Paths, Begin(kind, p)
    PROVE  ReadInv'
  <1> DEFINE s == Stripped(p)
  <1>1. s \in Seq(Part) /\ folder \in Folder
    BY PathType DEF TypeOK, Contained
  <1>2. path' = p /\ folder' = folder
    BY DEF Begin
  <1> HIDE DEF s
  <1>3. Sent' = From(folder, s)
    BY <1>2 DEF Sent, s
  <1>4. CASE Absolute(s)
    <2>1. newStr' = <<>> /\ rest' = Tail(s) /\ touched' = FALSE
      BY <1>4 DEF Begin, s
    <2>2. <<>> \in Folder /\ NoName \in {".", NoName}
      BY NoPath
    <2>3. <<NoName>> \in Seq(Part) /\ Append(<<>>, NoName) = <<NoName>> /\ NoName \in Part
      BY NoPath DEF Part, Special
    <2>4. Sent' = <<NoName>> \o rest'
      BY <1>1, <1>3, <1>4, <2>1 DEF From, Absolute
    <2>5. <<>> \in Seq(Part) /\ Meaning(<<>>) = <<>> /\ Balanced(<<>>) /\ ~Climbs(<<>>)
      BY <2>2, ReadFolder
    <2>6. Meaning(<<NoName>>) = <<>> /\ Balanced(<<NoName>>)
      BY <2>2, <2>3, <2>5, ReadStay
    <2>7. NoName # ".."
      BY DEF NoName
    <2>8. ~Climbs(<<NoName>>)
      BY <2>3, <2>5, <2>7, ClimbsAppend
    <2>9. ~HasName(<<NoName>>)
      BY VirtualPathAssumption DEF HasName, Special
    <2>10. AsRead(<<NoName>>)'
      BY <2>1, <2>6, <2>8, <2>9 DEF AsRead
    <2>11. QED
      BY <2>3, <2>4, <2>10 DEF ReadInv, Reading
  <1>5. CASE ~Absolute(s)
    <2>1. newStr' = folder /\ rest' = s /\ touched' = (folder # <<>>)
      BY <1>5 DEF Begin, s
    <2>2. Sent' = folder \o rest'
      BY <1>3, <1>5, <2>1 DEF From
    <2>3. /\ folder \in Seq(Part) /\ Meaning(folder) = folder /\ Balanced(folder)
          /\ HasName(folder) <=> folder # <<>>
          /\ ~Climbs(folder)
      BY <1>1, ReadFolder
    <2>4. \E q \in Seq(Part) : Sent' = q \o rest' /\ newStr' = Meaning(q)
             /\ (touched' <=> HasName(q)) /\ ~Climbs(q) /\ Balanced(q)
      BY <2>1, <2>2, <2>3
    <2>5. QED
      BY <2>4 DEF ReadInv, Reading, AsRead
  <1>6. QED
    BY <1>4, <1>5

\* What is read with the next part.
LEMMA NextPart ==
    ASSUME NEW q \in Seq(Part), NEW r \in Seq(Part), r # <<>>
    PROVE  /\ r[1] \in Part /\ Append(q, r[1]) \in Seq(Part)
           /\ q \o r = Append(q, r[1]) \o Tail(r)
           /\ HasName(Append(q, r[1])) <=> HasName(q) \/ r[1] \in Names
  <1> DEFINE p == Append(q, r[1])
  <1>1. r[1] \in Part /\ p \in Seq(Part) /\ q \o r = p \o Tail(r)
    OBVIOUS
  <1>2. Len(p) = Len(q) + 1 /\ p[Len(q) + 1] = r[1] /\ \A k \in 1..Len(q) : p[k] = q[k]
    OBVIOUS
  <1>3. Len(q) \in Nat /\ \A k : k \in 1..Len(q) + 1 <=> k \in 1..Len(q) \/ k = Len(q) + 1
    OBVIOUS
  <1>4. HasName(p) <=> HasName(q) \/ r[1] \in Names
    BY <1>2, <1>3 DEF HasName
  <1>5. QED
    BY <1>1, <1>4

\* Every turn of the loop reads one part as the meaning of the path takes it, or leaves
\* the loop at the root.
LEMMA PartRead ==
    ASSUME TypeOK, ReadInv, Up \/ UpIgnored \/ UpBreaks \/ Stay \/ Down
    PROVE  ReadInv'
  <1>1. rest \in Seq(Part) /\ rest # <<>> /\ op # "idle"
    BY DEF TypeOK, Up, UpIgnored, UpBreaks, Stay, Down, Parsing
  <1>2. PICK q \in Seq(Part) : Sent = q \o rest /\ AsRead(q)
    BY <1>1 DEF ReadInv, LeftAtRoot, Reading
  <1>3. Sent' = Sent
    BY DEF Up, UpIgnored, UpBreaks, Stay, Down, Sent
  <1>4. PICK p \in Seq(Part) : p = Append(q, rest[1])
    BY <1>1, NextPart
  <1>5. /\ rest[1] \in Part /\ Sent = p \o Tail(rest)
        /\ HasName(p) <=> HasName(q) \/ rest[1] \in Names
    BY <1>1, <1>2, <1>4, NextPart
  <1>6. Climbs(p) <=> rest[1] = ".." /\ Meaning(q) = <<>> /\ HasName(q)
    BY <1>2, <1>4, <1>5, ClimbsAppend DEF AsRead
  <1>7. newStr = Meaning(q) /\ (touched <=> HasName(q)) /\ Balanced(q)
    BY <1>2 DEF AsRead
  <1>8. CASE UpBreaks
    <2>1. rest' = <<>> /\ newStr' = <<>> /\ rest[1] = ".." /\ touched /\ newStr = <<>>
      BY <1>8 DEF UpBreaks
    <2>2. Climbs(Sent)
      BY <1>1, <1>2, <1>7, <2>1, ClimbsOn
    <2>3. QED
      BY <1>3, <2>1, <2>2 DEF ReadInv, LeftAtRoot
  <1> DEFINE Read == newStr' = Meaning(p) /\ (touched' <=> HasName(p)) /\ ~Climbs(p) /\ Balanced(p)
  <1>9. ASSUME Up PROVE Read
    <2>1. rest[1] = ".." /\ newStr # <<>> /\ newStr' = Front(newStr) /\ touched' = touched
      BY <1>9 DEF Up
    <2>2. rest[1] \notin Names
      BY <2>1, VirtualPathAssumption DEF Special
    <2>3. QED
      BY <1>4, <1>5, <1>6, <1>7, <2>1, <2>2, ReadUp
  <1>10. ASSUME UpIgnored PROVE Read
    <2>1. rest[1] = ".." /\ newStr' = newStr /\ touched' = touched
      BY <1>10 DEF UpIgnored
    <2>2. rest[1] \notin Names
      BY <2>1, VirtualPathAssumption DEF Special
    <2>3. ~touched /\ newStr = <<>>
      BY <1>10 DEF UpIgnored, TypeOK
    <2>4. QED
      BY <1>4, <1>5, <1>6, <1>7, <2>1, <2>2, <2>3, ReadUpNothing
  <1>11. ASSUME Stay PROVE Read
    <2>1. rest[1] \in {".", NoName} /\ newStr' = newStr /\ touched' = touched
      BY <1>11 DEF Stay
    <2>2. rest[1] \notin Names /\ rest[1] # ".."
      BY <2>1, VirtualPathAssumption DEF Special, NoName
    <2>3. QED
      BY <1>4, <1>5, <1>6, <1>7, <2>1, <2>2, ReadStay
  <1>12. ASSUME Down PROVE Read
    <2>1. rest[1] \in Names /\ newStr' = Append(newStr, rest[1]) /\ touched' = TRUE
      BY <1>12 DEF Down
    <2>2. rest[1] # ".."
      BY <2>1, VirtualPathAssumption DEF Special
    <2>3. QED
      BY <1>4, <1>5, <1>6, <1>7, <2>1, <2>2, ReadDown
  <1>13. ASSUME Up \/ UpIgnored \/ Stay \/ Down PROVE ReadInv'
    <2>1. rest' = Tail(rest)
      BY <1>13 DEF Up, UpIgnored, Stay, Down
    <2>2. Read
      BY <1>9, <1>10, <1>11, <1>12, <1>13
    <2>3. QED
      BY <1>3, <1>5, <2>1, <2>2 DEF ReadInv, Reading, AsRead
  <1>14. QED
    BY <1>8, <1>13

\* The end of the path: a separator taken away there changes nothing of what it means, but
\* for "/" alone.
LEMMA SentMeans ==
    ASSUME TypeOK
    PROVE  Target = IF Climbs(Sent) THEN <<>> ELSE Meaning(Sent)
  <1>1. path \in Seq(Part) /\ folder \in Seq(Part) /\ folder \in Folder
    BY ReadFolder DEF TypeOK, Contained
  <1>2. NoName \in Part /\ NoName # ".." /\ NoName \in {".", NoName}
    BY DEF Part, Special, NoName
  <1>s. ASSUME NEW q \in Seq(Part)
        PROVE  (Climbs(Append(q, NoName)) <=> Climbs(q)) /\ Meaning(Append(q, NoName)) = Meaning(q)
    BY <1>2, ReadStay, ClimbsAppend
  <1>3. CASE OnlySlash
    <2>1. Len(path) = 2 /\ path[1] = NoName /\ path[2] = NoName
      BY <1>3 DEF OnlySlash
    <2>a. Front(path) = <<NoName>>
      <3>1. Front(path) \in Seq(Part) /\ Len(Front(path)) = 1 /\ Front(path)[1] = NoName
        <4>1. path # <<>> /\ path \in Seq(Part)
          BY <1>1, <2>1
        <4>2. Front(path) \in Seq(Part)
          BY <4>1, FrontType
        <4>3. Len(Front(path)) = Len(path) - 1 /\ \A k \in 1..Len(path) - 1 : Front(path)[k] = path[k]
          BY <4>1, FrontAppend
        <4>4. QED
          BY <2>1, <4>2, <4>3
      <3>2. QED
        BY <3>1
    <2>2. Stripped(path) = <<NoName>>
      BY <2>1, <2>a DEF Stripped
    <2>3. Sent = Append(folder, NoName)
      BY <1>1, <2>2 DEF Sent, From, Absolute
    <2>4. Meaning(folder) = folder /\ ~Climbs(folder)
      BY <1>1, ReadFolder
    <2>5. QED
      BY <1>1, <1>3, <1>s, <2>3, <2>4 DEF Target
  <1>4. CASE ~OnlySlash /\ Stripped(path) = path
    BY <1>4 DEF Target, Sent
  <1>5. CASE ~OnlySlash /\ Stripped(path) # path
    <2>1. Len(path) > 1 /\ path[Len(path)] = NoName /\ Stripped(path) = Front(path)
      BY <1>5 DEF Stripped
    <2>2. PICK p \in Seq(Part) : p = Front(path)
      BY <1>1, <2>1, FrontType
    <2>3. path = Append(p, NoName) /\ p # <<>> /\ p[1] = path[1]
      <3>1. path # <<>> /\ Len(path) - 1 > 0
        BY <1>1, <2>1
      <3>2. path = Append(p, NoName) /\ Len(p) = Len(path) - 1
        BY <1>1, <2>1, <2>2, <3>1, FrontAppend
      <3>3. QED
        BY <3>1, <3>2
    <2>4. Absolute(path) <=> Absolute(p)
      <3>1. CASE Len(p) > 1
        BY <2>1, <2>3, <3>1 DEF Absolute
      <3>2. CASE ~(Len(p) > 1)
        <4>1. Len(p) = 1 /\ Len(path) = 2
          <5>1. PICK m \in Nat : m = Len(p) /\ Len(path) = m + 1
            BY <2>3
          <5>2. m = 1
            BY <2>1, <3>2, <5>1
          <5>3. QED
            BY <5>1, <5>2
        <4>2. path[1] = p[1] /\ path[2] = NoName
          BY <2>3, <4>1
        <4>a. path = <<path[1], path[2]>>
          BY <1>1, <4>1
        <4>3. p[1] # NoName
          BY <1>5, <4>2, <4>a DEF OnlySlash
        <4>4. QED
          BY <2>3, <3>2, <4>3 DEF Absolute
      <3>3. QED
        BY <3>1, <3>2
    <2>a. From(folder, p) \in Seq(Part)
      BY <1>1 DEF From
    <2>5. PICK q \in Seq(Part) : q = From(folder, p)
      BY <2>a
    <2>6. From(folder, path) = Append(q, NoName)
      BY <1>1, <2>3, <2>4, <2>5 DEF From
    <2>7. Sent = q
      BY <2>1, <2>2, <2>5 DEF Sent
    <2>8. QED
      BY <1>5, <1>s, <2>5, <2>6, <2>7 DEF Target
  <1>6. QED
    BY <1>3, <1>4, <1>5

\* At the end of the loop newStr is the folder or file the path means.
LEMMA ReadMeans == TypeOK /\ ReadInv => MeansWhatItSays
  <1> SUFFICES ASSUME TypeOK, ReadInv, op # "idle", rest = <<>>
               PROVE  newStr = Target
    BY DEF MeansWhatItSays
  <1>1. CASE LeftAtRoot
    BY <1>1, SentMeans DEF LeftAtRoot
  <1>2. CASE Reading
    <2>1. PICK q \in Seq(Part) : Sent = q \o rest /\ AsRead(q)
      BY <1>2 DEF Reading
    <2>2. Sent = q
      BY <2>1
    <2>3. QED
      BY <2>1, <2>2, SentMeans DEF AsRead
  <1>3. QED
    BY <1>1, <1>2 DEF ReadInv

LEMMA ReadNext == TypeOK /\ ReadInv /\ [Next]_vars => ReadInv'
  <1> SUFFICES ASSUME TypeOK, ReadInv, [Next]_vars PROVE ReadInv'
    OBVIOUS
  <1>1. CASE \E kind \in {"cd", "file"}, p \in Paths : Begin(kind, p)
    BY <1>1, BeginRead
  <1>2. CASE Up \/ UpIgnored \/ UpBreaks \/ Stay \/ Down
    BY <1>2, PartRead
  <1>3. CASE ChangeDir \/ GetRealFile
    BY <1>3 DEF ChangeDir, GetRealFile, Done, ReadInv
  <1>4. CASE UNCHANGED vars
    BY <1>4 DEF vars, ReadInv, LeftAtRoot, Reading, AsRead, Sent
  <1>5. QED
    BY <1>1, <1>2, <1>3, <1>4 DEF Next

\* Whatever path a user sends and wherever it is, parseChangeDir leads to the folder or
\* file the path means.
THEOREM PathsMeanWhatTheySay == Spec => []MeansWhatItSays
  <1>1. Init => ReadInv
    BY InitRead
  <1>2. QED
    BY <1>1, PathsStayInside, ReadNext, ReadMeans, PTL DEF Spec

\* isRestrictedFolder, which compares beginnings of texts, finds out the folders that lie
\* in a restricted one.
LEMMA RestrictedWithin ==
    ASSUME NEW f \in Folder
    PROVE  (\E r \in Restricted : Within(f, r)) <=> \E n \in 0..Len(f) : SubSeq(f, 1, n) \in Restricted
  <1>1. ASSUME NEW r \in Restricted, Within(f, r)
        PROVE  \E n \in 0..Len(f) : SubSeq(f, 1, n) \in Restricted
    <2>1. Len(r) \in 0..Len(f)
      BY <1>1, VirtualPathAssumption DEF Within, Folder
    <2>2. QED
      BY <1>1, <2>1 DEF Within
  <1>2. ASSUME NEW n \in 0..Len(f), SubSeq(f, 1, n) \in Restricted
        PROVE  \E r \in Restricted : Within(f, r)
    <2>1. Len(SubSeq(f, 1, n)) = n /\ n <= Len(f)
      BY DEF Folder
    <2>2. Within(f, SubSeq(f, 1, n))
      BY <2>1 DEF Within
    <2>3. QED
      BY <1>2, <2>2
  <1>3. QED
    BY <1>1, <1>2

\* A file is refused exactly if what its path means lies in a restricted folder: no way of
\* writing the path gets round the restriction.
THEOREM RestrictedUnderEveryName == Spec => RestrictedRefused
  <1>1. TypeOK /\ MeansWhatItSays /\ [Next]_vars =>
           [GetRealFile => (refused' <=> limited /\ \E n \in 0..Len(Target) : SubSeq(Target, 1, n) \in Restricted)]_vars
    <2> SUFFICES ASSUME TypeOK, MeansWhatItSays, GetRealFile
                 PROVE  refused' <=> limited /\ \E n \in 0..Len(Target) : SubSeq(Target, 1, n) \in Restricted
      OBVIOUS
    <2>1. newStr = Target /\ newStr \in Folder /\ refused' = IsRestricted(newStr)
      BY DEF GetRealFile, MeansWhatItSays, TypeOK, Contained
    <2>2. limited \in BOOLEAN
      BY DEF TypeOK
    <2>3. QED
      BY <2>1, <2>2, RestrictedWithin DEF IsRestricted
  <1>2. QED
    BY <1>1, PathsStayInside, PathsMeanWhatTheySay, PTL DEF Spec, RestrictedRefused
=============================================================================
