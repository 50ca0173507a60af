----------------------------- MODULE VirtualPath -----------------------------
(***************************************************************************)
(* The folder of a user and the paths it sends (User::parseChangeDir and   *)
(* getRealFile, Login::isRestrictedFolder).  A path is the sequence of     *)
(* what stands between its separators: "/a//.." is <<"", "a", "", "..">>   *)
(* and the empty path is <<"">>.  A folder is the sequence of its names,   *)
(* the root <<>>; on the server it lies under the base folder.             *)
(*                                                                         *)
(* Every turn of the loop of parseChangeDir is a step.                     *)
(***************************************************************************)
EXTENDS Integers, Sequences, FiniteSets

CONSTANTS Names,      \* the names of files and folders
          Restricted, \* the restricted folders of the user's login
          MaxLen,     \* bound: the parts of a path
          MaxDepth    \* bound: the depth of the user's folder

NoName  == "" \* what stands between two separators side by side
Special == {NoName, ".", ".."}
Part    == Names \union Special
Folder  == Seq(Names)

ASSUME VirtualPathAssumption ==
    /\ Names \intersect Special = {}
    /\ Restricted \subseteq Folder
    /\ MaxLen \in Nat /\ MaxDepth \in Nat

VARIABLES
    folder,  \* _folderPath
    limited, \* the state of the login is LIMITED
    op,      \* "cd" or "file" while a path is parsed, else "idle"
    rest,    \* path: the parts that are still to come
    newStr,  \* newStr
    touched, \* newStr[1] is not '\0': newStr has been more than the root
    refused, \* the last path was in a restricted folder
    path     \* history: the path as it was sent

vars == <<folder, limited, op, rest, newStr, touched, refused, path>>

Front(s) == SubSeq(s, 1, Len(s) - 1)

Init ==
    /\ folder = <<>>
    /\ limited \in BOOLEAN
    /\ op = "idle"
    /\ rest = <<>> /\ newStr = <<>> /\ touched = FALSE
    /\ refused = FALSE
    /\ path = <<NoName>>

\* A separator at the end is taken away; if there is no other, nothing is left.
Stripped(p) == IF Len(p) > 1 /\ p[Len(p)] = NoName THEN Front(p) ELSE p

Absolute(p) == Len(p) > 1 /\ p[1] = NoName

Paths == UNION {[1..n -> Part] : n \in 1..MaxLen}

\* DIR_CD, or a request that names a file.
Begin(kind, p) ==
    LET s == Stripped(p) IN
    /\ op = "idle"
    /\ kind = "cd" => Len(folder) + Cardinality({k \in DOMAIN p : p[k] \in Names}) <= MaxDepth
    /\ op' = kind /\ path' = p
    /\ newStr' = IF Absolute(s) THEN <<>> ELSE folder
    /\ rest' = IF Absolute(s) THEN Tail(s) ELSE s
    /\ touched' = (newStr' # <<>>)
    /\ refused' = FALSE
    /\ UNCHANGED <<folder, limited>>

Parsing == op # "idle" /\ rest # <<>>

\* `..' in a folder: back to the last separator.
Up ==
    /\ Parsing /\ rest[1] = ".."
    /\ newStr # <<>>
    /\ newStr' = Front(newStr)
    /\ rest' = Tail(rest)
    /\ UNCHANGED <<folder, limited, op, touched, refused, path>>

\* `..' at the root a path began at.
UpIgnored ==
    /\ Parsing /\ rest[1] = ".."
    /\ ~touched
    /\ rest' = Tail(rest)
    /\ UNCHANGED <<folder, limited, op, newStr, touched, refused, path>>

\* `..' at the root after the path has been below it: no separator is found, and
\* the loop is left with the rest of the path unread.
UpBreaks ==
    /\ Parsing /\ rest[1] = ".."
    /\ touched /\ newStr = <<>>
    /\ rest' = <<>>
    /\ UNCHANGED <<folder, limited, op, newStr, touched, refused, path>>

\* `.' and nothing between two separators.
Stay ==
    /\ Parsing /\ rest[1] \in {".", NoName}
    /\ rest' = Tail(rest)
    /\ UNCHANGED <<folder, limited, op, newStr, touched, refused, path>>

\* Mutant: `..' is known only with a separator behind it.
DownDots ==
    /\ Parsing
    /\ rest[1] \in Names \/ rest = <<"..">>
    /\ newStr' = Append(newStr, rest[1])
    /\ touched' = TRUE
    /\ rest' = Tail(rest)
    /\ UNCHANGED <<folder, limited, op, refused, path>>

\* Mutant: a name replaces the one before.
DownReplaces ==
    /\ Parsing /\ rest[1] \in Names
    /\ newStr' = Append(IF newStr = <<>> THEN <<>> ELSE Front(newStr), rest[1])
    /\ touched' = TRUE
    /\ rest' = Tail(rest)
    /\ UNCHANGED <<folder, limited, op, refused, path>>

Down ==
    /\ Parsing /\ rest[1] \in Names
    /\ newStr' = Append(newStr, rest[1])
    /\ touched' = TRUE
    /\ rest' = Tail(rest)
    /\ UNCHANGED <<folder, limited, op, refused, path>>

Within(f, r) == Len(r) <= Len(f) /\ SubSeq(f, 1, Len(r)) = r

\* Mutant: a folder is restricted only for the files right in it.
IsRestrictedShallow(f) == limited /\ \E r \in Restricted : Within(f, r) /\ Len(f) <= Len(r) + 1

\* isRestrictedFolder compares texts that begin and end with a separator.
IsRestricted(f) == limited /\ \E r \in Restricted : Within(f, r)

\* parseChangeDir returns, its variables are gone.
Done == op' = "idle" /\ newStr' = <<>> /\ touched' = FALSE /\ path' = <<NoName>>

\* The new folder is not looked up in the restricted ones, nor on the disk.
ChangeDir ==
    /\ op = "cd" /\ rest = <<>>
    /\ folder' = newStr
    /\ Done
    /\ UNCHANGED <<limited, rest, refused>>

GetRealFile ==
    /\ op = "file" /\ rest = <<>>
    /\ refused' = IsRestricted(newStr)
    /\ Done
    /\ UNCHANGED <<folder, limited, rest>>

Next == \/ \E kind \in {"cd", "file"}, p \in Paths : Begin(kind, p)
        \/ Up \/ UpIgnored \/ UpBreaks \/ Stay \/ Down
        \/ ChangeDir \/ GetRealFile

Spec == Init /\ [][Next]_vars

-----------------------------------------------------------------------------
\* No path leads out of the base folder: what is appended to it never has a dot
\* part or an empty part in it, in a request or in the user's folder.
Contained == newStr \in Folder /\ folder \in Folder

\* Every variable keeps its type, and the folders are folders (Contained).
TypeOK ==
    /\ Contained
    /\ limited \in BOOLEAN
    /\ op \in {"idle", "cd", "file"}
    /\ rest \in Seq(Part)
    /\ touched \in BOOLEAN /\ (newStr # <<>> => touched)
    /\ refused \in BOOLEAN
    /\ path \in Seq(Part)

\* What a path means, without reading it part by part: a name stays if nowhere
\* behind it there are as many `..' as names from it on.
Count(p, S, from, to) == Cardinality({k \in from..to : p[k] \in S})
Stays(p, k) ==
    p[k] \in Names /\ \A to \in k..Len(p) : Count(p, {".."}, k, to) < Count(p, Names, k, to)
Places(p)  == {k \in 1..Len(p) : Stays(p, k)}
Meaning(p) ==
    LET at(n) == CHOOSE k \in Places(p) : Cardinality({i \in Places(p) : i <= k}) = n
    IN  [n \in 1..Cardinality(Places(p)) |-> p[at(n)]]

\* The path p of a user whose folder is f, from the root on.
From(f, p) == IF Absolute(p) THEN p ELSE f \o p

\* The path goes above the root after it has been below it.
Climbs(p) ==
    \E k \in 1..Len(p) :
        /\ p[k] = ".." /\ Meaning(SubSeq(p, 1, k - 1)) = <<>>
        /\ \E i \in 1..k - 1 : p[i] \in Names

\* "/" alone: the separator is taken away as the last one.
OnlySlash == path = <<NoName, NoName>>

\* What the path that is parsed leads to: what it says, wherever the user is and
\* however it is written; except for "/" alone, which means the user's folder, and
\* for a path that goes above the root from below, which means the root.
Target ==
    IF OnlySlash THEN folder
    ELSE IF Climbs(From(folder, path)) THEN <<>>
    ELSE Meaning(From(folder, path))

\* Every path is read as what it means.
MeansWhatItSays == op # "idle" /\ rest = <<>> => newStr = Target

\* A file at or under a restricted folder is refused under every name it can be
\* given, from every folder, and no other one is.
RestrictedRefused ==
    [][GetRealFile =>
          (refused' <=> limited /\ \E n \in 0..Len(Target) : SubSeq(Target, 1, n) \in Restricted)]_vars
=============================================================================
