----------------------------- MODULE MCFileOps -----------------------------
EXTENDS FileOps

CONSTANTS i0, i1, i2, i3, na, nb, nx

MCLength == (na :> 12) @@ (nb :> 12) @@ (nx :> 1)
MCAsked == {<<na>>, <<nb>>, <<na, nb>>}

In(m, n) == Dir([k \in Names |-> IF k = na THEN m ELSE IF k = nb THEN n ELSE None])
Tree(root, one, two) == (i0 :> root) @@ (i1 :> one) @@ (i2 :> two) @@ (i3 :> Free)

\* Two files; a link to itself; a link to a folder with a file; a folder with a link to
\* the file beside it.
MCTrees ==
    { Tree(In(i1, i2), File(<<1, 2>>), File(<<3>>)),
      Tree(In(None, i1), Link(<<nb>>), Free),
      [Tree(In(i1, i2), Link(<<nb>>), In(i3, None)) EXCEPT ![i3] = File(<<1>>)],
      [Tree(In(i1, i3), In(None, i2), Link(<<nb>>)) EXCEPT ![i3] = File(<<1>>)] }
=============================================================================
