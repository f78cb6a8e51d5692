----------------------------- MODULE MCTraversal -----------------------------
(***************************************************************************)
(* Instances of Traversal for TLC: a directory r with a file a and a       *)
(* directory d, which holds a file b and a link l; beside r a directory e  *)
(* with a file c.                                                          *)
(***************************************************************************)
EXTENDS Traversal

CONSTANTS r, a, d, b, l, e, c

Tree(target, device, inode, ignored) ==
  [kind    |-> [n \in Nodes |-> CASE n \in {r, d, e} -> "dir"
                                  [] n \in {a, b, c} -> "file"
                                  [] n = l           -> "link"],
   parent  |-> [n \in Nodes |-> CASE n \in {a, d} -> r
                                  [] n \in {b, l} -> d
                                  [] n = c        -> e
                                  [] n \in {r, e} -> Nowhere],
   target  |-> [n \in Nodes |-> IF n = l THEN target ELSE Nowhere],
   device  |-> [n \in Nodes |-> IF n \in device THEN 2 ELSE 1],
   inode   |-> [n \in Nodes |-> IF n \in inode THEN a ELSE n],
   ignored |-> ignored]

\* Links to the root, to their own directory, to another, to a file, to
\* something else and to nothing; two devices, one of them
\* also for a file alone; and hard links, of which some names or directories are
\* filtered out.
ManyTrees ==
  {Tree(t, {}, {}, {}) : t \in {r, d, a, Nowhere}}
    \cup {Tree(Nowhere, {a}, {}, {})}
    \cup {[Tree(c, {}, {}, {}) EXCEPT !.kind[c] = "other"]}
    \cup {Tree(t, dev, {}, {}) : t \in {e, c}, dev \in {{d, b, l}, {e, c}}}
    \cup {Tree(t, {}, {a, b, c}, g) : t \in {e, c}, g \in {{}, {a}, {b}, {d, e}}}

AllConfigs == [follow_symlinks : BOOLEAN, single_filesystem : BOOLEAN,
               count_hardlinks : BOOLEAN]

SomeArguments == {<<r>>, <<a, r>>, <<r, e>>}
=============================================================================
