------------------------------ MODULE MCListing ------------------------------
(* Keys around a directory: a name that sorts between it and what is in it, names *)
(* in it, the directory itself and a name after it.                               *)
EXTENDS Listing

a == 3
dot == 1
MCKeys == {<<a, dot>>, <<a, SEP>>, <<a, SEP, dot, a>>, <<a, SEP, a, SEP, a>>, <<a, a>>}

V(id) == [id |-> id, del |-> FALSE]
D(id) == [id |-> id, del |-> TRUE]
\* A key may have no version, one, or a delete marker on top of one; where versions
\* are listed also two behind the current one, which may be the null version.
Few == {<<>>, <<V(0)>>, <<D(2), V(1)>>}
Many == Few \cup {<<V(3), D(2), V(1)>>, <<V(0), V(2), V(1)>>}
Usable(b) == \A k \in MCKeys : IsDirKey(k) => Len(b[k]) <= 1 /\ (b[k] # <<>> => ~Head(b[k]).del)
MCBuckets ==
  [objects |-> {b \in [MCKeys -> Few] : Usable(b)},
   versions |-> {b \in [MCKeys -> Many] :
                   Usable(b) /\ Cardinality({k \in MCKeys : b[k] # <<>>}) <= 3
                             /\ Cardinality({k \in MCKeys : Len(b[k]) > 1}) <= 2}]

MCPrefixes == {<<>>, <<a>>, <<a, SEP>>}
MCChanges == [objects |-> 2, versions |-> 1]
MCRequests ==
  [kind : {"objects"}, prefix : MCPrefixes, delim : {<<>>, <<SEP>>, <<a>>}, max : {1, 2}, startAfter : {<<>>}]
  \cup [kind : {"versions"}, prefix : {<<>>, <<a, SEP>>}, delim : {<<>>}, max : {1, 2}, startAfter : {<<>>}]
  \cup [kind : {"versions"}, prefix : MCPrefixes, delim : {<<SEP>>, <<a>>}, max : {2}, startAfter : {<<>>}]
  \cup [kind : {"objects"}, prefix : {<<>>}, delim : {<<>>, <<SEP>>}, max : {2}, startAfter : {<<a, SEP>>}]
=============================================================================
