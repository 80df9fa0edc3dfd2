------------------------------ MODULE FileTree ------------------------------
(***************************************************************************)
(* What the file system promises: a tree of names.  A call changes the one *)
(* name it is about between its start and its return.  On the way the name *)
(* may be torn: if the power fails then, the tree is lost, and nothing is  *)
(* promised any more.  A power failure at any other moment leaves the tree *)
(* as it was before or as it is after the call, and calls go on.           *)
(***************************************************************************)
EXTENDS Naturals, Sequences

CONSTANTS Path, Absent, Directory, Torn, NoCall

VARIABLES
    tree,       \* per path: Absent, Directory, Torn, or the contents of a file
    req,        \* the call in progress: op, path, and for a write the contents
                \* the file is to have
    lost        \* the power has failed while a name was torn

tree_vars == <<tree, req, lost>>

Parent(p) == SubSeq(p, 1, Len(p) - 1)
IsFile(p) == tree[p] \notin {Absent, Directory, Torn}

Legal(r) ==
    \/ /\ r.op \in {"create", "mkdir"} /\ tree[r.path] = Absent
       /\ Len(r.path) = 1 \/ tree[Parent(r.path)] = Directory
    \/ r.op = "unlink" /\ IsFile(r.path)
    \/ /\ r.op = "rmdir" /\ tree[r.path] = Directory
       /\ \A p \in Path : Len(p) > 1 /\ Parent(p) = r.path => tree[p] = Absent
    \/ /\ r.op = "write" /\ IsFile(r.path)
       /\ SubSeq(r.data, 1, Len(tree[r.path])) = tree[r.path]

Result(r) == CASE r.op = "create" -> <<>>
               [] r.op = "mkdir" -> Directory
               [] r.op = "write" -> r.data
               [] OTHER -> Absent
Set(p, what) == [tree EXCEPT ![p] = what]

Call == /\ ~lost /\ req = NoCall /\ req' # NoCall /\ Legal(req')
        /\ UNCHANGED <<tree, lost>>
Tear == /\ req # NoCall /\ tree[req.path] # Result(req)
        /\ tree' = Set(req.path, Torn) /\ UNCHANGED <<req, lost>>
Perform == /\ req # NoCall /\ tree' = Set(req.path, Result(req))
           /\ UNCHANGED <<req, lost>>
Return == /\ req # NoCall /\ tree' = Set(req.path, Result(req))
          /\ req' = NoCall /\ UNCHANGED lost
PowerCut == /\ req # NoCall /\ req' = NoCall
            /\ lost' = (tree[req.path] = Torn) /\ UNCHANGED tree
Lost == lost /\ lost'

TreeInit == tree = [p \in Path |-> Absent] /\ req = NoCall /\ lost = FALSE
TreeNext == Call \/ Tear \/ Perform \/ Return \/ PowerCut \/ Lost
TreeSpec == TreeInit /\ [][TreeNext]_tree_vars
==============================================================================
