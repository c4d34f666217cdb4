------------------------------ MODULE AgentTree -----------------------------
(***************************************************************************)
(* src/cecli/helpers/agents/tree.py: the process-wide tree of agents that  *)
(* decides who sees whom.  A tree is a function from the uuids it holds to *)
(* nodes; a workflow's worker (a "wf:" name) roots a domain of its own.    *)
(* Every operation runs under one lock, so each is one operator.           *)
(***************************************************************************)
EXTENDS Naturals, FiniteSets, Functions

CONSTANT Null

Blank == [parent |-> Null, children |-> {}, name |-> Null, workflow |-> Null]
Ensure(tree, u) == [n \in DOMAIN tree \cup {u} |-> IF n \in DOMAIN tree THEN tree[n] ELSE Blank]

Detach(tree, u) ==
  LET p == tree[u].parent IN
  [n \in DOMAIN tree |->
     IF n = u THEN [tree[n] EXCEPT !.parent = Null]
     ELSE IF n = p THEN [tree[n] EXCEPT !.children = @ \ {u}]
     ELSE tree[n]]

Attach(tree, u, p) ==
  IF p = Null THEN [tree EXCEPT ![u].parent = Null]
  ELSE [Ensure(tree, p) EXCEPT ![u].parent = p, ![p].children = @ \cup {u}]

\* u and its descendants.
Subtree(tree, u) ==
  LET Down[k \in 0..Cardinality(DOMAIN tree)] ==
        IF k = 0 THEN {u}
        ELSE Down[k - 1] \cup UNION {tree[n].children : n \in Down[k - 1] \cap DOMAIN tree}
  IN Down[Cardinality(DOMAIN tree)] \cap DOMAIN tree

\* The subtree of u joins domain w, except under the workers inside it.
SetWorkflow(tree, u, w) ==
  LET Roots(n) == {r \in Subtree(tree, u) : tree[r].name = "wf" /\ n \in Subtree(tree, r)}
      Owner(n) == IF Roots(n) = {} THEN w
                  ELSE CHOOSE r \in Roots(n) : \A q \in Roots(n) : r \in Subtree(tree, q)
  IN [n \in DOMAIN tree |->
        IF n \in Subtree(tree, u) THEN [tree[n] EXCEPT !.workflow = Owner(n)] ELSE tree[n]]

Register(tree, u, p, name) ==
  LET named == [Ensure(tree, u) EXCEPT ![u].name = name]
      w == IF p \in DOMAIN tree THEN tree[p].workflow ELSE Null
      placed == IF named[u].parent = p THEN named ELSE Attach(Detach(named, u), u, p)
  IN SetWorkflow(placed, u, w)

\* Broken variant of Unregister: the children are not spliced.
UnregisterAlone(tree, u) ==
  IF u \notin DOMAIN tree THEN tree
  ELSE [n \in DOMAIN tree \ {u} |->
          IF n = tree[u].parent THEN [tree[n] EXCEPT !.children = @ \ {u}] ELSE tree[n]]

\* The children are spliced onto the parent; they keep their domain.
Unregister(tree, u) ==
  IF u \notin DOMAIN tree THEN tree
  ELSE LET p == tree[u].parent
           orphans == tree[u].children
       IN [n \in DOMAIN tree \ {u} |->
             IF n = p THEN [tree[n] EXCEPT !.children = (@ \ {u}) \cup (orphans \cap DOMAIN tree)]
             ELSE IF n \in orphans THEN [tree[n] EXCEPT !.parent = p]
             ELSE tree[n]]

=============================================================================
