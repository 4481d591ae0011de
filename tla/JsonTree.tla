------------------------------ MODULE JsonTree ------------------------------
(***************************************************************************)
(* What the items of cJSON promise: a forest in which every node has a     *)
(* label and a sequence of kids.  How the sequences are linked, who owns   *)
(* which string and what happens inside a call that runs out of memory are *)
(* the business of CJson, which implements this.                           *)
(***************************************************************************)
EXTENDS Naturals, Sequences, FiniteSets, SequencesExt

CONSTANTS NoName

VARIABLES
  kids,     \* of each node, a sequence of nodes
  label,    \* of each node: [type, name, value]
  roots     \* the nodes the program holds

vars == <<kids, label, roots>>

Nodes == DOMAIN kids

RECURSIVE Below(_)
Below(n) == {n} \cup UNION {Below(kids[n][i]) : i \in DOMAIN kids[n]}

Init ==
  /\ kids = <<>>
  /\ label = <<>>
  /\ roots = {}

(* The nodes in gone disappear, p has the kids ks, n is labelled l.        *)
Relink(gone, p, ks, n, l) ==
  /\ kids' = [x \in Nodes \ gone |-> IF x = p THEN ks ELSE kids[x]]
  /\ label' = [x \in Nodes \ gone |-> IF x = n THEN l ELSE label[x]]

(* Only the name of n may be new.                                          *)
Renamed(n) ==
  /\ n \in DOMAIN label'
  /\ label'[n] = [label[n] EXCEPT !.name = label'[n].name]

(* A new tree, of which nothing else is said: created, parsed or copied.   *)
Grow ==
  /\ Nodes \subseteq DOMAIN kids'
  /\ \A x \in Nodes : kids'[x] = kids[x] /\ label'[x] = label[x]
  /\ \E n \in DOMAIN kids' \ Nodes : roots' = roots \cup {n}

(* A root becomes the i-th kid of p, under a name of p's choosing.         *)
Insert(p, n, i) ==
  /\ n \in roots
  /\ p \notin Below(n)
  /\ i \in 1 .. Len(kids[p]) + 1
  /\ Renamed(n)
  /\ Relink({}, p, InsertAt(kids[p], i, n), n, label'[n])
  /\ roots' = roots \ {n}

(* A new node becomes the last kid of p.                                   *)
Add(p) ==
  \E n \in DOMAIN kids' \ Nodes :
    /\ kids' = [x \in Nodes \cup {n} |-> IF x = n THEN <<>>
                  ELSE IF x = p THEN Append(kids[p], n) ELSE kids[x]]
    /\ \A x \in Nodes : label'[x] = label[x]
    /\ label'[n].name # NoName
    /\ UNCHANGED roots

Detach(p, i) ==
  /\ Relink({}, p, RemoveAt(kids[p], i), p, label[p])
  /\ roots' = roots \cup {kids[p][i]}

Prune(p, i) ==
  /\ Relink(Below(kids[p][i]), p, RemoveAt(kids[p], i), p, label[p])
  /\ UNCHANGED roots

(* The i-th kid of p and all below it make room for a root.                *)
Replace(p, i, n) ==
  /\ n \in roots
  /\ Renamed(n)
  /\ Relink(Below(kids[p][i]), p, ReplaceAt(kids[p], i, n), n, label'[n])
  /\ roots' = roots \ {n}

Fell(n) ==
  /\ n \in roots
  /\ Relink(Below(n), n, <<>>, n, label[n])
  /\ roots' = roots \ {n}

(* One label changes: a value is set, or a call that fails has already     *)
(* renamed the root that it was given.                                     *)
Relabel(n) ==
  /\ UNCHANGED <<kids, roots>>
  /\ label' = [label EXCEPT ![n] = label'[n]]
  /\ label'[n].type = label[n].type
  /\ label'[n].value = label[n].value \/ label'[n].name = label[n].name
  /\ label'[n].name # label[n].name => n \in roots

Next ==
  \/ Grow
  \/ \E p \in Nodes :
       \/ Add(p)
       \/ \E n \in roots, i \in 1 .. Len(kids[p]) + 1 : Insert(p, n, i)
       \/ \E i \in DOMAIN kids[p] :
            \/ Detach(p, i)
            \/ Prune(p, i)
            \/ \E n \in roots : Replace(p, i, n)
  \/ \E n \in Nodes : Fell(n) \/ Relabel(n)

Spec == Init /\ [][Next]_vars
=============================================================================
