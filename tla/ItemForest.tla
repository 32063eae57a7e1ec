------------------------------- MODULE ItemForest -------------------------------
(***************************************************************************)
(* What cJSON promises about its items: they form a forest.  Every item is  *)
(* either the root of a tree that the program holds or stands at one place  *)
(* in the list of one container, and each call edits one such list as a     *)
(* sequence.  Pointers, parsing and failed allocations do not appear.       *)
(***************************************************************************)
EXTENDS Integers, FiniteSets, Sequences, SequencesExt

CONSTANT Item

VARIABLES
    kids,       \* the items in use, each with the sequence of its children
    held        \* the roots that the program holds

vars == <<kids, held>>

Live == DOMAIN kids

\* The items of the tree under r.
Tree(f, r) ==
    LET level[n \in 0..Cardinality(Item)] ==
            IF n = 0 THEN {r}
            ELSE UNION {ToSet(f[i]) : i \in level[n - 1] \cap DOMAIN f}
    IN UNION {level[n] : n \in DOMAIN level}

Only(f, S) == [i \in S |-> f[i]]

\* Every item in use has exactly one place: held, or one position of one list.
Placed ==
    \A i \in Live :
        Cardinality({x \in Live \X (1..Cardinality(Item)) :
                        x[2] <= Len(kids[x[1]]) /\ kids[x[1]][x[2]] = i})
            = IF i \in held THEN 0 ELSE 1

Init == kids = <<>> /\ held = {}

\* A document is parsed, or an item made: a new tree, which the program holds.
Grow ==
    \E r \in Item \ Live :
        /\ held' = held \cup {r}
        /\ DOMAIN kids' = Live \cup Tree(kids', r)
        /\ Live \cap Tree(kids', r) = {}
        /\ Only(kids', Live) = kids
        /\ Placed'

Dropped(f, i) == Only(f, DOMAIN f \ Tree(f, i))

\* The tree i becomes a child of a container a that is not in it.
Inserted(f, i) ==
    UNION {{[f EXCEPT ![a] = InsertAt(@, k, i)] : k \in 1..(Len(f[a]) + 1)}
            : a \in DOMAIN f \ Tree(f, i)}

\* The tree i takes the place of another one, which is freed.
Replaced(f, i) ==
    UNION {{Only([f EXCEPT ![a][k] = i], DOMAIN f \ Tree(f, f[a][k])) : k \in DOMAIN f[a]}
            : a \in DOMAIN f \ Tree(f, i)}

GiveUp(i) ==
    /\ held' = held \ {i}
    /\ kids' \in {Dropped(kids, i)} \cup Inserted(kids, i) \cup Replaced(kids, i)

\* The child i is taken out of the list that it is in.
TakenOut(f, i) == [a \in DOMAIN f |-> SelectSeq(f[a], LAMBDA j : j # i)]

Detach(i) ==
    /\ held' = held \cup {i}
    /\ kids' = TakenOut(kids, i)

Next ==
    \/ Grow
    \/ \E i \in held : GiveUp(i)
    \/ \E i \in Live \ held : Detach(i)

Spec == Init /\ [][Next]_vars

================================================================================
