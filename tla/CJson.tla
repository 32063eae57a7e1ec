--------------------------------- MODULE CJson ----------------------------------
(***************************************************************************)
(* The JSON library of the gstreamer server, src/gstreamer/cJSON.c, at the  *)
(* level of its items: how cJSON_Parse builds a document from text, how the *)
(* calls on arrays and objects relink the items, what cJSON_Delete frees    *)
(* and what cJSON_Print writes.                                             *)
(*                                                                          *)
(* Text is a sequence of tokens; white space, escapes and numerals are left *)
(* out, and "lit" stands for null, true, false and every number.  The       *)
(* siblings of a list are linked by next and prev; the prev of the first is *)
(* the last of the list.  An allocation may fail whenever it is asked for,  *)
(* and a new item takes the lowest free address.                            *)
(*                                                                          *)
(* Bounds: Items, the addresses; MaxText and MaxChanged, the length of a    *)
(* text; NestingLimit, CJSON_NESTING_LIMIT; MaxHeld, the roots that the     *)
(* program holds at once; a text is parsed only while no item is in use.    *)
(***************************************************************************)
EXTENDS Integers, FiniteSets, Sequences, SequencesExt, FiniteSetsExt

CONSTANTS Items, Strings, MaxText, MaxChanged, NestingLimit, MaxHeld

ASSUME BoundsAssumption ==
    /\ Items \in Nat \ {0} /\ {MaxText, MaxChanged, NestingLimit, MaxHeld} \subseteq Nat
    /\ Strings # {} /\ Strings \cap {"[", "]", "{", "}", ",", ":", "lit", "end", "null"} = {}

VARIABLES
    heap,       \* the cJSON structures, by address
    strings,    \* how many strings are allocated
    held,       \* the roots that the program has a pointer to
    p           \* the parse under way, or the last one

vars == <<heap, strings, held, p>>

Item == 1..Items
NULL == 0
NoString == "null"

Types == {"free", "Invalid", "Literal", "String", "Array", "Object"}

\* What cJSON_New_Item returns: memset leaves type 0, cJSON_Invalid.
Blank ==
    [type |-> "Invalid", valuestring |-> NoString, string |-> NoString,
     next |-> NULL, prev |-> NULL, child |-> NULL]

Freed == [Blank EXCEPT !.type = "free"]

InUse(h) == {i \in Item : h[i].type # "free"}

Unused == Item \ InUse(heap)

--------------------------------------------------------------------------------
(* Walking the lists.                                                       *)

After(h, i) == IF i = NULL THEN NULL ELSE h[i].next

\* The items from first on, along next, and NULL after the last; a walk that does
\* not end is cut off.
Walk(h, first) ==
    LET at[n \in 1..Items] == IF n = 1 THEN first ELSE After(h, at[n - 1])
    IN [n \in 1..Items |-> at[n]]

\* The children of a.
ListOf(h, a) ==
    LET at == Walk(h, h[a].child)
    IN SubSeq(at, 1, Cardinality({n \in 1..Items : at[n] # NULL}))

get_array_item(h, a, index) ==
    LET l == ListOf(h, a)
    IN IF index + 1 \in DOMAIN l THEN l[index + 1] ELSE NULL

\* The case sensitive search also ends at a member without a name.
get_object_item(h, o, name) ==
    LET l == ListOf(h, o)
        ends == {n \in DOMAIN l : h[l[n]].string \in {name, NoString}}
    IN IF ends = {} \/ h[l[Min(ends)]].string = NoString THEN NULL
       ELSE l[Min(ends)]

\* Mutant: the children are not visited.
BelowSiblings(h, i) ==
    LET closed == {S \in SUBSET (Item \cup {NULL}) :
                      NULL \in S /\ i \in S /\ \A j \in S \ {NULL} : h[j].next \in S}
    IN {j \in Item : \A S \in closed : j \in S}

\* All that cJSON_Delete visits from i: the least set that has with an item its
\* siblings and children.
Below(h, i) ==
    LET closed == {S \in SUBSET Item :
                      /\ i = NULL \/ i \in S
                      /\ \A j \in S : /\ h[j].next = NULL \/ h[j].next \in S
                                      /\ h[j].child = NULL \/ h[j].child \in S}
    IN {j \in Item : \A S \in closed : j \in S}

StringsOf(h, S) ==
    Cardinality({j \in S : h[j].string # NoString})
    + Cardinality({j \in S : h[j].valuestring # NoString})

cJSON_Delete(h, i) ==
    LET visited == Below(h, i)
    IN [j \in Item |-> IF j \in visited THEN Freed ELSE h[j]]

Joined(parts) ==
    FlattenSeq([n \in DOMAIN parts |-> IF n = 1 THEN parts[n] ELSE <<",">> \o parts[n]])

print_array(parts) == <<"[">> \o Joined(parts) \o <<"]">>

print_object(names, parts) ==
    <<"{">> \o Joined([n \in DOMAIN parts |-> <<names[n], ":">> \o parts[n]]) \o <<"}">>

\* What print_value writes for the item r.
cJSON_Print(h, r) ==
    LET print[i \in Item] ==
            LET l == ListOf(h, i)
                parts == [n \in DOMAIN l |-> print[l[n]]]
            IN CASE h[i].type = "Literal" -> <<"lit">>
                 [] h[i].type = "String" -> <<h[i].valuestring>>
                 [] h[i].type = "Array" -> print_array(parts)
                 [] h[i].type = "Object" ->
                        print_object([n \in DOMAIN l |-> h[l[n]].string], parts)
    IN print[r]

--------------------------------------------------------------------------------
(* JSON itself, from its grammar: the texts of n tokens that are a value    *)
(* ("V"), the elements of an array ("E") or the members of an object ("M")  *)
(* nested at most d deep.                                                   *)

Words ==
    LET w[x \in {"V", "E", "M"} \X (0..NestingLimit) \X (0..MaxText)] ==
            LET d == x[2]  n == x[3]
                one(k) ==
                    IF x[1] = "E" THEN w[<<"V", d, k>>]
                    ELSE IF k < 3 THEN {}
                    ELSE {<<s, ":">> \o v : s \in Strings, v \in w[<<"V", d, k - 2>>]}
            IN IF x[1] = "V" THEN
                   IF n = 1 THEN {<<s>> : s \in Strings \cup {"lit"}}
                   ELSE IF n = 0 \/ d = 0 THEN {}
                   ELSE {<<"[">> \o e \o <<"]">> : e \in w[<<"E", d - 1, n - 2>>]}
                        \cup {<<"{">> \o e \o <<"}">> : e \in w[<<"M", d - 1, n - 2>>]}
               ELSE IF n = 0 THEN {<<>>}
               ELSE one(n) \cup
                    UNION {{u \o <<",">> \o e : u \in one(k), e \in w[<<x[1], d, n - k - 1>>]}
                            : k \in 1..(n - 2)}
    IN UNION {w[<<"V", NestingLimit, n>>] : n \in 1..MaxText}

Tokens == {"[", "]", "{", "}", ",", ":", "lit"} \cup Strings

\* The texts that are parsed: every one of three tokens, the values, every value
\* cut short, and every value of up to MaxChanged tokens with one of them changed.
Texts ==
    UNION {[1..n -> Tokens] : n \in 0..3}
    \cup UNION {{SubSeq(w, 1, n) : n \in DOMAIN w} : w \in Words}
    \cup UNION {{[w EXCEPT ![n] = t] : n \in DOMAIN w, t \in Tokens} :
              w \in {w \in Words : Len(w) <= MaxChanged}}

--------------------------------------------------------------------------------
(* cJSON_Parse.  The recursion of parse_value is the stack: a frame for     *)
(* every array or object that is open, with the item it is parsed into and  *)
(* the head and the last item of the list so far.  The length of the stack  *)
(* is input_buffer->depth, up to the failure that ends the parse.           *)

Modes == {"idle", "value", "first", "name", "after", "fail", "parsed", "refused"}

Parsing == p.mode \in {"value", "first", "name", "after", "fail"}

NoParse ==
    [mode |-> "idle", text |-> <<>>, pos |-> 1, root |-> NULL, stack |-> <<>>,
     oom |-> FALSE]

\* The buffer ends with a NUL, which is never passed.
Peek == IF p.pos > Len(p.text) THEN "end" ELSE p.text[p.pos]

Top == Head(p.stack)

Target == IF p.stack = <<>> THEN p.root ELSE Top.cur

Closer == IF Top.kind = "Array" THEN "]" ELSE "}"

OutOfMemory ==
    /\ p' = [p EXCEPT !.mode = "fail", !.oom = TRUE]
    /\ UNCHANGED <<heap, strings, held>>

ParseBegin(t) ==
    /\ p.mode = "idle" /\ InUse(heap) = {}
    /\ \/ /\ heap' = [heap EXCEPT ![Min(Unused)] = Blank]
          /\ p' = [NoParse EXCEPT !.mode = "value", !.text = t, !.root = Min(Unused)]
       \/ /\ p' = [NoParse EXCEPT !.mode = "refused", !.text = t, !.oom = TRUE]
          /\ UNCHANGED heap
    /\ UNCHANGED <<strings, held>>

\* After a value comes the rest of the list, or the return from cJSON_Parse,
\* which does not look at what follows.
Return(stack, used) ==
    /\ p' = [p EXCEPT !.mode = IF stack = <<>> THEN "parsed" ELSE "after",
                      !.stack = stack, !.pos = @ + used]
    /\ held' = IF stack = <<>> THEN held \cup {p.root} ELSE held

ParseLiteral ==
    /\ p.mode = "value" /\ Peek = "lit"
    /\ heap' = [heap EXCEPT ![Target].type = "Literal"]
    /\ Return(p.stack, 1)
    /\ UNCHANGED strings

ParseString ==
    /\ p.mode = "value" /\ Peek \in Strings
    /\ \/ /\ heap' = [heap EXCEPT ![Target].type = "String", ![Target].valuestring = Peek]
          /\ strings' = strings + 1
          /\ Return(p.stack, 1)
       \/ OutOfMemory

Open ==
    /\ p.mode = "value" /\ Peek \in {"[", "{"}
    /\ Len(p.stack) < NestingLimit
    /\ p' = [p EXCEPT !.mode = "first", !.pos = @ + 1,
                      !.stack = <<[kind |-> IF Peek = "[" THEN "Array" ELSE "Object",
                                   item |-> Target, head |-> NULL, cur |-> NULL]>> \o @]
    /\ UNCHANGED <<heap, strings, held>>

\* Mutant: the first element is not stepped back from.
LoopOffsetAhead == p.pos

\* The offset at which a turn of the do loop begins: at the comma or, stepped back
\* from the first element, at the opening bracket.  The turn steps over either.
LoopOffset == IF p.mode = "first" THEN p.pos - 1 ELSE p.pos

\* One turn of the do loop: the new item is linked before it is parsed.
NewElement ==
    /\ \/ p.mode = "first" /\ Peek # Closer
       \/ p.mode = "after" /\ Peek = ","
    /\ \/ /\ Unused # {}
          /\ LET i == Min(Unused) IN
             /\ heap' = IF Top.head = NULL THEN [heap EXCEPT ![i] = Blank]
                        ELSE [heap EXCEPT ![i] = [Blank EXCEPT !.prev = Top.cur],
                                          ![Top.cur].next = i]
             /\ p' = [p EXCEPT !.mode = IF Top.kind = "Array" THEN "value" ELSE "name",
                               !.pos = LoopOffset + 1,
                               !.stack[1].head = IF @ = NULL THEN i ELSE @,
                               !.stack[1].cur = i]
          /\ UNCHANGED <<strings, held>>
       \/ OutOfMemory

\* The name of a member: parse_string makes it the value of the item, and it
\* is moved to the name before the colon is looked for.
ParseName ==
    /\ p.mode = "name" /\ Peek \in Strings
    /\ \/ /\ heap' = [heap EXCEPT ![Top.cur].type = "String", ![Top.cur].string = Peek]
          /\ strings' = strings + 1
          /\ p' = IF p.pos < Len(p.text) /\ p.text[p.pos + 1] = ":"
                  THEN [p EXCEPT !.mode = "value", !.pos = @ + 2]
                  ELSE [p EXCEPT !.mode = "fail", !.pos = @ + 1]
          /\ UNCHANGED held
       \/ OutOfMemory

\* Mutant: head->prev is left NULL.
CloseUntied ==
    /\ p.mode \in {"first", "after"} /\ Peek = Closer
    /\ heap' = [heap EXCEPT ![Top.item].type = Top.kind, ![Top.item].child = Top.head]
    /\ Return(Tail(p.stack), 1)
    /\ UNCHANGED strings

\* Mutant: either bracket closes.
CloseByEither ==
    /\ p.mode \in {"first", "after"} /\ Peek \in {"]", "}"}
    /\ LET tied == IF Top.head = NULL THEN heap
                   ELSE [heap EXCEPT ![Top.head].prev = Top.cur]
       IN heap' = [tied EXCEPT ![Top.item].type = Top.kind, ![Top.item].child = Top.head]
    /\ Return(Tail(p.stack), 1)
    /\ UNCHANGED strings

Close ==
    /\ p.mode \in {"first", "after"} /\ Peek = Closer
    /\ LET tied == IF Top.head = NULL THEN heap
                   ELSE [heap EXCEPT ![Top.head].prev = Top.cur]
       IN heap' = [tied EXCEPT ![Top.item].type = Top.kind, ![Top.item].child = Top.head]
    /\ Return(Tail(p.stack), 1)
    /\ UNCHANGED strings

\* What fits nowhere: goto fail.
Unexpected ==
    /\ \/ /\ p.mode = "value"
          /\ Peek \notin Strings \cup {"lit"}
          /\ Peek \in {"[", "{"} => Len(p.stack) >= NestingLimit
       \/ p.mode = "name" /\ Peek \notin Strings
       \/ p.mode = "after" /\ Peek \notin {",", Closer}
    /\ p' = [p EXCEPT !.mode = "fail"]
    /\ UNCHANGED <<heap, strings, held>>

\* Every level deletes the list it has built, and cJSON_ParseWithLengthOpts the
\* root.
Unwind ==
    /\ p.mode = "fail"
    /\ LET doomed == IF p.stack = <<>> THEN p.root ELSE Top.head IN
       /\ heap' = cJSON_Delete(heap, doomed)
       /\ strings' = strings - StringsOf(heap, Below(heap, doomed))
    /\ p' = IF p.stack = <<>> THEN [p EXCEPT !.mode = "refused", !.root = NULL]
            ELSE [p EXCEPT !.stack = Tail(@)]
    /\ UNCHANGED held

--------------------------------------------------------------------------------
(* The calls on items.  The program may add only what it holds, and never   *)
(* below itself, as cJSON.h asks of it.                                     *)

Edit == ~Parsing /\ p' = NoParse

Containers == {i \in InUse(heap) : heap[i].type \in {"Array", "Object"}}

\* cJSON_CreateObject and cJSON_CreateString, which the server calls.  When the
\* copy of the string fails the item is deleted again.
Create(type) ==
    /\ Edit /\ Unused # {} /\ Cardinality(held) < MaxHeld
    /\ LET i == Min(Unused)  s == CHOOSE s \in Strings : TRUE IN
       /\ heap' = [heap EXCEPT ![i] = [Blank EXCEPT !.type = type,
                        !.valuestring = IF type = "String" THEN s ELSE NoString]]
       /\ held' = held \cup {i}
    /\ strings' = IF type = "String" THEN strings + 1 ELSE strings

add_item_to_array(h, a, i) ==
    LET child == h[a].child  last == h[child].prev
    IN IF child = NULL
       THEN [h EXCEPT ![a].child = i, ![i].prev = i, ![i].next = NULL]
       ELSE IF last = NULL THEN h
       ELSE [h EXCEPT ![last].next = i, ![i].prev = last, ![child].prev = i]

AddItemToArray(a, i) ==
    /\ Edit
    /\ heap' = add_item_to_array(heap, a, i)
    /\ held' = held \ {i}
    /\ UNCHANGED strings

\* cJSON_AddItemToObject.  When the copy of the name fails nothing is changed.
AddItemToObject(o, name, i) ==
    /\ Edit
    /\ strings' = strings + 1 - StringsOf([heap EXCEPT ![i].valuestring = NoString], {i})
    /\ heap' = add_item_to_array([heap EXCEPT ![i].string = name], o, i)
    /\ held' = held \ {i}

DetachItemViaPointer(h, parent, item) ==
    LET first == item = h[parent].child
        before == h[item].prev  after == h[item].next
        h1 == IF first THEN h ELSE [h EXCEPT ![before].next = after]
        h2 == IF after = NULL THEN h1 ELSE [h1 EXCEPT ![after].prev = before]
        h3 == IF first THEN [h2 EXCEPT ![parent].child = after]
              ELSE IF after = NULL THEN [h2 EXCEPT ![h[parent].child].prev = before]
              ELSE h2
    IN [h3 EXCEPT ![item].prev = NULL, ![item].next = NULL]

\* cJSON_DetachItemFromArray and, by name, cJSON_DetachItemFromObjectCaseSensitive.
Detach(a, item) ==
    /\ Edit /\ item # NULL /\ Cardinality(held) < MaxHeld
    /\ heap' = DetachItemViaPointer(heap, a, item)
    /\ held' = held \cup {item}
    /\ UNCHANGED strings

insert_item(h, a, after, i) ==
    LET before == h[after].prev
        h1 == [h EXCEPT ![i].next = after, ![i].prev = before, ![after].prev = i]
    IN IF after = h[a].child THEN [h1 EXCEPT ![a].child = i]
       ELSE [h1 EXCEPT ![before].next = i]

InsertItemInArray(a, which, i) ==
    /\ Edit
    /\ LET after == get_array_item(heap, a, which) IN
       heap' = IF after = NULL THEN add_item_to_array(heap, a, i)
               ELSE insert_item(heap, a, after, i)
    /\ held' = held \ {i}
    /\ UNCHANGED strings

\* Relinks the replacement in the place of the item; the caller deletes it.
ReplaceItemViaPointer(h, parent, item, new) ==
    LET before == h[item].prev  after == h[item].next  first == h[parent].child
        h1 == [h EXCEPT ![new].next = after, ![new].prev = before]
        h2 == IF after = NULL THEN h1 ELSE [h1 EXCEPT ![after].prev = new]
        h3 == IF first = item
              THEN IF before = item
                   THEN [h2 EXCEPT ![new].prev = new, ![parent].child = new]
                   ELSE [h2 EXCEPT ![parent].child = new]
              ELSE IF after = NULL
              THEN [h2 EXCEPT ![before].next = new, ![first].prev = new]
              ELSE [h2 EXCEPT ![before].next = new]
    IN [h3 EXCEPT ![item].next = NULL, ![item].prev = NULL]

\* cJSON_ReplaceItemInArray; the item that was there is deleted.
ReplaceItemInArray(a, which, i) ==
    /\ Edit
    /\ LET item == get_array_item(heap, a, which)
           h == ReplaceItemViaPointer(heap, a, item, i)
       IN /\ item # NULL
          /\ heap' = cJSON_Delete(h, item)
          /\ strings' = strings - StringsOf(h, Below(h, item))
    /\ held' = held \ {i}

\* cJSON_ReplaceItemInObjectCaseSensitive.  The name of the replacement is
\* changed before the member is looked for, and a copy that fails leaves it
\* without a name.
ReplaceItemInObject(o, name, i) ==
    /\ Edit
    /\ \E copy \in {name, NoString} :
        LET item == get_object_item(heap, o, name)
            named == [heap EXCEPT ![i].string = copy]
            h == ReplaceItemViaPointer(named, o, item, i)
            new == StringsOf(named, InUse(heap)) - StringsOf(heap, InUse(heap))
        IN IF item = NULL
           THEN heap' = named /\ strings' = strings + new /\ UNCHANGED held
           ELSE /\ heap' = cJSON_Delete(h, item)
                /\ strings' = strings + new - StringsOf(h, Below(h, item))
                /\ held' = held \ {i}

Delete(i) ==
    /\ Edit
    /\ heap' = cJSON_Delete(heap, i)
    /\ strings' = strings - StringsOf(heap, Below(heap, i))
    /\ held' = held \ {i}

--------------------------------------------------------------------------------

Init ==
    /\ heap = [i \in Item |-> Freed]
    /\ strings = 0
    /\ held = {}
    /\ p = NoParse

Parse ==
    \/ \E t \in Texts : ParseBegin(t)
    \/ ParseLiteral \/ ParseString \/ Open \/ NewElement \/ ParseName \/ Close
    \/ Unexpected \/ Unwind

\* The calls that take a held item; those for arrays and those for objects.
Add(a, i) ==
    \/ /\ heap[a].type = "Array"
       /\ \/ AddItemToArray(a, i)
          \/ \E k \in 0..(Items - 1) : InsertItemInArray(a, k, i) \/ ReplaceItemInArray(a, k, i)
    \/ /\ heap[a].type = "Object"
       /\ \E name \in Strings : AddItemToObject(a, name, i) \/ ReplaceItemInObject(a, name, i)

Next ==
    \/ Parse
    \/ \E type \in {"Object", "String"} : Create(type)
    \/ \E i \in held : \E a \in Containers \ Below(heap, i) : Add(a, i)
    \/ \E a \in Containers, k \in 0..(Items - 1) : Detach(a, get_array_item(heap, a, k))
    \/ \E a \in Containers, name \in Strings : Detach(a, get_object_item(heap, a, name))
    \/ \E i \in held : Delete(i)

Spec == Init /\ [][Next]_vars

--------------------------------------------------------------------------------
(* Properties.                                                              *)

TypeOK ==
    /\ heap \in [Item -> [type : Types, valuestring : Strings \cup {NoString},
                          string : Strings \cup {NoString}, next : Item \cup {NULL},
                          prev : Item \cup {NULL}, child : Item \cup {NULL}]]
    /\ strings \in 0..(2 * Items)
    /\ held \subseteq InUse(heap)
    /\ p.mode \in Modes /\ Len(p.stack) <= NestingLimit

\* The lists of a document: prev leads back along next, the prev of the first
\* is the last, and what the program holds is alone.
WellLinked ==
    /\ \A a \in InUse(heap) :
        LET l == ListOf(heap, a) IN
        \A n \in DOMAIN l :
            /\ l[n] \in InUse(heap)
            /\ heap[l[n]].prev = IF n = 1 THEN l[Len(l)] ELSE l[n - 1]
    /\ \A i \in held : heap[i].next = NULL /\ heap[i].prev = NULL

\* At every step of a parse and after every sequence of calls, whichever
\* allocation fails: the lists are linked as the next call expects them, no call
\* has freed what the program holds, and no string is lost or freed twice.
MemorySound ==
    /\ TypeOK
    /\ WellLinked
    /\ strings = StringsOf(heap, InUse(heap))

\* What the parser makes of a text is what the grammar says it is: it never looks
\* beyond the NUL, a document prints as the text it was read from, and with the
\* memory it asks for the parser refuses only what does not begin with a value.
ParsedAsWritten ==
    /\ p.pos <= Len(p.text) + 1
    /\ p.mode = "parsed" =>
        LET read == SubSeq(p.text, 1, p.pos - 1)
        IN read \in Words /\ cJSON_Print(heap, p.root) = read
    /\ p.mode = "refused" /\ ~p.oom =>
        \A n \in 1..Len(p.text) : SubSeq(p.text, 1, n) \notin Words

\* The items that a parse has made and not yet handed over.
InParse ==
    IF ~Parsing THEN {}
    ELSE UNION {Below(heap, i) : i \in {p.root} \cup {f.head : f \in ToSet(p.stack)}}

Forest == INSTANCE ItemForest WITH
        kids <- [i \in InUse(heap) \ InParse |-> ListOf(heap, i)],
        held <- held

\* The pointers implement sequences: each call edits one list as the abstract
\* forest does, and a parse adds one tree or, failing at whatever token and
\* level, nothing, with no item lost.
ImplementsItemForest == Forest!Spec

================================================================================
