------------------------------ MODULE Payloads ------------------------------
(***************************************************************************)
(* Storage of payloads.  A payload that is larger than the limit is not    *)
(* written into a row: its large parts, or else all of it, are written to  *)
(* artifact files, and references to the files take their place.           *)
(*                                                                         *)
(* A payload is an atom, that is a leaf or a reference, or a branch: a     *)
(* list or a dictionary, whose keys do not matter here.  Sizes are counted *)
(* in units; what json.dumps makes of a leaf that JSON cannot express is   *)
(* its text.                                                               *)
(***************************************************************************)
EXTENDS Naturals, Sequences

CONSTANTS
    RefSize,   \* the size of a reference
    Data,      \* what a leaf may hold
    AsText,    \* the text of the data that JSON cannot express
    MaxDepth   \* bound: how deep payloads nest

ASSUME RefSizeAssumption == RefSize \in Nat \ {0}
ASSUME AsTextAssumption ==
    \A data \in DOMAIN AsText : AsText[data] \in Data /\ AsText[data] \notin DOMAIN AsText
ASSUME MaxDepthAssumption == MaxDepth \in Nat

Gone == [gone |-> TRUE]   \* a file that is not there any more

Leaf(data, size) == [data |-> data, size |-> size]
Branch(items)    == [items |-> items]
Reference(k)     == [file |-> k]

IsLeaf(p)      == "data" \in DOMAIN p
IsBranch(p)    == "items" \in DOMAIN p
IsReference(p) == "file" \in DOMAIN p

\* A leaf may also count something.
Leaves == [data : Data, size : Nat] \union [data : Data, size : Nat, attempts : Nat]
Atoms  == Leaves \union [file : Nat]

Nested[depth \in Nat] ==
    IF depth = 0 THEN Atoms ELSE Atoms \union [items : Seq(Nested[depth - 1])]

Payload == Nested[MaxDepth]

Size[p \in Payload] ==
    IF IsLeaf(p) THEN p.size
    ELSE IF IsReference(p) THEN RefSize
    ELSE LET upTo[n \in 0..Len(p.items)] ==
                 IF n = 0 THEN 1 ELSE upTo[n - 1] + Size[p.items[n]]
         IN  upTo[Len(p.items)]

\* The atoms of a payload.
Within[p \in Payload] ==
    IF IsBranch(p) THEN UNION {Within[p.items[i]] : i \in DOMAIN p.items} ELSE {p}

\* The payload with new[a] in the place of every atom a.
Replace(new) ==
    LET replaced[p \in Payload] ==
            IF IsBranch(p) THEN Branch([i \in DOMAIN p.items |-> replaced[p.items[i]]])
                           ELSE new[p]
    IN  replaced

\* What a file holds: the data in JSON.
InJson == [a \in Atoms |-> IF IsLeaf(a) /\ a.data \in DOMAIN AsText
                           THEN [a EXCEPT !.data = AsText[@]] ELSE a]

Written(p) == Replace(InJson)[p]

\* A JSON column refuses data that JSON cannot express.
IsJson(p) == \A a \in Within[p] : IsLeaf(a) => a.data \notin DOMAIN AsText

Fits(p, limit) == limit = 0 \/ Size[p] <= limit

\* The payload with references in the place of what is in new files.
Stored(value, files) == [value |-> value, files |-> files]

\* The file that is written after k others and files.
WriteJson(p, k, files) == Stored(Reference(k + Len(files) + 1), Append(files, Written(p)))

\* Mutant: the file gets the payload whose parts have been replaced.
WholeReplaced(p, k, inside) == WriteJson(inside.value, k, inside.files)

\* A payload that stays too large is written as it was, and the files of its
\* parts are left without a reference.
Whole(p, k, inside) == WriteJson(p, k, inside.files)

\* The items of a branch, one after the other.
PreparedItems(prepared, items, k) ==
    LET upTo[n \in 0..Len(items)] ==
            IF n = 0 THEN Stored(<< >>, << >>)
            ELSE LET before == upTo[n - 1]
                     item   == prepared[items[n]][k + Len(before.files)]
                 IN  Stored(Append(before.value, item.value), before.files \o item.files)
        all == upTo[Len(items)]
    IN  Stored(Branch(all.value), all.files)

PreparedBranch(prepared, p, k, limit) ==
    LET inside == PreparedItems(prepared, p.items, k)
    IN  IF Fits(inside.value, limit) THEN inside ELSE Whole(p, k, inside)

\* _prepare_stored_payload: what goes into the row, and the files that are
\* written, when there are k files.
Prepare(limit) ==
    LET prepared[p \in Payload] ==
            [k \in Nat |-> IF Fits(p, limit) \/ IsReference(p) THEN Stored(p, << >>)
                           ELSE IF IsBranch(p) THEN PreparedBranch(prepared, p, k, limit)
                           ELSE WriteJson(p, k, << >>)]
    IN  prepared

Prepared(p, k, limit) == Prepare(limit)[p][k]

\* Every file that a payload refers to is there.
Readable(p, files) == \A a \in Within[p] : IsReference(a) => files[a.file] # Gone

\* _materialize_stored_payload: the content of a file is taken as it is.
Materialised(p, files) ==
    Replace([a \in Atoms |-> IF IsReference(a) THEN files[a.file] ELSE a])[p]
=============================================================================
