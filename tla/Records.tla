------------------------------ MODULE Records ------------------------------
(***************************************************************************)
(* Records of tagged fields and the containers over them (llamaLite): the  *)
(* algebra of tag paths and access sets, iteration and sub-records, views  *)
(* that only narrow, and the columns of a dynamic structure of arrays      *)
(* through resizing that may run out of memory.                            *)
(*                                                                         *)
(* A record is the tags of the fields of each of its nested records, by    *)
(* path.  A canonical leaf set is a sequence in declaration order.         *)
(***************************************************************************)
EXTENDS Integers, Sequences, FiniteSets, SequencesExt, FiniteSetsExt

CONSTANTS
    Records,    \* records whose selections are evaluated
    Table,      \* the record of the DynSoA
    FrameRecord,\* the record of the frames rows are copied from
    FrameRows,  \* bound: rows of a frame
    MaxRows     \* the largest number of rows the row index allows

VARIABLES
    question,   \* a selection: the record, two sets of accesses, the nodes with a visitor
    columns,    \* channels_: the column of each leaf
    size,       \* size_
    cursor,     \* a View: its navigation root and access set
    granted,    \* history: the leaves all requests on the way to the cursor have in common
    rows        \* history: the rows as callers mean them

records == <<question, columns, size, cursor, granted, rows>>

-----------------------------------------------------------------------------
(* TagPath and Record.                                                     *)

commonPrefixLength(p, q) ==
    Max({k \in 0 .. Len(p) : k <= Len(q) /\ \A i \in 1 .. k : p[i] = q[i]})

isAncestorOf(p, q) == commonPrefixLength(p, q) = Len(p)

isStrictAncestorOf(p, q) == Len(p) < Len(q) /\ isAncestorOf(p, q)

\* A strict prefix selects what the longer path selects already.
hasRedundantPaths(S) == \E p, q \in S : isStrictAncestorOf(p, q)

relativePath(full, prefix) == SubSeq(full, Len(prefix) + 1, Len(full))

hasPath(R, p) ==
    \A k \in 1 .. Len(p) : LET q == SubSeq(p, 1, k - 1) IN q \in DOMAIN R /\ Contains(R[q], p[k])

nodes(R) == DOMAIN R \cup {Append(q, t) : q \in DOMAIN R, t \in UNION {ToSet(R[p]) : p \in DOMAIN R}}

isLeaf(R, p) == hasPath(R, p) /\ p \notin DOMAIN R

below(R, p) ==
    LET under[n \in nodes(R)] ==
          IF n \in DOMAIN R THEN FlattenSeq([i \in DOMAIN R[n] |-> under[Append(n, R[n][i])]]) ELSE <<n>>
    IN  under[p]

GetLeafPaths(R) == below(R, <<>>)

-----------------------------------------------------------------------------
(* Set and AccessSet.                                                      *)

UnionFold(a, b) == a \o SelectSeq(b, LAMBDA x : ~Contains(a, x))

FilterByMembership(a, b, keep) == SelectSeq(a, LAMBDA x : Contains(b, x) = keep)

SelectsLeaf(l, S) == \E p \in S : isAncestorOf(p, l)

leaf_set(R, S) == SelectSeq(GetLeafPaths(R), LAMBDA l : SelectsLeaf(l, S))

leaf_set_complement(R, S) == SelectSeq(GetLeafPaths(R), LAMBDA l : ~SelectsLeaf(l, S))

unionOf(R, a, b) == leaf_set(R, ToSet(UnionFold(a, b)))

intersection(R, a, b) == leaf_set(R, ToSet(FilterByMembership(a, b, TRUE)))

difference(R, a, b) == leaf_set(R, ToSet(FilterByMembership(a, b, FALSE)))

symmetric(R, a, b) ==
    leaf_set(R, ToSet(UnionFold(FilterByMembership(a, b, FALSE), FilterByMembership(b, a, FALSE))))

\* SubRecord: a field that is requested stays whole, one that is passed through keeps what
\* is requested below it.
subRecord(R, S) ==
    LET whole(p) == \E k \in 1 .. Len(p) : SubSeq(p, 1, k) \in S
        stays(p) == whole(p) \/ \E q \in S : isStrictAncestorOf(p, q)
    IN  [p \in {n \in DOMAIN R : n = <<>> \/ stays(n)} |-> SelectSeq(R[p], LAMBDA t : stays(Append(p, t)))]

-----------------------------------------------------------------------------
(* Iteration with a selector; V are the nested records that have a visitor. *)

Include(S) ==
    [allow  |-> {p \in UNION {nodes(R) : R \in Records} : \E t \in S : isAncestorOf(p, t) \/ isAncestorOf(t, p)},
     covers |-> {p \in UNION {nodes(R) : R \in Records} : \E t \in S : isAncestorOf(t, p)}]

Exclude(S) ==
    [allow  |-> {p \in UNION {nodes(R) : R \in Records} : \A t \in S : ~isAncestorOf(t, p)},
     covers |-> {p \in UNION {nodes(R) : R \in Records} :
                    \A t \in S : ~isAncestorOf(p, t) /\ ~isAncestorOf(t, p)}]

\* The nodes a visitor is called on, in order.
iterate(R, selector, V) ==
    LET from[p \in DOMAIN R] ==
          FlattenSeq([i \in DOMAIN R[p] |->
              LET next == Append(p, R[p][i])
              IN  IF next \notin selector.allow THEN <<>>
                  ELSE IF next \in DOMAIN R /\ ~(next \in selector.covers /\ next \in V) THEN from[next]
                  ELSE <<next>>])
    IN  from[<<>>]

-----------------------------------------------------------------------------
(* View: every handle keeps a canonical access set below its root.         *)

leaves == GetLeafPaths(Table)

subtree_access(p) == leaf_set(Table, {p})

child_access(access, p) == intersection(Table, access, subtree_access(p))

CanDrill(c, ra) == hasPath(Table, c.root \o ra) /\ child_access(c.access, c.root \o ra) # <<>>

requested(c, S) == {c.root \o ra : ra \in S}

CanSelect(c, S) ==
    /\ \A p \in requested(c, S) : hasPath(Table, p)
    /\ ToSet(leaf_set(Table, requested(c, S))) \subseteq ToSet(c.access)

CanResolve(c) == c.root # <<>> /\ ToSet(subtree_access(c.root)) \subseteq ToSet(c.access)

\* A fresh view of the container.
whole == [root |-> <<>>, access |-> leaves]

Fresh == cursor' = whole /\ granted' = ToSet(leaves) /\ UNCHANGED <<question, columns, size, rows>>

\* The accesses below a root.
Relative(c) == {relativePath(p, c.root) : p \in {n \in nodes(Table) : hasPath(Table, n) /\ isAncestorOf(c.root, n)}}

view(ra) ==
    /\ CanDrill(cursor, ra)
    /\ cursor' = [root |-> cursor.root \o ra, access |-> child_access(cursor.access, cursor.root \o ra)]
    /\ granted' = {l \in granted : isAncestorOf(cursor.root \o ra, l)}
    /\ UNCHANGED <<question, columns, size, rows>>

select(S) ==
    /\ CanSelect(cursor, S)
    /\ cursor' = [cursor EXCEPT !.access = leaf_set(Table, requested(cursor, S))]
    /\ granted' = {l \in granted : \E ra \in S : isAncestorOf(cursor.root \o ra, l)}
    /\ UNCHANGED <<question, columns, size, rows>>

\* Narrowed to the leaves S a view of another record has selected, in this record's order.
select_like(S) ==
    /\ S # {} /\ \A l \in S : hasPath(Table, l)
    /\ ToSet(leaf_set(Table, S)) \subseteq ToSet(cursor.access)
    /\ cursor' = [cursor EXCEPT !.access = leaf_set(Table, S)]
    /\ granted' = granted \cap S
    /\ UNCHANGED <<question, columns, size, rows>>

-----------------------------------------------------------------------------
(* DynSoA.  A column is a vector whose growth may fail.                    *)

Initialized == <<>>

Uninitialized == <<"uninitialized">>

resizedColumn(c, n, v) == IF n <= Len(c) THEN SubSeq(c, 1, n) ELSE c \o [i \in 1 .. n - Len(c) |-> v]

truncated(c, n) == IF Len(c) > n THEN SubSeq(c, 1, n) ELSE c

position(l) == CHOOSE i \in DOMAIN leaves : leaves[i] = l

\* Columns grow one after the other; the one at position k runs out of memory, none for 0.
growing(n, v, k) ==
    [l \in ToSet(leaves) |-> IF k = 0 \/ position(l) < k THEN resizedColumn(columns[l], n, v) ELSE columns[l]]

rolledBack(grew, n) == [l \in DOMAIN grew |-> truncated(grew[l], n)]

\* The position where a growth to n rows fails.
Failures(n, from) == IF n > from THEN 0 .. Len(leaves) ELSE {0}

newRow(v) == [l \in ToSet(leaves) |-> v]

resize(n, v, k) ==
    /\ n <= MaxRows /\ k \in Failures(n, size)
    /\ columns' = IF k = 0 THEN growing(n, v, 0) ELSE rolledBack(growing(n, v, k), size)
    /\ size' = IF k = 0 THEN n ELSE size
    /\ rows' = IF k = 0 THEN resizedColumn(rows, n, newRow(v)) ELSE rows
    /\ UNCHANGED <<question, cursor, granted>>

discardAndResize(n, k) ==
    /\ n <= MaxRows /\ k \in Failures(n, 0)
    /\ columns' = [l \in ToSet(leaves) |->
                      IF k = 0 THEN resizedColumn(<<>>, n, Uninitialized)
                      ELSE truncated(IF position(l) < k THEN resizedColumn(<<>>, n, Uninitialized) ELSE <<>>, 0)]
    /\ size' = IF k = 0 THEN n ELSE 0
    /\ rows' = IF k = 0 THEN resizedColumn(<<>>, n, newRow(Uninitialized)) ELSE <<>>
    /\ UNCHANGED <<question, cursor, granted>>

\* checkSize throws before anything changes.
TooLarge(n) == n > MaxRows /\ UNCHANGED records

\* Copy assignment from a container of n rows: the copy is complete before it is swapped in.
CopyAssign(n, k) ==
    /\ n <= MaxRows /\ k \in Failures(n, 0)
    /\ columns' = IF k = 0 THEN [l \in ToSet(leaves) |-> resizedColumn(<<>>, n, Initialized)] ELSE columns
    /\ size' = IF k = 0 THEN n ELSE size
    /\ rows' = IF k = 0 THEN resizedColumn(<<>>, n, newRow(Initialized)) ELSE rows
    /\ UNCHANGED <<question, cursor, granted>>

\* Another container takes the columns; this one goes on empty.
MoveFrom ==
    /\ columns' = [l \in ToSet(leaves) |-> <<>>] /\ size' = 0 /\ rows' = <<>>
    /\ UNCHANGED <<question, cursor, granted>>

-----------------------------------------------------------------------------
(* copy_values.                                                            *)

cell(l, i) == <<l, i>>

\* Exactly the leaves the destination has selected.
copied(c) == ToSet(c.access)

CopyValuesCompatible(S) == \A l \in S : isLeaf(FrameRecord, l)

\* From row i of a frame to row j, and from row i to row j through a One.
copy_values(i, j) ==
    /\ j <= size /\ CopyValuesCompatible(ToSet(cursor.access))
    /\ columns' = [l \in ToSet(leaves) |-> IF l \in copied(cursor) THEN [columns[l] EXCEPT ![j] = cell(l, i)] ELSE columns[l]]
    /\ rows' = [rows EXCEPT ![j] = [l \in ToSet(leaves) |-> IF l \in granted THEN cell(l, i) ELSE @[l]]]
    /\ UNCHANGED <<question, size, cursor, granted>>

One(i) == [l \in ToSet(leaves) |-> columns[l][i]]

assignOne(i, j) ==
    /\ i <= size /\ j <= size
    /\ columns' = [l \in ToSet(leaves) |-> IF l \in copied(cursor) THEN [columns[l] EXCEPT ![j] = One(i)[l]] ELSE columns[l]]
    /\ rows' = [rows EXCEPT ![j] = [l \in ToSet(leaves) |-> IF l \in granted THEN rows[i][l] ELSE @[l]]]
    /\ UNCHANGED <<question, size, cursor, granted>>

-----------------------------------------------------------------------------
NoQuestion == [record |-> Table, left |-> {}, right |-> {}, visitors |-> {}]

Questions ==
    UNION {[record : {R}, left : SUBSET {n \in nodes(R) : hasPath(R, n)},
            right : {S \in SUBSET {n \in nodes(R) : hasPath(R, n)} : Cardinality(S) <= 2},
            visitors : SUBSET (DOMAIN R \ {<<>>})] : R \in Records}

ContainerInit ==
    /\ columns = [l \in ToSet(leaves) |-> <<>>] /\ size = 0 /\ rows = <<>>
    /\ cursor = whole /\ granted = ToSet(leaves)

RecordsInit == question = NoQuestion /\ ContainerInit

QuestionsInit == question \in Questions /\ ContainerInit

RecordsNext ==
    \/ Fresh \/ MoveFrom
    \/ \E ra \in Relative(cursor) : view(ra)
    \/ \E S \in SUBSET Relative(cursor) : select(S)
    \/ \E S \in SUBSET ToSet(GetLeafPaths(FrameRecord)) : select_like(S)
    \/ \E n \in 0 .. MaxRows, k \in 0 .. Len(leaves) :
          resize(n, Initialized, k) \/ resize(n, Uninitialized, k) \/ discardAndResize(n, k) \/ CopyAssign(n, k)
    \/ TooLarge(MaxRows + 1)
    \/ \E j \in 1 .. size : (\E i \in 1 .. FrameRows : copy_values(i, j)) \/ (\E i \in 1 .. size : assignOne(i, j))

-----------------------------------------------------------------------------
\* Through every sequence of resizes, failures in any column, moves and copies, all columns
\* have size_ rows and row i of every column is the row the callers wrote: nothing outside
\* the leaves that every view, select and drill on the way had selected was touched.
RowsWhole ==
    /\ size = Len(rows)
    /\ \A l \in ToSet(leaves) : Len(columns[l]) = size /\ \A i \in 1 .. size : columns[l][i] = rows[i][l]

\* A handle is canonical, denotes exactly what was granted on the way, and resolves only a
\* node all of whose leaves it has.
HandlesExact ==
    /\ cursor.access = SelectSeq(leaves, LAMBDA l : l \in granted)
    /\ \A l \in granted : isAncestorOf(cursor.root, l)
    /\ CanResolve(cursor) => ToSet(below(Table, cursor.root)) = granted

\* The canonical sets of equal selections are equal and the operators are those of sets of
\* leaves; iteration, whichever nested records have visitors, reaches every selected leaf
\* once and no other; a sub-record has the leaves its accesses select.
SelectionsExact ==
    LET R == question.record
        A == leaf_set(R, question.left)
        B == leaf_set(R, question.right)
        set(p) == {l \in ToSet(GetLeafPaths(R)) : \E q \in p : Len(q) <= Len(l) /\ SubSeq(l, 1, Len(q)) = q}
        ordered(S) == SelectSeq(GetLeafPaths(R), LAMBDA l : l \in S)
        a == set(question.left)
        b == set(question.right)
        reached(selector) ==
            LET v == iterate(R, selector, question.visitors) IN FlattenSeq([i \in DOMAIN v |-> below(R, v[i])])
    IN  /\ A = ordered(a)
        /\ unionOf(R, A, B) = ordered(a \cup b) /\ intersection(R, A, B) = ordered(a \cap b)
        /\ difference(R, A, B) = ordered(a \ b) /\ symmetric(R, A, B) = ordered((a \ b) \cup (b \ a))
        /\ leaf_set_complement(R, question.left) = ordered(ToSet(GetLeafPaths(R)) \ a)
        /\ (\A l \in a \cap b : FALSE) \/ hasRedundantPaths(question.left \cup question.right)
              \/ question.left \cap question.right # {}
        /\ reached(Include(question.left)) = A
        /\ reached(Exclude(question.left)) = leaf_set_complement(R, question.left)
        /\ <<>> \notin question.left => GetLeafPaths(subRecord(R, question.left)) = A

RecordsExact == RowsWhole /\ HandlesExact /\ SelectionsExact
=============================================================================
