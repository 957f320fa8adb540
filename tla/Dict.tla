-------------------------------- MODULE Dict --------------------------------
(***************************************************************************)
(* redis-5.0.10/src/dict.c: the hash table of every Redis key space.  It   *)
(* grows and shrinks by moving its buckets one by one to a second table,   *)
(* a little with every call, while clients walk it with a cursor           *)
(* (dictScan) and commands with an iterator (dictNext).                    *)
(*                                                                         *)
(* A chain is the set of its keys: entries are added at its head, and what *)
(* is left of a chain for an iterator changes only by the deletion of the  *)
(* entry it has returned.                                                  *)
(***************************************************************************)
EXTENDS Integers, FiniteSets

CONSTANTS
    Keys,
    Hash,           \* [Keys -> Nat]
    InitialSize,    \* DICT_HT_INITIAL_SIZE
    MinFill,        \* HASHTABLE_MIN_FILL, in percent
    ForceRatio,     \* dict_force_resize_ratio
    EmptyVisits,    \* empty buckets that a rehashing step looks at, 10 in the code
    Word            \* 2^(bits of an unsigned long)

ASSUME DictAssumption ==
    /\ IsFiniteSet(Keys) /\ Hash \in [Keys -> Nat]
    /\ InitialSize \in Nat \ {0} /\ MinFill \in Nat /\ ForceRatio \in Nat
    /\ EmptyVisits \in Nat \ {0} /\ Word \in Nat \ {0}

\* The sizes of tables are powers of two, and a cursor can count the buckets of the
\* largest one that the keys can ask for.
ASSUME CursorAssumption ==
    /\ \E a \in 0..InitialSize, b \in 0..Word : a <= b /\ InitialSize = 2^a /\ Word = 2^b
    /\ 2 * Cardinality(Keys) <= Word

VARIABLES
    d,          \* the dict
    child,      \* a process that saves the database is running
    reply,      \* the last call and whether it was successful
    scan,       \* a client's SCAN: whether it is on, its cursor, and (history) the
                \* keys there since its start that it has not been given yet
    iter        \* a safe iterator: whether it is open, where it is, the rest of
                \* its chain, the entry it returned, and (history) the keys there
                \* since its start and those of them it has returned

vars == <<d, child, reply, scan, iter>>

EmptyTable == [size |-> 0, table |-> <<>>, used |-> 0]
NewTable(n) == [size |-> n, table |-> [i \in 0..n-1 |-> {}], used |-> 0]
Pair(h0, h1) == [t \in {0, 1} |-> IF t = 0 THEN h0 ELSE h1]

Index(k, n) == Hash[k] % n
Entries(h) == UNION {h.table[i] : i \in 0..h.size-1}
AllKeys == Entries(d.ht[0]) \cup Entries(d.ht[1])

dictSize(x) == x.ht[0].used + x.ht[1].used
dictSlots(x) == x.ht[0].size + x.ht[1].size
dictIsRehashing(x) == x.rehashidx # -1
-----------------------------------------------------------------------------
(* Resizing. *)

\* The power of two (times InitialSize) that n fits into.
_dictNextPower(n) ==
    LET sizes == {InitialSize * 2^e : e \in 0..n}
    IN  CHOOSE s \in sizes : s >= n /\ \A r \in sizes : r >= n => s <= r

CanExpand(x, n) ==
    /\ ~dictIsRehashing(x) /\ x.ht[0].used <= n
    /\ _dictNextPower(n) # x.ht[0].size

dictExpand(x, n) ==
    IF ~CanExpand(x, n) THEN x
    ELSE IF x.ht[0].size = 0 THEN [x EXCEPT !.ht[0] = NewTable(_dictNextPower(n))]
    ELSE [x EXCEPT !.ht = Pair(x.ht[0], NewTable(_dictNextPower(n))), !.rehashidx = 0]

\* Table h without the entries of its buckets B, and with the entries of S.
Emptied(h, B) ==
    [h EXCEPT !.table = [i \in DOMAIN h.table |-> IF i \in B THEN {} ELSE h.table[i]],
              !.used = h.used - Cardinality(UNION {h.table[i] : i \in B})]
Filled(h, S) ==
    [h EXCEPT !.table = [i \in DOMAIN h.table |->
                            h.table[i] \cup {k \in S : Index(k, h.size) = i}],
              !.used = h.used + Cardinality(S)]

\* The old table has been moved up to bucket b.
MoveBuckets(x, b) ==
    LET B == {i \in 0..x.ht[0].size-1 : x.rehashidx <= i /\ i < b}
        old == Emptied(x.ht[0], B)
        new == Filled(x.ht[1], UNION {x.ht[0].table[i] : i \in B})
    IN  IF old.used = 0
        THEN [x EXCEPT !.ht = Pair(new, EmptyTable), !.rehashidx = -1]
        ELSE [x EXCEPT !.ht = Pair(old, new), !.rehashidx = b]

\* dictRehash(d, 1): the next bucket that is not empty, if it is near enough.
dictRehash(x) ==
    LET full == {i \in 0..x.ht[0].size-1 : i >= x.rehashidx /\ x.ht[0].table[i] # {}}
        next == CHOOSE i \in full : \A j \in full : i <= j
    IN  IF ~dictIsRehashing(x) THEN x
        ELSE IF full = {} THEN MoveBuckets(x, x.rehashidx)
        ELSE IF next - x.rehashidx >= EmptyVisits
             THEN [x EXCEPT !.rehashidx = @ + EmptyVisits]
        ELSE MoveBuckets(x, next + 1)

\* Mutant: an iterator does not stop the rehashing.
RehashStepAnyway(x) == dictRehash(x)

_dictRehashStep(x) == IF x.iterators = 0 THEN dictRehash(x) ELSE x

_dictExpandIfNeeded(x) ==
    LET h == x.ht[0] IN
    IF dictIsRehashing(x) THEN x
    ELSE IF h.size = 0 THEN dictExpand(x, InitialSize)
    ELSE IF h.used >= h.size /\ (~child \/ h.used \div h.size > ForceRatio)
         THEN dictExpand(x, h.used * 2)
    ELSE x

htNeedsResize(x) ==
    dictSlots(x) > InitialSize /\ (dictSize(x) * 100) \div dictSlots(x) < MinFill

dictResize(x) ==
    IF child \/ dictIsRehashing(x) THEN x
    ELSE dictExpand(x, IF x.ht[0].used < InitialSize THEN InitialSize ELSE x.ht[0].used)
-----------------------------------------------------------------------------
(* Looking up, adding and deleting one key. *)

\* The tables a lookup goes through.
Tables(x) == IF dictIsRehashing(x) THEN {0, 1} ELSE {0}

Bucket(x, t, k) == x.ht[t].table[Index(k, x.ht[t].size)]

\* Mutant: the new table is not searched.
FoundInOld(x, k) == dictSize(x) # 0 /\ k \in Bucket(x, 0, k)

Found(x, k) == dictSize(x) # 0 /\ \E t \in Tables(x) : k \in Bucket(x, t, k)

\* Mutant: new entries go to the old table.
AddToOld(x) == 0

\* A new entry goes to the new table while there is one.
AddTo(x) == IF dictIsRehashing(x) THEN 1 ELSE 0

\* Table h with and without an entry for key k.
With(h, k) ==
    [h EXCEPT !.table[Index(k, h.size)] = @ \cup {k}, !.used = @ + 1]
Without(h, k) ==
    [h EXCEPT !.table[Index(k, h.size)] = @ \ {k}, !.used = @ - 1]

dictAdd(k) ==
    LET x == _dictExpandIfNeeded(_dictRehashStep(d))
        t == AddTo(x)
        exists == \E u \in Tables(x) : k \in Bucket(x, u, k)
    IN  /\ d' = IF exists THEN x
                ELSE [x EXCEPT !.ht[t] = With(@, k)]
        /\ reply' = <<"add", k, ~exists>>
        /\ UNCHANGED <<child, scan, iter>>

\* dictDelete() and dictUnlink().
dictGenericDelete(k) ==
    LET x == IF dictSize(d) = 0 THEN d ELSE _dictRehashStep(d)
        t == CHOOSE u \in Tables(x) :
                /\ k \in Bucket(x, u, k)
                /\ \A v \in Tables(x) : v < u => k \notin Bucket(x, v, k)
    IN  /\ d' = IF ~Found(x, k) THEN x
                ELSE [x EXCEPT !.ht[t] = Without(@, k)]
        /\ reply' = <<"delete", k, Found(x, k)>>
        /\ scan' = [scan EXCEPT !.missing = @ \ {k}]
        /\ iter' = [iter EXCEPT !.kept = @ \ {k}, !.returned = @ \ {k}]
        /\ UNCHANGED child

dictFind(k) ==
    LET x == IF dictSize(d) = 0 THEN d ELSE _dictRehashStep(d)
    IN  /\ d' = x
        /\ reply' = <<"find", k, Found(x, k)>>
        /\ UNCHANGED <<child, scan, iter>>

\* Mutant: the buckets of the new table are drawn only as far as the old one goes.
RandomInOldRange(x) ==
    UNION {x.ht[0].table[i] : i \in 0..x.ht[0].size-1}

\* The keys dictGetRandomKey() can come upon: nothing is looked for in the
\* buckets of the old table that have been moved.
RandomKeys(x) ==
    IF dictIsRehashing(x)
    THEN (UNION {x.ht[0].table[i] : i \in x.rehashidx..x.ht[0].size-1})
         \cup (UNION {x.ht[1].table[i] : i \in 0..x.ht[1].size-1})
    ELSE UNION {x.ht[0].table[i] : i \in 0..x.ht[0].size-1}

dictGetRandomKey ==
    LET x == IF dictSize(d) = 0 THEN d ELSE _dictRehashStep(d)
    IN  /\ d' = x
        /\ reply' = <<"random", dictSize(x) # 0>>
        /\ UNCHANGED <<child, scan, iter>>
-----------------------------------------------------------------------------
(* The cursor. *)

Bit(v, p) == (v \div p) % 2
Powers == {p \in 1..Word : \E e \in 0..Word : p = 2^e /\ p < Word}

\* The bits of a word in reverse order.
rev == [v \in 0..Word-1 |->
          CHOOSE r \in 0..Word-1 : \A p \in Powers : Bit(r, Word \div (2 * p)) = Bit(v, p)]

\* v |= ~mask; v = rev(v); v++; v = rev(v).
Increment(v, size) == rev[(rev[(v % size) + Word - size] + 1) % Word]

\* Mutant: the cursor is an ordinary counter.
IncrementPlain(v, size) == ((v % size) + 1) % size

NextCursor(v, size) == Increment(v, size)

\* The cursors whose buckets of the larger table one call visits, and where the
\* call leaves: until the bits that the smaller mask lacks are all 0.
Expansion(v, small, large) ==
    LET go[u \in 0..Word-1] ==
          LET w == NextCursor(u, large)
          IN  IF (w % large) \div small = 0 THEN [visited |-> {u}, next |-> w]
              ELSE [visited |-> {u} \cup go[w].visited, next |-> go[w].next]
    IN  go[v]

\* dictScan(): the keys given to the callback and the next cursor.
dictScan(x, v) ==
    LET t0 == IF x.ht[0].size <= x.ht[1].size THEN 0 ELSE 1
        small == x.ht[t0]
        large == x.ht[1 - t0]
        e == Expansion(v, small.size, large.size)
    IN  CASE dictSize(x) = 0 -> [keys |-> {}, next |-> 0]
          [] dictSize(x) # 0 /\ ~dictIsRehashing(x) ->
                [keys |-> x.ht[0].table[v % x.ht[0].size],
                 next |-> NextCursor(v, x.ht[0].size)]
          [] OTHER ->
                [keys |-> small.table[v % small.size]
                          \cup UNION {large.table[u % large.size] : u \in e.visited},
                 next |-> e.next]

\* SCAN from cursor 0 and from the cursor the last call returned.
Scan ==
    LET v == IF scan.on THEN scan.cursor ELSE 0
        r == dictScan(d, v)
        missing == IF scan.on THEN scan.missing ELSE AllKeys
    IN  /\ scan' = [on |-> r.next # 0, cursor |-> r.next, missing |-> missing \ r.keys]
        /\ UNCHANGED <<d, child, reply, iter>>
-----------------------------------------------------------------------------
(* A safe iterator. *)

Closed == [open |-> FALSE, table |-> 0, index |-> -1, todo |-> {}, entry |-> {},
           kept |-> {}, returned |-> {}]

\* Bound: no client is scanning; a step of a command with an iterator is to a SCAN
\* what the same step is without one.
dictGetSafeIterator ==
    /\ ~iter.open /\ ~scan.on
    /\ iter' = [Closed EXCEPT !.open = TRUE, !.kept = AllKeys]
    /\ UNCHANGED <<d, child, reply, scan>>

\* The buckets that are left, as <<table, index>>.
Ahead(x) ==
    {b \in {0, 1} \X (0..dictSlots(x)) :
        /\ b[2] < x.ht[b[1]].size
        /\ b[1] > iter.table \/ (b[1] = iter.table /\ b[2] > iter.index)
        /\ b[1] = 1 => dictIsRehashing(x)}

Before(b, c) == b[1] < c[1] \/ (b[1] = c[1] /\ b[2] < c[2])

\* Mutant: the entry itself is kept as the next one.
RestWithEntry(chain, k) == chain

\* What is left of a chain after entry k: nextEntry, saved before k is returned.
Rest(chain, k) == chain \ {k}

\* The call that opens the walk pauses rehashing; one that finds nothing more
\* leaves the iterator to dictReleaseIterator().
dictNext ==
    LET opening == iter.index = -1 /\ iter.table = 0
        full == {b \in Ahead(d) : d.ht[b[1]].table[b[2]] # {}}
        next == CHOOSE b \in full : \A c \in full : c # b => Before(b, c)
    IN  /\ iter.open
        /\ d' = IF opening THEN [d EXCEPT !.iterators = @ + 1] ELSE d
        /\ \/ \E k \in iter.todo :
                iter' = [iter EXCEPT !.entry = {k}, !.todo = Rest(@, k),
                                     !.returned = @ \cup {k}]
           \/ /\ iter.todo = {} /\ full # {}
              /\ \E k \in d.ht[next[1]].table[next[2]] :
                   iter' = [iter EXCEPT !.table = next[1], !.index = next[2],
                                        !.todo = Rest(d.ht[next[1]].table[next[2]], k),
                                        !.entry = {k}, !.returned = @ \cup {k}]
        /\ UNCHANGED <<child, reply, scan>>

dictReleaseIterator ==
    /\ iter.open
    /\ iter.todo = {} /\ \A b \in Ahead(d) : d.ht[b[1]].table[b[2]] = {}
    /\ d' = IF iter.index = -1 /\ iter.table = 0 THEN d
            ELSE [d EXCEPT !.iterators = @ - 1]
    /\ iter' = Closed
    /\ UNCHANGED <<child, reply, scan>>
-----------------------------------------------------------------------------
Init ==
    /\ d = [ht |-> Pair(EmptyTable, EmptyTable), rehashidx |-> -1, iterators |-> 0]
    /\ child = FALSE /\ reply = <<>>
    /\ scan = [on |-> FALSE, cursor |-> 0, missing |-> {}]
    /\ iter = Closed

\* dictEmpty(), for FLUSHDB.
dictEmpty ==
    /\ d' = [ht |-> Pair(EmptyTable, EmptyTable), rehashidx |-> -1, iterators |-> 0]
    /\ scan' = [scan EXCEPT !.missing = {}]
    /\ UNCHANGED <<child, reply, iter>>

\* databasesCron(): tryResizeHashTables() and, as far as a millisecond goes,
\* incrementallyRehash().
databasesCron ==
    /\ ~child
    /\ LET x == IF htNeedsResize(d) THEN dictResize(d) ELSE d
       IN  \/ d' = x
           \/ dictIsRehashing(x) /\ \E b \in x.rehashidx..x.ht[0].size : d' = MoveBuckets(x, b)
    /\ UNCHANGED <<child, reply, scan, iter>>

\* updateDictResizePolicy(): resizing is off while a child saves the data.
updateDictResizePolicy ==
    /\ child' = ~child
    /\ UNCHANGED <<d, reply, scan, iter>>

\* A command with an iterator runs to its end: it may add and find keys and
\* delete the entry it was given, and nothing else happens meanwhile.
Next ==
    \/ \E k \in Keys : dictAdd(k) \/ dictFind(k)
    \/ \E k \in (IF iter.open THEN iter.entry ELSE Keys) : dictGenericDelete(k)
    \/ dictNext \/ dictReleaseIterator
    \/ ~iter.open /\ (\/ dictGetSafeIterator \/ Scan \/ dictEmpty \/ databasesCron
                      \/ updateDictResizePolicy \/ dictGetRandomKey)

Spec == Init /\ [][Next]_vars
-----------------------------------------------------------------------------
(* Properties. *)

\* A key is in one bucket of one table, the one its hash selects; buckets before
\* rehashidx are empty; used counts the entries (dict.c:188-231, 292-318, 364-399).
TypeOK ==
    /\ \A t \in {0, 1} :
          /\ d.ht[t].table \in [0..d.ht[t].size-1 -> SUBSET Keys]
          /\ d.ht[t].used = Cardinality(Entries(d.ht[t]))
          /\ \A i \in 0..d.ht[t].size-1 : \A k \in d.ht[t].table[i] :
                Index(k, d.ht[t].size) = i
    /\ Entries(d.ht[0]) \cap Entries(d.ht[1]) = {}
    /\ IF dictIsRehashing(d)
       THEN /\ d.rehashidx \in 0..d.ht[0].size /\ d.ht[1].size # d.ht[0].size
            /\ \A i \in 0..d.rehashidx-1 : d.ht[0].table[i] = {}
       ELSE d.ht[1] = EmptyTable
    /\ d.iterators = IF iter.open /\ (iter.index # -1 \/ iter.table # 0) THEN 1 ELSE 0

\* A finished SCAN has returned every key that was there from its first call to
\* its last, whatever was added, deleted, resized and rehashed between the calls
\* (dict.c:763-764: "guarantees all elements present in the dictionary get
\* returned between the start and end of the iteration").
ScanComplete == ~scan.on => scan.missing = {}

\* A safe iterator that has nothing more to return has returned every key that
\* was there all the time (dict.c:562-595).
IteratorComplete ==
    (iter.open /\ iter.todo = {} /\ \A b \in Ahead(d) : d.ht[b[1]].table[b[2]] = {})
        => iter.kept \subseteq iter.returned

\* A safe iterator returns no key twice, even when the dict starts to grow under
\* it: as long as it is open no bucket moves (dict.c:260-262, 585-588).
IteratorOnce ==
    [][iter.open /\ iter'.open /\ iter'.entry # iter.entry
         => iter'.entry \cap (iter.returned \cap iter.kept) = {}]_vars

\* Every key can be drawn by dictGetRandomKey() and none but keys of the dict, so
\* that its loop over empty buckets ends (dict.c:610-632).
EveryKeyCanBeDrawn == RandomKeys(d) = AllKeys

\* To its callers the two tables are one set of keys, and every call answers as
\* a set would, whichever of its keys are in which table at that moment
\* (dict.c:292-318, 364-399, 476-495, 963-986).
Abstract == INSTANCE KeySet WITH keys <- AllKeys
ImplementsKeySet == Abstract!Spec
==============================================================================
