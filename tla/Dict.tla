-------------------------------- MODULE Dict --------------------------------
(***************************************************************************)
(* The dictionary of module/stl/src/stl_dict.c: buckets of chained pairs.  *)
(* A pair goes in at the head of its chain, also when the key is there     *)
(* already, and the first pair with the key is the one that lookup and     *)
(* delete take.  hash and cmp are the caller's; cmp compares the data.     *)
(*                                                                         *)
(* Items are integers or texts.  What is stored of an item is the first    *)
(* len bytes of its struct (data at byte 0, data_type at 8, len at 12) and *)
(* zeros behind them, and of a text a copy of its own.  Items of type PTR, *)
(* keys with a len above 16 and values with one above 24 are left out:     *)
(* memcpy writes beyond what was allocated for them.  Which copies of      *)
(* texts are never freed (those with a len of 8 or less, stored as an      *)
(* integer) is not followed.                                               *)
(***************************************************************************)
EXTENDS Integers, Sequences, FiniteSetsExt, SequencesExt

CONSTANTS
    DictKey, DictValue,  \* the items that callers use
    HashOf,              \* hash, modulo max_count (always STL_DICT_INIT_SIZE)
    DictBucket,          \* indexes of buckets
    MaxInserts           \* bound: inserts

\* stl_dict_item: the bytes of the integer, the lowest first, or the characters of the text.
DictItem == [data : Seq(Nat), text : BOOLEAN, len : Nat]

ASSUME DictAssumption ==
    /\ DictKey \subseteq DictItem /\ DictValue \subseteq DictItem
    /\ HashOf \in [DictKey -> DictBucket] /\ MaxInserts \in Nat

VARIABLES
    buckets, dictCount,   \* the fields
    dictAlive,        \* FALSE once stl_dict_deinit has freed the buckets
    inserted,         \* history: the values inserted so far
    stacks,           \* history: for every bucket and data as it is stored, the numbers of the
                      \* values inserted and not deleted, newest first
    lost              \* history: pairs that nothing reaches and nobody freed

dictVars == <<buckets, dictCount, dictAlive, inserted, stacks, lost>>

\* What stl_dict_item_pair_alloc and stl_dict_item_ptr_alloc make of an item.
CopyOf(item) ==
    [data |-> IF item.text THEN item.data
              ELSE [i \in DOMAIN item.data |-> IF i <= item.len THEN item.data[i] ELSE 0],
     text |-> item.text /\ 8 < item.len,
     len |-> IF item.text THEN Len(item.data) ELSE IF 12 < item.len THEN item.len ELSE 0]

\* A key for insert is its bucket and its data as stored, for lookup and delete the data that
\* the caller gives them.
Place == DictBucket \X ({CopyOf(k).data : k \in DictKey} \cup {k.data : k \in DictKey})
Stored(k) == <<HashOf[k], CopyOf(k).data>>
Sought(k) == <<HashOf[k], k.data>>

\* stl_dict_init.
DictInit ==
    /\ buckets = [b \in DictBucket |-> << >>] /\ dictCount = 0
    /\ dictAlive = TRUE
    /\ inserted = << >> /\ stacks = [p \in Place |-> << >>] /\ lost = 0

\* The first pair with the key in its chain, 0 if there is none.
PairAt(k) == SelectInSeq(buckets[HashOf[k]], LAMBDA pair : pair.key.data = k.data)

NoValue == << >>

\* stl_dict_lookup.
Lookup(k) == IF PairAt(k) = 0 THEN NoValue ELSE <<buckets[HashOf[k]][PairAt(k)].value>>

\* A pair, and as history the number of its insert.
NewPair(k, value) ==
    [key |-> CopyOf(k), value |-> CopyOf(value), number |-> Len(inserted) + 1]

\* Mutant: the pair goes to the end of its chain.
InsertLast(k, value) ==
    /\ dictAlive /\ Len(inserted) < MaxInserts
    /\ inserted' = Append(inserted, value)
    /\ buckets' = [buckets EXCEPT ![HashOf[k]] = Append(@, NewPair(k, value))]
    /\ dictCount' = dictCount + 1
    /\ stacks' = [stacks EXCEPT ![Stored(k)] = <<Len(inserted) + 1>> \o @]
    /\ UNCHANGED <<dictAlive, lost>>

\* stl_dict_item_pair_insert: the pair becomes the head of its chain.
PairInsert(k, value) == [buckets EXCEPT ![HashOf[k]] = <<NewPair(k, value)>> \o @]

\* stl_dict_insert.
DictInsert(k, value) ==
    /\ dictAlive /\ Len(inserted) < MaxInserts
    /\ inserted' = Append(inserted, value)
    /\ buckets' = PairInsert(k, value)
    /\ dictCount' = dictCount + 1
    /\ stacks' = [stacks EXCEPT ![Stored(k)] = <<Len(inserted) + 1>> \o @]
    /\ UNCHANGED <<dictAlive, lost>>

\* What stl_dict_item_pair_delete leaves of a chain: behind the head it takes one pair out,
\* but the head takes the whole chain with it.
Unchain(chain, i) == IF i = 1 THEN << >> ELSE RemoveAt(chain, i)

\* stl_dict_delete; it returns 0 whether or not it finds the key.
DictDelete(k) ==
    /\ dictAlive
    /\ IF PairAt(k) = 0 THEN UNCHANGED <<buckets, dictCount, lost>>
       ELSE LET chain == buckets[HashOf[k]]
                rest == Unchain(chain, PairAt(k))
            IN /\ buckets' = [buckets EXCEPT ![HashOf[k]] = rest]
               /\ dictCount' = dictCount - 1
               /\ lost' = lost + Len(chain) - 1 - Len(rest)
    /\ stacks' = [stacks EXCEPT ![Sought(k)] = IF @ = << >> THEN @ ELSE Tail(@)]
    /\ UNCHANGED <<dictAlive, inserted>>

Pairs == MapThenSumSet(LAMBDA b : Len(buckets[b]), DictBucket)

\* stl_dict_deinit frees the chain of the first bucket in use and the array of buckets, and
\* then leaves the loop, for max_count is 0; a chain of several pairs is walked through
\* freed memory, where the links may or may not be intact.  An empty dictionary it leaves
\* as it is.
DictDeinit ==
    LET used == {b \in DictBucket : buckets[b] # << >>}
        first == CHOOSE b \in used : \A other \in used : b <= other
    IN /\ dictAlive /\ used # {}
       /\ \E freed \in 1 .. Len(buckets[first]) : lost' = lost + Pairs - freed
       /\ buckets' = [b \in DictBucket |-> << >>] /\ dictCount' = 0
       /\ dictAlive' = FALSE
       /\ UNCHANGED <<inserted, stacks>>

DictNext ==
    \/ DictDeinit
    \/ \E k \in DictKey : DictDelete(k) \/ \E value \in DictValue : DictInsert(k, value)

DictSpec == DictInit /\ [][DictNext]_dictVars

(***************************************************************************)
(*                              Properties                                 *)
(***************************************************************************)
\* The data of an item as far as its len covers it, and of a text all.
Covers(data, item) ==
    /\ Len(data) = Len(item.data)
    /\ \A i \in DOMAIN data : data[i] = IF item.text \/ i <= item.len THEN item.data[i] ELSE 0

\* Whatever was deleted between, and although stl_dict_item_pair_delete can drop the chain
\* behind a head (stl_dict.c:136), a lookup returns the newest value inserted and not deleted
\* whose key was stored with the data that is looked for, or nothing: never one that is
\* shadowed, deleted or of another key; and while no chain was dropped it finds every value
\* that is there.  A key or value whose len does not cover its data (stl_dict.c:82 and 84) is
\* stored, and so found, with the rest of its bytes zero; a text is whole.
LookupIsNewest ==
    \A k \in DictKey :
        LET stack == stacks[Sought(k)] IN
        /\ Lookup(k) # NoValue => stack # << >> /\ Covers(Lookup(k)[1].data, inserted[stack[1]])
        /\ dictAlive /\ lost = 0 /\ stack # << >> => Lookup(k) # NoValue
=============================================================================
