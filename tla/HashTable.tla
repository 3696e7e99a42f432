------------------------------ MODULE HashTable -------------------------------
(***************************************************************************)
(* The intrusive hash table of kernel/src/lib/hashtable.c and              *)
(* lib/support/src/hashtable.c, as operators from the words of the items   *)
(* (struct hashitem is one word, the first of the item) and the heads of   *)
(* the buckets to what a call leaves behind.                               *)
(***************************************************************************)
EXTENDS Integers, Sequences

CONSTANTS
    Key,   \* the keys
    Size,  \* the number of buckets
    Hash,  \* the hash function of the table, as an unsigned number
    NoItem \* NULL

Bucket == 0 .. Size - 1

\* The bucket of a key.
IndexOf(k) == Hash[k] % Size

\* hashtable_add: the item becomes the first of its bucket.
AddWord(word, heads, item, k) == [word EXCEPT ![item] = heads[IndexOf(k)]]
AddHead(heads, item, k) == [heads EXCEPT ![IndexOf(k)] = item]

\* hashtable_get: the first item of the bucket with that key, in the order of
\* the chain, which ends with NULL; NULL if there is none.
FirstOf(chain, key, k) ==
    LET hits == {i \in 1 .. Len(chain) - 1 : key[chain[i]] = k}
    IN  IF hits = {} THEN NoItem
        ELSE chain[CHOOSE i \in hits : \A j \in hits : i <= j]

\* The item before this one in the chain, NULL for the first.
Before(chain, item) ==
    LET i == CHOOSE j \in 1 .. Len(chain) : chain[j] = item
    IN  IF i = 1 THEN NoItem ELSE chain[i - 1]

\* hashtable_remove unlinks the item that hashtable_get finds.
RemoveWord(word, chain, item) ==
    LET prev == Before(chain, item)
    IN  IF prev = NoItem THEN word ELSE [word EXCEPT ![prev] = word[item]]

\* Mutant: the head of the bucket is changed, whatever the item's place.
RemoveHeadAlways(word, heads, chain, item, k) ==
    [heads EXCEPT ![IndexOf(k)] = word[item]]

RemoveHead(word, heads, chain, item, k) ==
    IF Before(chain, item) = NoItem
    THEN [heads EXCEPT ![IndexOf(k)] = word[item]]
    ELSE heads
=============================================================================
