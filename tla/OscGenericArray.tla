-------------------------- MODULE OscGenericArray --------------------------
(***************************************************************************)
(* OscGenericArray<T>: items addressed by integer keys, as the list of     *)
(* channel strips and the per-channel filters of a strip.  The array keeps *)
(* a list of keys, itself an OSC node that clients read and write, a map   *)
(* from keys to items, and the next key to give out.  Every change goes    *)
(* through the list of keys, whose change callback creates and destroys    *)
(* the items.                                                              *)
(*                                                                         *)
(* The module has no state.  Each operator maps an array to an outcome:    *)
(*   arr   the array afterwards                                            *)
(*   sent  the messages broadcast on the way: the values of a new item     *)
(*         (Item), the list of keys (Keys)                                 *)
(***************************************************************************)
EXTENDS Integers, Sequences, SequencesExt, FiniteSetsExt

Keys(s) == [type |-> "keys", keys |-> s]
Item(k) == [type |-> "item", key |-> k]

Outcome(arr, sent) == [arr |-> arr, sent |-> sent]

Empty == [keys |-> <<>>, value |-> {}, nextKey |-> 0]

\* A key read from a list is kept when it is in S and was not read before.
Keep(S, kept, k) == IF k \in S /\ ~Contains(kept, k) THEN Append(kept, k) ELSE kept

\* The keys of a list that are in S, each at its first occurrence.
Pick(s, S) == FoldLeft(LAMBDA kept, k : Keep(S, kept, k), <<>>, s)

Dedupe(s) == Pick(s, ToSet(s))

\* Mutant: one is added twice.
KeyTwoAfter(value) == IF value = {} THEN 0 ELSE Max(value) + 2

\* updateNextKeyToMaxKey()
KeyAfter(value) == IF value = {} THEN 0 ELSE Max(value) + 1

\* Mutant: items are not destroyed with their keys.
SetKeysLeaking(a, new) ==
    LET kept == Dedupe(new)
    IN  IF new = a.keys THEN Outcome(a, <<>>)
        ELSE Outcome([keys |-> kept, value |-> a.value \cup ToSet(kept), nextKey |-> a.nextKey],
                     <<Keys(kept)>>)

\* Mutant: duplicate keys are neither refused nor dropped.
SetKeysKeepingDuplicates(a, new) ==
    IF new = a.keys THEN Outcome(a, <<>>)
    ELSE Outcome([keys |-> new, value |-> ToSet(new), nextKey |-> a.nextKey], <<Keys(new)>>)

\* Mutant: a list with the same keys in another order is not a change.
SetKeysIgnoringOrder(a, new) ==
    LET kept == Dedupe(new)
    IN  IF ToSet(new) = a.value THEN Outcome(a, <<>>)
        ELSE Outcome([keys |-> kept, value |-> ToSet(kept), nextKey |-> KeyAfter(ToSet(kept))],
                     [i \in 1..Cardinality(ToSet(new) \ a.value) |->
                         Item(Pick(kept, ToSet(new) \ a.value)[i])] \o <<Keys(kept)>>)

(***************************************************************************)
(* keys.setData(new), or a "keys" message from a client.  Items are        *)
(* created as the list is read, which sends their values; then the items   *)
(* left out are destroyed, and only that recomputes nextKey.  A list with  *)
(* duplicates is stored without them by a nested setData, which sends the  *)
(* list a first time.                                                      *)
(***************************************************************************)
SetKeys(a, new) ==
    LET kept    == Dedupe(new)
        value   == ToSet(kept)
        created == Pick(kept, value \ a.value)
    IN  IF new = a.keys THEN Outcome(a, <<>>)
        ELSE Outcome(
               [keys    |-> kept,
                value   |-> value,
                nextKey |-> IF a.value \ value = {} THEN a.nextKey ELSE KeyAfter(value)],
               [i \in DOMAIN created |-> Item(created[i])]
                   \o (IF kept = new THEN <<>> ELSE <<Keys(kept)>>) \o <<Keys(kept)>>)

Insert(a, k) ==
    SetKeys([a EXCEPT !.nextKey = IF @ <= k THEN k + 1 ELSE @], Append(a.keys, k))

\* push_back() inserts what getNextKey() returns, even when it is in use.
PushBack(a) == Insert([a EXCEPT !.nextKey = @ + 1], a.nextKey)

Erase(a, k) == SetKeys(a, Pick(a.keys, ToSet(a.keys) \ {k}))

\* A message for an item that does not exist creates it.
Access(a, k) == IF k \in a.value THEN Outcome(a, <<>>) ELSE Insert(a, k)

\* Mutant: resize() counts its push_backs and not the items.
ResizeBlindly(a, n) ==
    FoldLeft(LAMBDA r, i :
                LET next == IF Cardinality(a.value) > n THEN Erase(r.arr, Max(r.arr.value))
                            ELSE PushBack(r.arr)
                IN  Outcome(next.arr, r.sent \o next.sent),
             Outcome(a, <<>>),
             [i \in 1..Max({Cardinality(a.value) - n, n - Cardinality(a.value)}) |-> i])

(***************************************************************************)
(* resize(n) pushes items back, or erases the one with the largest key,    *)
(* until there are n.  A push_back adds no item when its key is in use,    *)
(* which happens at most once per item: Max({n, size}) rounds are enough.  *)
(***************************************************************************)
Resize(a, n) ==
    FoldLeft(LAMBDA r, i :
                LET size == Cardinality(r.arr.value)
                    next == IF size < n THEN PushBack(r.arr)
                            ELSE IF size > n THEN Erase(r.arr, Max(r.arr.value))
                            ELSE Outcome(r.arr, <<>>)
                IN  Outcome(next.arr, r.sent \o next.sent),
             Outcome(a, <<>>),
             [i \in 1..Max({n, Cardinality(a.value)}) |-> i])
=============================================================================
