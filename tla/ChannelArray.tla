---------------------------- MODULE ChannelArray ----------------------------
(***************************************************************************)
(* The per-channel arrays of FilterChain (reverb filters, balance volumes):*)
(* one item per audio channel of the strip.  The server resizes the array  *)
(* when the number of channels changes; the audio thread reads at(channel) *)
(* for every channel, which throws when the item is missing.  But the      *)
(* array is also a node of the OSC tree: any client can write its keys, or *)
(* create an item by addressing it, and the configuration file restores    *)
(* its keys in no particular order with the number of channels.            *)
(***************************************************************************)
EXTENDS OscGenericArray

CONSTANTS
    MaxChannels,     \* bound: channel counts (the code accepts up to 32)
    DefaultChannels, \* the count a strip is constructed with
    ClientKeys,      \* keys that clients write or address
    MaxClientKeys    \* bound: length of the lists that clients write

VARIABLES
    arr,       \* the array
    channels,  \* oscNumChannel
    touched    \* a client changed the keys since the server last built the array

vars == <<arr, channels, touched>>

TypeOK ==
    /\ arr.keys \in Seq(Int)
    /\ arr.value \in SUBSET Int
    /\ arr.nextKey \in Int
    /\ channels \in 1..MaxChannels
    /\ touched \in BOOLEAN

\* The constructor: oscNumChannel's change callback runs with the default.
Constructed == Resize(Empty, DefaultChannels).arr

Init ==
    /\ arr = Constructed
    /\ channels = DefaultChannels
    /\ touched = FALSE

\* Mutant: the check callback lets no channels pass.
AcceptsZeroChannels(n) == n \in 0..MaxChannels

\* oscNumChannel's check callback (32 stands for MaxChannels in the code).
ValidChannels(n) == n \in 1..MaxChannels

\* oscNumChannel changes.  An array built from nothing has forgotten what clients
\* did to it.
SetChannels(n) ==
    /\ ValidChannels(n)
    /\ n # channels
    /\ channels' = n
    /\ arr' = Resize(arr, n).arr
    /\ touched' = (touched /\ arr.value # {})

\* A client writes .../keys.
ClientSetKeys(s) ==
    /\ arr' = SetKeys(arr, s).arr
    /\ touched' = (touched \/ arr'.keys # arr.keys)
    /\ UNCHANGED channels

\* A client addresses item k.
ClientAccess(k) ==
    /\ arr' = Access(arr, k).arr
    /\ touched' = (touched \/ arr'.keys # arr.keys)
    /\ UNCHANGED channels

\* The server ends after it saved its configuration and starts again.  The nodes
\* take their saved values in the order of a set of pointers: any order.
Restart ==
    /\ \/ arr' = SetKeys(Resize(Constructed, channels).arr, arr.keys).arr
       \/ arr' = Resize(SetKeys(Constructed, arr.keys).arr, channels).arr
    /\ UNCHANGED <<channels, touched>>

Next ==
    \/ \E n \in 0..(MaxChannels + 1) : SetChannels(n)
    \/ \E s \in BoundedSeq(ClientKeys, MaxClientKeys) : ClientSetKeys(s)
    \/ \E k \in ClientKeys \cap Nat : ClientAccess(k)
    \/ Restart

Spec == Init /\ [][Next]_vars

-----------------------------------------------------------------------------
\* The keys and the items are the same set, and no key is listed twice: the
\* reentrant setData of the change callback leaves no trace.
Coherent ==
    /\ ToSet(arr.keys) = arr.value
    /\ Len(arr.keys) = Cardinality(arr.value)

\* While only the server works on the array, at(channel) finds every channel:
\* neither stale next keys nor the load order of the configuration leave a hole.
ChannelsPresent == ~touched => 0..(channels - 1) \subseteq arr.value

\* Whatever clients did to the keys, changing the number of channels leaves
\* exactly one item per channel: resize() terminates with the size asked for.
ResizeExact ==
    [][channels' # channels => Cardinality(arr'.value) = channels']_vars
=============================================================================
