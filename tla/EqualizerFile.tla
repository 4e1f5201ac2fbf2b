---------------------------- MODULE EqualizerFile ----------------------------
(***************************************************************************)
(* The equalizers of a strip in the GUI, exported to and imported from     *)
(* files of Equalizer APO (damc_gui/EqualizersController.cpp).  A file is  *)
(* a sequence of chunks: a line takes one or two of them, by the length of *)
(* its numbers.  An export writes from the start of the file and does not  *)
(* truncate it: what was longer stays behind the new lines.  Numbers are   *)
(* integers; frequencies are in hundredths of a hertz and the formulas     *)
(* that convert them are any distinct values (Corner, FromBandwidth).      *)
(***************************************************************************)
EXTENDS Naturals, Sequences, FiniteSets, SequencesExt

CONSTANTS
    Index,      \* the equalizers' keys that may exist: 0..n
    Type,       \* filter types set by the user and the server
    Freq,       \* frequencies they set
    Lines,      \* lines of files other programs wrote
    MaxEdits    \* bound: changes of the settings, of the keys and of the file

VARIABLES
    keysOrder,  \* the keys of the equalizers, in their order
    eq,         \* the values of their widgets
    file,       \* chunks of the file
    saved,      \* history: the settings of the last export, in order
    whole,      \* history: that export left no line of a longer file
    edits       \* number of changes

eqVars == <<keysOrder, eq, file, saved, whole, edits>>

FilterType == {"None", "LowPass", "HighPass", "BandPassConstantSkirt",
               "BandPassConstantPeak", "Notch", "AllPass", "Peak",
               "LowShelf", "HighShelf"}
Shelf == {"LowShelf", "HighShelf"}

(* filterTypeMap of the import: the types of the words of a file. *)
TypeOf ==
    [None |-> "None", PK |-> "Peak", PEQ |-> "Peak", Modal |-> "Peak",
     LP |-> "LowPass", HP |-> "HighPass", LPQ |-> "LowPass", HPQ |-> "HighPass",
     BP |-> "BandPassConstantPeak", LS |-> "LowShelf", HS |-> "HighShelf",
     LSC |-> "LowShelf", HSC |-> "HighShelf", NO |-> "Notch", AP |-> "AllPass"]

(* Mutant: the shelves are written with the words of corner frequencies. *)
WordsByCorner ==
    [None |-> "None", Peak |-> "PK", LowPass |-> "LP", HighPass |-> "HP",
     BandPassConstantPeak |-> "BP", LowShelf |-> "LS", HighShelf |-> "HS",
     Notch |-> "NO", AllPass |-> "AP"]

(* filterTypeMap of the export.  A type it lacks is written as an empty     *)
(* word: what follows it, Fc, is then read as the word of the type.         *)
Words ==
    [None |-> "None", Peak |-> "PK", LowPass |-> "LP", HighPass |-> "HP",
     BandPassConstantPeak |-> "BP", LowShelf |-> "LSC", HighShelf |-> "HSC",
     Notch |-> "NO", AllPass |-> "AP"]

WordOf(type) == IF type \in DOMAIN Words THEN Words[type] ELSE "Fc"

MinFreq == 1000       \* the range of the spin box, 10 Hz to 96 kHz
MaxFreq == 9600000

SixDigits == 1000000  \* from 10 kHz on, a number is written to one decimal

(* QString::arg writes six significant digits. *)
WrittenFreq(fc) == IF fc < SixDigits THEN fc ELSE ((fc + 5) \div 10) * 10

Corner(fc) == fc + 100
FromBandwidth(width) == width + 1

UsualQ(type) ==
    CASE type \in {"LowPass", "HighPass"} -> 7
      [] type \in Shelf -> 9
      [] type = "Notch" -> 30
      [] OTHER -> 1   \* zero, which the spin box raises to its minimum

NoGain == 100  \* a line without a gain

Setting == [enabled : BOOLEAN, type : FilterType, fc : Nat, gain : Nat, q : Nat]
Default == [enabled |-> FALSE, type |-> "None", fc |-> 100000, gain |-> 0, q |-> 1]

TypeOK ==
    /\ IsInjective(keysOrder) /\ ToSet(keysOrder) \subseteq Index
    /\ eq \in [ToSet(keysOrder) -> Setting]
    /\ \A i \in DOMAIN file : file[i].part \in 1..2
    /\ \A i \in DOMAIN saved : saved[i] \in Setting
    /\ whole \in BOOLEAN /\ edits \in 0..MaxEdits

(* A line: its index, whether ON, the word of its type, its frequency,      *)
(* whether it has a gain, and its width, a Q, a bandwidth or a slope.       *)
Chunks(line) ==
    [part \in 1..(IF line.fc >= SixDigits THEN 2 ELSE 1) |->
        [line |-> line, part |-> part]]

Init ==
    /\ keysOrder = SetToSeq(Index)
    /\ eq = [k \in Index |-> Default]
    /\ file = <<>> /\ saved = <<>> /\ whole = FALSE /\ edits = 0

Edit == edits < MaxEdits /\ edits' = edits + 1

(* The user or a message of the server sets the values of an equalizer. *)
Set(k, enabled, type, fc) ==
    /\ Edit /\ k \in DOMAIN eq
    /\ eq' = [eq EXCEPT ![k] = [enabled |-> enabled, type |-> type, fc |-> fc,
                                gain |-> 1, q |-> 2]]
    /\ UNCHANGED <<keysOrder, file, saved, whole>>

(* The server's keys: another program adds, removes or reorders filters. *)
SetKeys(keys) ==
    /\ Edit /\ keys # keysOrder
    /\ keysOrder' = keys
    /\ eq' = [k \in ToSet(keys) |-> IF k \in DOMAIN eq THEN eq[k] ELSE Default]
    /\ UNCHANGED <<file, saved, whole>>

NeedsGain(type) == type \in Shelf \cup {"Peak"}
NeedsWidth(type) == type \in {"Peak", "AllPass"}

(* A line the import applies; of any other the user is warned. *)
Accepted(line, settings) ==
    /\ line.index > 0
    /\ line.word \in DOMAIN TypeOf
    /\ NeedsGain(TypeOf[line.word]) => line.gain # NoGain
    /\ NeedsWidth(TypeOf[line.word]) => line.q > 0
    /\ line.index - 1 \in DOMAIN settings

(* The values of a line.  A shelf named by its corner is moved to its       *)
(* centre; a bandwidth or a slope is converted into a Q.                    *)
Read(line) ==
    LET type == TypeOf[line.word]
        corner == type \in Shelf /\ line.q > 0 /\ line.word \in {"LS", "HS"}
        fc == IF corner THEN Corner(line.fc) ELSE line.fc
        width == IF line.q = 0 THEN UsualQ(type) ELSE line.q
    IN  [enabled |-> line.enabled,
         type |-> type,
         fc |-> IF fc < MinFreq THEN MinFreq ELSE IF fc > MaxFreq THEN MaxFreq ELSE fc,
         gain |-> IF line.gain = NoGain THEN 0 ELSE line.gain,
         q |-> IF line.width = "Q" THEN width ELSE FromBandwidth(width)]

(* The import of a file over some settings, line after line.  Lines are     *)
(* whole from their first chunk on: what an export leaves of an older line, *)
(* without its start, does not match "^Filter".                             *)
Imported(f, settings) ==
    LET read[n \in 0..Len(f)] ==
            IF n = 0 THEN settings
            ELSE IF f[n].part = 1 /\ Accepted(f[n].line, read[n - 1])
            THEN [read[n - 1] EXCEPT ![f[n].line.index - 1] = Read(f[n].line)]
            ELSE read[n - 1]
    IN  read[Len(f)]

OnImportAction ==
    /\ eq' = Imported(file, eq)
    /\ UNCHANGED <<keysOrder, file, saved, whole, edits>>

LineOf(i) ==
    LET s == eq[keysOrder[i]]
    IN  [index |-> i, enabled |-> s.enabled, word |-> WordOf(s.type),
         fc |-> WrittenFreq(s.fc), gain |-> s.gain, width |-> "Q", q |-> s.q]

(* The file is opened for reading and writing and is not truncated. *)
OnExportAction ==
    LET text == FlattenSeq([i \in DOMAIN keysOrder |-> Chunks(LineOf(i))])
        tail == SubSeq(file, Len(text) + 1, Len(file))
    IN  /\ file' = text \o tail
        /\ saved' = [i \in DOMAIN keysOrder |-> eq[keysOrder[i]]]
        /\ whole' = (\A i \in DOMAIN tail : tail[i].part # 1)
        /\ UNCHANGED <<keysOrder, eq, edits>>

(* Another program writes the file, or it is another file. *)
OtherFile(lines) ==
    /\ Edit
    /\ file' = FlattenSeq([i \in DOMAIN lines |-> Chunks(lines[i])])
    /\ saved' = <<>> /\ whole' = FALSE
    /\ UNCHANGED <<keysOrder, eq>>

Next ==
    \/ \E k \in Index, enabled \in BOOLEAN, type \in Type, fc \in Freq :
         Set(k, enabled, type, fc)
    \/ \E K \in SUBSET Index : \E keys \in SetToSeqs(K) : SetKeys(keys)
    \/ OnImportAction \/ OnExportAction
    \/ \E a, b \in Lines \cup {<<>>} : OtherFile(a \o b)

Spec == Init /\ [][Next]_eqVars

(* A setting a file can hold: its type has a word and its frequency has no  *)
(* more than six digits.                                                    *)
Exportable(s) == s.type \in DOMAIN Words /\ WrittenFreq(s.fc) = s.fc

(* An import of an exported file gives every equalizer the values it had,   *)
(* whatever was set since: of each line of the export, the equalizer of     *)
(* its index has the values of its position then, if the file can hold them *)
(* and nothing of a longer file follows them (onExportAction against        *)
(* onImportAction).                                                         *)
RoundTrip ==
    whole => \A i \in DOMAIN saved :
        i - 1 \in DOMAIN eq /\ Exportable(saved[i])
            => Imported(file, eq)[i - 1] = saved[i]
=============================================================================
