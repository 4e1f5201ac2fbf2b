---------------------------- MODULE GuiInstances ----------------------------
(***************************************************************************)
(* Three parts of the GUI as parts of something larger: instances of       *)
(* StripWindow, EqualizerFile and OscWire whose names clash with those of  *)
(* no other part, for TLC (MCGui) and for the proofs (PartsProofs for the  *)
(* window of a strip, StreamProofs for the files and the bytes).           *)
(***************************************************************************)
EXTENDS Integers, Sequences, FiniteSets

CONSTANTS MaxWindowInputs, MaxWindowBreaks

VARIABLES
    server, windowUp, windowDown, windowConnected, windows, present, type, enable,
    named, shown, dialog, controller, showDisabled, asked, early, raced,
    windowInputs, windowBreaks

Window == INSTANCE StripWindow WITH
    MaxInputs <- MaxWindowInputs, MaxBreaks <- MaxWindowBreaks,
    up <- windowUp, down <- windowDown, connected <- windowConnected,
    inputs <- windowInputs, breaks <- windowBreaks

windowVars == <<server, windowUp, windowDown, windowConnected, windows, present, type,
    enable, named, shown, dialog, controller, showDisabled, asked, early, raced,
    windowInputs, windowBreaks>>

(* The dialog of a strip shows the boxes of its type (StripWindow).         *)
BoxesFollowType == Window!TypeOK /\ Window!BoxesFollowType

(* No strip of the server is enabled without a user (StripWindow).          *)
EnabledByUser == Window!EnabledByUser

-----------------------------------------------------------------------------
CONSTANTS EqualizerKeys, EqualizerTypes, EqualizerFreqs, FileLines, FileWords, MaxFileEdits

VARIABLES keysOrder, eq, file, saved, whole, fileEdits

Equalizers == INSTANCE EqualizerFile WITH
    Index <- EqualizerKeys, Type <- EqualizerTypes, Freq <- EqualizerFreqs,
    Lines <- FileLines, MaxEdits <- MaxFileEdits, edits <- fileEdits

(* A line of a file, whoever wrote it.                                      *)
FileLine ==
    [index : Nat, enabled : BOOLEAN,
     word : FileWords \cup {Equalizers!WordOf(t) : t \in Equalizers!FilterType},
     fc : Nat, gain : Nat, width : {"Q", "BW", "S"}, q : Nat]

(* Frequencies are those of the spin box; the lines of other programs have  *)
(* any words and any numbers.                                               *)
ASSUME EqualizerAssumption ==
    /\ EqualizerKeys \subseteq Nat /\ IsFiniteSet(EqualizerKeys)
    /\ EqualizerTypes \subseteq Equalizers!FilterType
    /\ EqualizerFreqs \subseteq Equalizers!MinFreq..Equalizers!MaxFreq
    /\ FileLines \subseteq Seq(FileLine)
    /\ MaxFileEdits \in Nat

equalizerVars == <<keysOrder, eq, file, saved, whole, fileEdits>>

(* An import of an exported file restores the equalizers (EqualizerFile).   *)
RoundTrip == Equalizers!TypeOK /\ Equalizers!RoundTrip

-----------------------------------------------------------------------------
CONSTANTS WireMessage, MaxPacket, MaxSent, MaxNull, MaxWireBreaks

VARIABLES wireConnected, serial, wire, decoder, atOpen, transmitted, wireBreaks

Wire == INSTANCE OscWire WITH
    Message <- WireMessage, MaxSize <- MaxPacket, MaxBreaks <- MaxWireBreaks,
    connected <- wireConnected, before <- atOpen, sent <- transmitted,
    breaks <- wireBreaks

Byte == 0..255

(* The greatest number of 32 bits.                                         *)
MaxInt32 == 2147483647

(* The bytes of an argument of a type.                                      *)
Value(t) ==
    CASE t = "s" -> Seq(Byte \ {0})
      [] t \in {"T", "F"} -> {<<>>}
      [] OTHER -> {b \in Seq(Byte) : Len(b) = Wire!Width(t)}

(* Addresses start with a slash and strings have no NUL; the length of a    *)
(* message is a number of 32 bits.                                          *)
ASSUME WireAssumption ==
    /\ \A m \in WireMessage :
          /\ m = [address |-> m.address, arguments |-> m.arguments]
          /\ m.address \in Seq(Byte \ {0}) /\ Len(m.address) > 1 /\ m.address[1] = 47
          /\ m.arguments \in Seq([type : DOMAIN Wire!Char, bytes : Seq(Byte)])
          /\ \A k \in DOMAIN m.arguments : m.arguments[k].bytes \in Value(m.arguments[k].type)
          /\ Len(Wire!WriteMessage(m)) <= MaxInt32
    /\ {MaxPacket, MaxSent, MaxNull, MaxWireBreaks} \subseteq Nat

wireVars == <<wireConnected, serial, wire, decoder, atOpen, transmitted, wireBreaks>>

(* Messages are executed as they were sent (OscWire).                       *)
DeliveredAsSent == Wire!TypeOK /\ Wire!DeliveredAsSent
=============================================================================
