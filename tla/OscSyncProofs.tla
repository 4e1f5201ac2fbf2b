--------------------------- MODULE OscSyncProofs ---------------------------
(***************************************************************************)
(* Proofs about OscSync, for every set of GUIs, connections and values,    *)
(* every pair of conversions and every number of edits and failures.       *)
(***************************************************************************)
EXTENDS OscSync, SequenceTheorems, TLAPS

(***************************************************************************)
(* Facts about the operators.                                              *)
(***************************************************************************)

\* An appended element is the last one; the elements before it stay.
LEMMA AppendFacts ==
    ASSUME NEW S, NEW s \in Seq(S), NEW e \in S
    PROVE  /\ Append(s, e) \in Seq(S)
           /\ Append(s, e) # <<>>
           /\ Len(Append(s, e)) = Len(s) + 1
           /\ Append(s, e)[Len(Append(s, e))] = e
           /\ \A i \in 1..Len(s) : Append(s, e)[i] = s[i]
           /\ s # <<>> => Append(s, e)[1] = s[1]
           /\ s = <<>> => Append(s, e)[1] = e
<1>1. Len(s) \in Nat
  BY LenProperties
<1>2. s # <<>> => Len(s) \in Nat \ {0}
  BY EmptySeq
<1>3. s = <<>> => Len(s) = 0
  BY EmptySeq
<1>4. /\ Append(s, e) \in Seq(S)
      /\ Append(s, e) # <<>>
      /\ Len(Append(s, e)) = Len(s) + 1
      /\ \A i \in 1..Len(s) : Append(s, e)[i] = s[i]
      /\ Append(s, e)[Len(s) + 1] = e
  BY AppendProperties
<1> QED
  BY <1>1, <1>2, <1>3, <1>4

\* Removing the head keeps the other elements, the last one in particular.
LEMMA TailFacts ==
    ASSUME NEW S, NEW s \in Seq(S), s # <<>>
    PROVE  /\ Len(s) \in Nat \ {0}
           /\ Head(s) = s[1]
           /\ Head(s) \in S
           /\ Tail(s) \in Seq(S)
           /\ Len(Tail(s)) = Len(s) - 1
           /\ \A i \in 1..Len(Tail(s)) : Tail(s)[i] = s[i + 1]
           /\ Tail(s) # <<>> => Tail(s)[Len(Tail(s))] = s[Len(s)]
           /\ Tail(s) = <<>> => s[Len(s)] = Head(s)
<1>1. Len(s) \in Nat \ {0}
  BY EmptySeq
<1>2. /\ Head(s) \in S
      /\ Tail(s) \in Seq(S)
      /\ Len(Tail(s)) = Len(s) - 1
      /\ \A i \in 1..Len(Tail(s)) : Tail(s)[i] = s[i + 1]
  BY HeadTailProperties
<1>3. Head(s) = s[1]
  OBVIOUS
<1>4. Tail(s) # <<>> => Len(Tail(s)) \in Nat \ {0}
  BY <1>2, EmptySeq
<1>5. Tail(s) = <<>> => Len(Tail(s)) = 0
  BY EmptySeq
<1> QED
  BY <1>1, <1>2, <1>3, <1>4, <1>5

\* What an operation of OscVariable may do: a value that changes is announced.
Sound(y, r) ==
    /\ r.var \in OscVar
    /\ r.notified \in BOOLEAN
    /\ ~r.notified => r.var.value = y.value

\* set() announces every change, and answers an OSC request unless the
\* requested value is the one the variable has.
LEMMA SetFacts ==
    ASSUME NEW y \in OscVar, NEW v \in Internal,
           NEW checked \in BOOLEAN, NEW fromOsc \in BOOLEAN
    PROVE  /\ Sound(y, Set(y, v, checked, fromOsc))
           /\ fromOsc /\ ~Set(y, v, checked, fromOsc).notified => v = y.value
BY DEF Sound, Set, Outcome, OscVar, IsOscValueAuthority

\* forceDefault() makes a sound outcome.
LEMMA ForceDefaultFacts ==
    ASSUME NEW y \in OscVar, NEW v \in Internal, NEW checked \in BOOLEAN
    PROVE  Sound(y, ForceDefault(y, v, checked))
BY DEF Sound, ForceDefault, Set, Outcome, OscVar, IsOscValueAuthority

\* setDefault() makes a sound outcome.
LEMMA SetDefaultFacts ==
    ASSUME NEW y \in OscVar, NEW v \in Internal, NEW checked \in BOOLEAN
    PROVE  Sound(y, SetDefault(y, v, checked))
BY ForceDefaultFacts DEF SetDefault, Sound, Outcome, OscVar

\* A broadcast puts its value last on every accepted connection that has an
\* owner, and leaves the others alone.
LEMMA BroadcastFacts ==
    ASSUME TypeOK, NEW w \in Wire, Broadcast(w)
    PROVE  /\ down' \in [Conn -> Seq(Wire)]
           /\ \A k \in Conn : link[k] = "accepted" /\ Owned(k) =>
                down'[k] # <<>> /\ down'[k][Len(down'[k])] = w
<1>1. ASSUME NEW k \in Conn
      PROVE  /\ Append(down[k], w) \in Seq(Wire)
             /\ Append(down[k], w) # <<>>
             /\ Append(down[k], w)[Len(Append(down[k], w))] = w
  <2>1. down[k] \in Seq(Wire)
    BY DEF TypeOK
  <2> QED
    BY <2>1, AppendFacts
<1> QED
  BY <1>1 DEF TypeOK, Broadcast

\* An outcome applied: who is told, and what the last message down then is.
LEMMA ApplyFacts ==
    ASSUME TypeOK, NEW r, Sound(x, r), Apply(r)
    PROVE  /\ x' \in OscVar
           /\ down' \in [Conn -> Seq(Wire)]
           /\ r.notified => \A k \in Conn : link[k] = "accepted" /\ Owned(k) =>
                down'[k] # <<>> /\ down'[k][Len(down'[k])] = ToOsc[x'.value]
           /\ ~r.notified => x'.value = x.value /\ down' = down
<1>1. x' \in OscVar /\ x' = r.var
  BY DEF Apply, Sound
<1>2. ToOsc[x'.value] \in Wire
  BY <1>1, OscVariableAssumption DEF OscVar
<1>3. CASE r.notified
  <2>1. Broadcast(ToOsc[x'.value])
    BY <1>1, <1>3 DEF Apply
  <2> QED
    BY <1>1, <1>2, <1>3, <2>1, BroadcastFacts
<1>4. CASE ~r.notified
  BY <1>1, <1>4 DEF Apply, Sound, TypeOK
<1> QED
  BY <1>3, <1>4 DEF Sound

\* The check callbacks accept a value or do not.
LEMMA CheckedFacts == \A v : Checked(v) \in BOOLEAN
BY DEF Checked

-----------------------------------------------------------------------------
(***************************************************************************)
(* Type correctness.                                                       *)
(***************************************************************************)

\* The types at the start.
LEMMA TypeInit == Init => TypeOK
<1>1. <<>> \in Seq(UpMsg) /\ <<>> \in Seq(Wire)
  BY EmptySeq
<1>2. 0 \in 0..MaxInputs /\ 0 \in 0..MaxBreaks
  BY OscSyncAssumption
<1> QED
  BY <1>1, <1>2 DEF Init, TypeOK, LinkState

\* Every step keeps the types.
LEMMA TypeNext == TypeOK /\ [Next]_vars => TypeOK'
<1> SUFFICES ASSUME TypeOK, [Next]_vars
             PROVE  TypeOK'
  OBVIOUS
<1> USE OscVariableAssumption, OscSyncAssumption
<1>1. ASSUME NEW k \in Conn, Accept(k)
      PROVE  TypeOK'
  BY <1>1 DEF Accept, TypeOK, LinkState
<1>2. ASSUME NEW k \in Conn, ServerReceive(k)
      PROVE  TypeOK'
  <2>1. up[k] \in Seq(UpMsg) /\ up[k] # <<>>
    BY <1>2 DEF ServerReceive, TypeOK
  <2>2. Head(up[k]) \in UpMsg /\ Tail(up[k]) \in Seq(UpMsg)
    BY <2>1, TailFacts
  <2>3. up' \in [Conn -> Seq(UpMsg)]
    BY <1>2, <2>2 DEF ServerReceive, TypeOK
  <2>4. x' \in OscVar /\ down' \in [Conn -> Seq(Wire)]
    <3>1. CASE Head(up[k]) = Dump
      <4>1. Broadcast(ToOsc[x.value]) /\ x' = x
        BY <1>2, <3>1 DEF ServerReceive
      <4>2. ToOsc[x.value] \in Wire
        BY DEF TypeOK, OscVar
      <4> QED
        BY <4>1, <4>2, BroadcastFacts DEF TypeOK
    <3>2. CASE Head(up[k]) # Dump
      <4> DEFINE v == FromOsc[Head(up[k])]
      <4>1. v \in Internal /\ Checked(v) \in BOOLEAN
        BY <2>2, <3>2, CheckedFacts DEF UpMsg
      <4>2. Apply(Set(x, v, Checked(v), TRUE))
        BY <1>2, <3>2 DEF ServerReceive, SetFromOsc
      <4>3. Sound(x, Set(x, v, Checked(v), TRUE))
        BY <4>1, SetFacts DEF TypeOK
      <4> HIDE DEF v
      <4> QED
        BY <4>2, <4>3, ApplyFacts
    <3> QED
      BY <3>1, <3>2
  <2> QED
    BY <1>2, <2>3, <2>4 DEF ServerReceive, TypeOK
<1>3. ASSUME NEW k \in Conn, ServerClose(k)
      PROVE  TypeOK'
  BY <1>3, EmptySeq DEF ServerClose, Break, TypeOK, LinkState
<1>4. ASSUME NEW w \in Wire, ControllerSet(w)
      PROVE  TypeOK'
  <2>1. FromOsc[w] \in Internal /\ Checked(FromOsc[w]) \in BOOLEAN
    BY CheckedFacts
  <2>2. Sound(x, Set(x, FromOsc[w], Checked(FromOsc[w]), TRUE))
    BY <2>1, SetFacts DEF TypeOK
  <2>3. x' \in OscVar /\ down' \in [Conn -> Seq(Wire)]
    BY <1>4, <2>2, ApplyFacts DEF ControllerSet, SetFromOsc
  <2> QED
    BY <1>4, <2>3 DEF ControllerSet, Input, TypeOK
<1>5. ASSUME NEW v \in Internal, ServerSet(v)
      PROVE  TypeOK'
  <2>1. /\ Sound(x, Set(x, v, Checked(v), FALSE))
        /\ Sound(x, SetDefault(x, v, Checked(v)))
        /\ Sound(x, ForceDefault(x, v, Checked(v)))
    BY CheckedFacts, SetFacts, SetDefaultFacts, ForceDefaultFacts DEF TypeOK
  <2>2. x' \in OscVar /\ down' \in [Conn -> Seq(Wire)]
    BY <1>5, <2>1, ApplyFacts DEF ServerSet
  <2> QED
    BY <1>5, <2>2 DEF ServerSet, Input, TypeOK
<1>6. CASE ServerLock
  BY <1>6 DEF ServerLock, Input, TypeOK
<1>7. CASE ServerRestart
  <2>1. <<>> \in Seq(UpMsg)
    BY EmptySeq
  <2>2. breaks' \in 0..MaxBreaks
    BY <1>7 DEF ServerRestart, Break, TypeOK
  <2> QED
    BY <1>7, <2>1, <2>2 DEF ServerRestart, TypeOK, LinkState
<1>8. ASSUME NEW g \in Gui, NEW k \in Conn, Connect(g, k)
      PROVE  TypeOK'
  <2>1. <<Dump>> \in Seq(UpMsg)
    BY DEF UpMsg
  <2> QED
    BY <1>8, <2>1, EmptySeq DEF Connect, TypeOK, LinkState
<1>9. ASSUME NEW g \in Gui, GuiReceive(g)
      PROVE  TypeOK'
  <2>1. cur[g] \in Conn /\ down[cur[g]] \in Seq(Wire) /\ down[cur[g]] # <<>>
    BY <1>9 DEF GuiReceive, TypeOK
  <2>2. Head(down[cur[g]]) \in Wire /\ Tail(down[cur[g]]) \in Seq(Wire)
    BY <2>1, TailFacts
  <2> QED
    BY <1>9, <2>1, <2>2 DEF GuiReceive, TypeOK
<1>10. ASSUME NEW g \in Gui, NEW w \in Wire, GuiEdit(g, w)
       PROVE  TypeOK'
  <2>1. ASSUME cur[g] # NoConn
        PROVE  Append(up[cur[g]], w) \in Seq(UpMsg)
    <3>1. cur[g] \in Conn /\ up[cur[g]] \in Seq(UpMsg) /\ w \in UpMsg
      BY <2>1 DEF TypeOK, UpMsg
    <3> QED
      BY <3>1, AppendFacts
  <2>2. up' \in [Conn -> Seq(UpMsg)]
    BY <1>10, <2>1 DEF GuiEdit, TypeOK
  <2> QED
    BY <1>10, <2>2 DEF GuiEdit, Input, TypeOK
<1>11. ASSUME NEW g \in Gui, GuiClose(g)
       PROVE  TypeOK'
  BY <1>11 DEF GuiClose, Break, TypeOK, LinkState
<1>12. CASE UNCHANGED vars
  BY <1>12 DEF vars, TypeOK
<1> QED
  BY <1>1, <1>2, <1>3, <1>4, <1>5, <1>6, <1>7, <1>8, <1>9, <1>10, <1>11, <1>12 DEF Next

\* Every variable of OscSync keeps its type: the server's value stays a value
\* of its C++ type and every message in flight is one the other end can read.
THEOREM TypeCorrect == Spec => []TypeOK
BY TypeInit, TypeNext, PTL DEF Spec

-----------------------------------------------------------------------------
(***************************************************************************)
(* Connections: ownership and the dump request.                            *)
(***************************************************************************)

\* Every step keeps that connections are not shared.
LEMMA OwnNext == TypeOK /\ OwnInv /\ [Next]_vars => OwnInv'
<1> SUFFICES ASSUME TypeOK, OwnInv, [Next]_vars
             PROVE  OwnInv'
  OBVIOUS
<1> USE OscSyncAssumption DEF OwnInv, TypeOK
<1>1. ASSUME NEW k \in Conn, Accept(k)
      PROVE  OwnInv'
  BY <1>1 DEF Accept
<1>2. ASSUME NEW k \in Conn, ServerReceive(k)
      PROVE  OwnInv'
  BY <1>2 DEF ServerReceive
<1>3. ASSUME NEW k \in Conn, ServerClose(k)
      PROVE  OwnInv'
  BY <1>3 DEF ServerClose, Owned
<1>4. ASSUME NEW w \in Wire, ControllerSet(w)
      PROVE  OwnInv'
  BY <1>4 DEF ControllerSet
<1>5. ASSUME NEW v \in Internal, ServerSet(v)
      PROVE  OwnInv'
  BY <1>5 DEF ServerSet
<1>6. CASE ServerLock
  BY <1>6 DEF ServerLock
<1>7. CASE ServerRestart
  BY <1>7 DEF ServerRestart, Owned
<1>8. ASSUME NEW g \in Gui, NEW k \in Conn, Connect(g, k)
      PROVE  OwnInv'
  BY <1>8 DEF Connect
<1>9. ASSUME NEW g \in Gui, GuiReceive(g)
      PROVE  OwnInv'
  BY <1>9 DEF GuiReceive
<1>10. ASSUME NEW g \in Gui, NEW w \in Wire, GuiEdit(g, w)
       PROVE  OwnInv'
  BY <1>10 DEF GuiEdit
<1>11. ASSUME NEW g \in Gui, GuiClose(g)
       PROVE  OwnInv'
  BY <1>11 DEF GuiClose
<1>12. CASE UNCHANGED vars
  BY <1>12 DEF vars
<1> QED
  BY <1>1, <1>2, <1>3, <1>4, <1>5, <1>6, <1>7, <1>8, <1>9, <1>10, <1>11, <1>12 DEF Next

\* Every step keeps that a dump request is first and only on its connection.
LEMMA DumpNext == TypeOK /\ OwnInv /\ DumpInv /\ [Next]_vars => DumpInv'
<1> SUFFICES ASSUME TypeOK, OwnInv, DumpInv, [Next]_vars
             PROVE  DumpInv'
  OBVIOUS
<1> USE OscSyncAssumption DEF DumpInv, AwaitsDump
<1>1. ASSUME NEW k \in Conn, Accept(k)
      PROVE  DumpInv'
  BY <1>1 DEF Accept, TypeOK
<1>2. ASSUME NEW k \in Conn, ServerReceive(k)
      PROVE  DumpInv'
  <2>1. up[k] \in Seq(UpMsg) /\ up[k] # <<>>
    BY <1>2 DEF ServerReceive, TypeOK
  <2>2. \A i \in 1..Len(Tail(up[k])) : Tail(up[k])[i] # Dump
    BY <2>1, TailFacts
  <2>3. up' = [up EXCEPT ![k] = Tail(@)] /\ link' = link /\ link[k] = "accepted"
    BY <1>2 DEF ServerReceive
  <2> QED
    BY <2>2, <2>3 DEF TypeOK
<1>3. ASSUME NEW k \in Conn, ServerClose(k)
      PROVE  DumpInv'
  BY <1>3, EmptySeq DEF ServerClose, TypeOK
<1>4. ASSUME NEW w \in Wire, ControllerSet(w)
      PROVE  DumpInv'
  BY <1>4 DEF ControllerSet
<1>5. ASSUME NEW v \in Internal, ServerSet(v)
      PROVE  DumpInv'
  BY <1>5 DEF ServerSet
<1>6. CASE ServerLock
  BY <1>6 DEF ServerLock
<1>7. CASE ServerRestart
  BY <1>7, EmptySeq DEF ServerRestart
<1>8. ASSUME NEW g \in Gui, NEW k \in Conn, Connect(g, k)
      PROVE  DumpInv'
  <2>1. <<Dump>> # <<>> /\ <<Dump>>[1] = Dump /\ Len(<<Dump>>) = 1
    OBVIOUS
  <2> QED
    BY <1>8, <2>1 DEF Connect, TypeOK
<1>9. ASSUME NEW g \in Gui, GuiReceive(g)
      PROVE  DumpInv'
  BY <1>9 DEF GuiReceive
<1>10. ASSUME NEW g \in Gui, NEW w \in Wire, GuiEdit(g, w)
       PROVE  DumpInv'
  <2>1. CASE cur[g] = NoConn
    BY <1>10, <2>1 DEF GuiEdit
  <2>2. CASE cur[g] # NoConn
    <3> DEFINE k == cur[g]
    <3>1. k \in Conn /\ up[k] \in Seq(UpMsg) /\ w \in UpMsg /\ w # Dump
      BY <2>2 DEF TypeOK, UpMsg
    <3>2. Len(up[k]) \in Nat
      BY <3>1, LenProperties
    <3>3. /\ Append(up[k], w) # <<>>
          /\ Len(Append(up[k], w)) = Len(up[k]) + 1
          /\ Append(up[k], w)[Len(up[k]) + 1] = w
          /\ \A i \in 1..Len(up[k]) : Append(up[k], w)[i] = up[k][i]
          /\ up[k] # <<>> => Append(up[k], w)[1] = up[k][1]
      BY <3>1, AppendFacts
    <3>4. up' = [up EXCEPT ![k] = Append(up[k], w)] /\ link' = link
      BY <1>10, <2>2 DEF GuiEdit
    <3>5. \A i \in 1..Len(Append(up[k], w)) : Append(up[k], w)[i] = Dump => i = 1
      BY <3>1, <3>2, <3>3
    <3> HIDE DEF k
    <3> QED
      BY <3>1, <3>3, <3>4, <3>5 DEF TypeOK
  <2> QED
    BY <2>1, <2>2
<1>11. ASSUME NEW g \in Gui, GuiClose(g)
       PROVE  DumpInv'
  BY <1>11 DEF GuiClose, TypeOK
<1>12. CASE UNCHANGED vars
  BY <1>12 DEF vars
<1> QED
  BY <1>1, <1>2, <1>3, <1>4, <1>5, <1>6, <1>7, <1>8, <1>9, <1>10, <1>11, <1>12 DEF Next

-----------------------------------------------------------------------------
(***************************************************************************)
(* Consistency.                                                            *)
(***************************************************************************)

\* InSync(g, k) only depends on the value of x, on k's channels and on g.
LEMMA SyncFrame ==
    ASSUME NEW g \in Gui, NEW k \in Conn, InSync(g, k),
           x'.value = x.value, up'[k] = up[k], down'[k] = down[k],
           widget'[g] = widget[g], shown'[g] = shown[g]
    PROVE  InSync(g, k)'
BY DEF InSync, Agrees

\* A broadcast value is the last word on every accepted connection of a GUI.
LEMMA SyncAnnounced ==
    ASSUME NEW g \in Gui, NEW k \in Conn,
           down'[k] # <<>>, down'[k][Len(down'[k])] = ToOsc[x'.value]
    PROVE  InSync(g, k)'
BY DEF InSync

\* An operation of the server on its variable that does not come from g.
LEMMA SyncApply ==
    ASSUME TypeOK, NEW r, Sound(x, r), Apply(r),
           NEW g \in Gui, NEW k \in Conn, cur[g] = k, link[k] = "accepted",
           up' = up, widget' = widget, shown' = shown,
           ~AwaitsDump(k) => InSync(g, k), ~AwaitsDump(k)'
    PROVE  InSync(g, k)'
<1>1. CASE r.notified
  BY <1>1, ApplyFacts, SyncAnnounced DEF Owned
<1>2. CASE ~r.notified
  BY <1>2, ApplyFacts, SyncFrame DEF AwaitsDump
<1> QED
  BY <1>1, <1>2 DEF Sound

\* Every step keeps that the last message down is the server's value.
LEMMA SyncNext ==
    TypeOK /\ OwnInv /\ DumpInv /\ SyncInv /\ [Next]_vars => SyncInv'
<1> SUFFICES ASSUME TypeOK, OwnInv, DumpInv, SyncInv, [Next]_vars,
                    NEW g \in Gui, NEW k \in Conn,
                    cur'[g] = k, link'[k] = "accepted", ~AwaitsDump(k)'
             PROVE  InSync(g, k)'
  BY DEF SyncInv
<1> USE OscVariableAssumption, OscSyncAssumption
<1>a. cur[g] = k /\ link[k] = "accepted" /\ ~AwaitsDump(k) => InSync(g, k)
  BY DEF SyncInv
<1>b. \A h \in Gui : h # g /\ cur[g] = k => cur[h] # k
  BY DEF OwnInv
<1>1. ASSUME NEW j \in Conn, Accept(j)
      PROVE  InSync(g, k)'
  <2>1. cur[g] = k /\ ~AwaitsDump(k)
    BY <1>1 DEF Accept, AwaitsDump
  <2>2. j # k
    BY <1>1, <2>1 DEF Accept, DumpInv
  <2> QED
    BY <1>1, <1>a, <2>1, <2>2, SyncFrame DEF Accept, TypeOK
<1>2. ASSUME NEW j \in Conn, ServerReceive(j)
      PROVE  InSync(g, k)'
  <2>1. /\ cur' = cur /\ link' = link /\ widget' = widget /\ shown' = shown
        /\ up' = [up EXCEPT ![j] = Tail(@)]
        /\ up[j] # <<>>
    BY <1>2 DEF ServerReceive
  <2>2. cur[g] = k /\ link[k] = "accepted" /\ Owned(k)
    BY <2>1 DEF Owned
  <2>3. up[j] \in Seq(UpMsg)
    BY DEF TypeOK
  <2>4. CASE Head(up[j]) = Dump
    <3>1. Broadcast(ToOsc[x.value]) /\ x' = x
      BY <1>2, <2>4 DEF ServerReceive
    <3>2. ToOsc[x.value] \in Wire
      BY DEF TypeOK, OscVar
    <3>3. down'[k] # <<>> /\ down'[k][Len(down'[k])] = ToOsc[x.value]
      BY <2>2, <3>1, <3>2, BroadcastFacts
    <3> QED
      BY <3>1, <3>3, SyncAnnounced
  <2>5. CASE Head(up[j]) # Dump
    <3> DEFINE w == Head(up[j])
               r == Set(x, FromOsc[w], Checked(FromOsc[w]), TRUE)
    <3>1. FromOsc[w] \in Internal
      BY <2>1, <2>3, <2>5, TailFacts DEF UpMsg
    <3>2. Apply(r)
      BY <1>2, <2>5 DEF ServerReceive, SetFromOsc
    <3>3. Sound(x, r) /\ (~r.notified => FromOsc[w] = x.value)
      BY <3>1, SetFacts, CheckedFacts DEF TypeOK
    <3>4. CASE r.notified
      BY <2>2, <3>2, <3>3, <3>4, ApplyFacts, SyncAnnounced
    <3>5. CASE ~r.notified
      <4>1. x'.value = x.value /\ down' = down
        BY <3>2, <3>3, <3>5, ApplyFacts
      <4>2. CASE j # k
        <5>1. up'[k] = up[k]
          BY <2>1, <4>2 DEF TypeOK
        <5> QED
          BY <1>a, <2>1, <2>2, <4>1, <5>1, SyncFrame DEF AwaitsDump
      <4>3. CASE j = k
        <5>1. up'[k] = Tail(up[k])
          BY <2>1, <4>3 DEF TypeOK
        <5>2. /\ Tail(up[k]) # <<>> => Tail(up[k])[Len(Tail(up[k]))] = up[k][Len(up[k])]
              /\ Tail(up[k]) = <<>> => up[k][Len(up[k])] = w
              /\ w = up[k][1]
          BY <2>1, <2>3, <4>3, TailFacts
        <5>3. InSync(g, k)
          BY <1>a, <2>2, <2>5, <4>3, <5>2 DEF AwaitsDump
        <5>4. FromOsc[w] = x.value
          BY <3>3, <3>5
        <5> HIDE DEF r, w
        <5> QED
          BY <2>1, <4>1, <5>1, <5>2, <5>3, <5>4 DEF InSync, Agrees
      <4> QED
        BY <4>2, <4>3
    <3> QED
      BY <3>3, <3>4, <3>5 DEF Sound
  <2> QED
    BY <2>4, <2>5
<1>3. ASSUME NEW j \in Conn, ServerClose(j)
      PROVE  InSync(g, k)'
  <2>1. j # k
    BY <1>3 DEF ServerClose, TypeOK
  <2> QED
    BY <1>3, <1>a, <2>1, SyncFrame DEF ServerClose, TypeOK, AwaitsDump
<1>4. ASSUME NEW w \in Wire, ControllerSet(w)
      PROVE  InSync(g, k)'
  <2>1. Sound(x, Set(x, FromOsc[w], Checked(FromOsc[w]), TRUE))
    BY SetFacts, CheckedFacts DEF TypeOK
  <2> QED
    BY <1>4, <1>a, <2>1, SyncApply DEF ControllerSet, SetFromOsc
<1>5. ASSUME NEW v \in Internal, ServerSet(v)
      PROVE  InSync(g, k)'
  <2>1. /\ Sound(x, Set(x, v, Checked(v), FALSE))
        /\ Sound(x, SetDefault(x, v, Checked(v)))
        /\ Sound(x, ForceDefault(x, v, Checked(v)))
    BY CheckedFacts, SetFacts, SetDefaultFacts, ForceDefaultFacts DEF TypeOK
  <2> QED
    BY <1>5, <1>a, <2>1, SyncApply DEF ServerSet
<1>6. CASE ServerLock
  BY <1>6, <1>a, SyncFrame DEF ServerLock, AwaitsDump
<1>7. CASE ServerRestart
  BY <1>7 DEF ServerRestart
<1>8. ASSUME NEW h \in Gui, NEW j \in Conn, Connect(h, j)
      PROVE  InSync(g, k)'
  <2>1. j # k
    BY <1>8 DEF Connect, TypeOK
  <2>2. h # g
    BY <1>8, <2>1 DEF Connect, TypeOK
  <2> QED
    BY <1>8, <1>a, <2>1, <2>2, SyncFrame DEF Connect, TypeOK, AwaitsDump
<1>9. ASSUME NEW h \in Gui, GuiReceive(h)
      PROVE  InSync(g, k)'
  <2>1. cur' = cur /\ link' = link /\ up' = up /\ x' = x /\ cur[g] = k
    BY <1>9 DEF GuiReceive
  <2>2. InSync(g, k)
    BY <1>a, <2>1 DEF AwaitsDump
  <2>3. CASE h # g
    <3>1. down'[k] = down[k] /\ widget'[g] = widget[g] /\ shown'[g] = shown[g]
      BY <1>9, <1>b, <2>1, <2>3 DEF GuiReceive, TypeOK
    <3> QED
      BY <2>1, <2>2, <3>1, SyncFrame
  <2>4. CASE h = g
    <3>1. /\ down[k] # <<>> /\ down[k] \in Seq(Wire)
          /\ down'[k] = Tail(down[k])
          /\ widget'[g] = Head(down[k])
          /\ shown'[g] = TRUE
      BY <1>9, <2>1, <2>4 DEF GuiReceive, TypeOK
    <3>2. /\ Tail(down[k]) # <<>> => Tail(down[k])[Len(Tail(down[k]))] = down[k][Len(down[k])]
          /\ Tail(down[k]) = <<>> => down[k][Len(down[k])] = Head(down[k])
      BY <3>1, TailFacts
    <3> QED
      BY <2>1, <2>2, <3>1, <3>2 DEF InSync, Agrees
  <2> QED
    BY <2>3, <2>4
<1>10. ASSUME NEW h \in Gui, NEW w \in Wire, GuiEdit(h, w)
       PROVE  InSync(g, k)'
  <2>1. cur' = cur /\ link' = link /\ down' = down /\ x' = x /\ shown' = shown /\ cur[g] = k
    BY <1>10 DEF GuiEdit
  <2>2. CASE h # g
    <3>1. up'[k] = up[k] /\ widget'[g] = widget[g]
      BY <1>10, <1>b, <2>1, <2>2 DEF GuiEdit, TypeOK
    <3> QED
      BY <1>a, <2>1, <3>1, SyncFrame DEF AwaitsDump
  <2>3. CASE h = g
    <3>1. up[k] \in Seq(UpMsg) /\ w \in UpMsg /\ k # NoConn
      BY DEF TypeOK, UpMsg
    <3>2. up'[k] = Append(up[k], w) /\ widget'[g] = w /\ shown[g]
      BY <1>10, <2>1, <2>3, <3>1 DEF GuiEdit, TypeOK
    <3>3. /\ Append(up[k], w) # <<>>
          /\ Append(up[k], w)[Len(Append(up[k], w))] = w
          /\ up[k] # <<>> => Append(up[k], w)[1] = up[k][1]
      BY <3>1, AppendFacts
    <3>4. InSync(g, k)
      BY <1>a, <2>1, <3>2, <3>3 DEF AwaitsDump
    <3> QED
      BY <2>1, <3>2, <3>3, <3>4 DEF InSync
  <2> QED
    BY <2>2, <2>3
<1>11. ASSUME NEW h \in Gui, GuiClose(h)
       PROVE  InSync(g, k)'
  <2>1. h # g
    BY <1>11 DEF GuiClose, TypeOK
  <2>2. cur[g] = k
    BY <1>11, <2>1 DEF GuiClose, TypeOK
  <2>3. link'[k] = link[k]
    BY <1>11, <1>b, <2>1, <2>2 DEF GuiClose, TypeOK
  <2> QED
    BY <1>11, <1>a, <2>2, <2>3, SyncFrame DEF GuiClose, AwaitsDump
<1>12. CASE UNCHANGED vars
  BY <1>12, <1>a, SyncFrame DEF vars, AwaitsDump
<1> QED
  BY <1>1, <1>2, <1>3, <1>4, <1>5, <1>6, <1>7, <1>8, <1>9, <1>10, <1>11, <1>12 DEF Next

\* IInv is inductive: it holds initially and every step preserves it.
THEOREM Inductive == Spec => []IInv
<1>1. Init => IInv
  <2>1. Init => OwnInv /\ DumpInv /\ SyncInv
    BY OscSyncAssumption, EmptySeq DEF Init, OwnInv, DumpInv, SyncInv
  <2> QED
    BY <2>1, TypeInit DEF IInv
<1>2. IInv /\ [Next]_vars => IInv'
  BY TypeNext, OwnNext, DumpNext, SyncNext DEF IInv
<1> QED
  BY <1>1, <1>2, PTL DEF Spec

\* With nothing in flight, a connected GUI shows the server's value, whatever
\* was edited, refused, ignored, broken or restarted before.
THEOREM Consistency == Spec => []QuiescentConsistency
<1>1. IInv => QuiescentConsistency
  <2> SUFFICES ASSUME IInv, NEW g \in Gui, Quiet(g)
               PROVE  shown[g] /\ Agrees(widget[g])
    BY DEF QuiescentConsistency
  <2>1. cur[g] \in Conn
    BY DEF IInv, TypeOK, Quiet
  <2>2. ~AwaitsDump(cur[g])
    BY DEF Quiet, AwaitsDump
  <2> QED
    BY <2>1, <2>2 DEF IInv, SyncInv, InSync, Quiet
<1> QED
  BY <1>1, Inductive, PTL
=============================================================================
