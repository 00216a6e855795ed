--------------------------- MODULE ConfigFileProofs ---------------------------
(***************************************************************************)
(* Proofs about parse_conf, for any settings and files of any length.      *)
(***************************************************************************)
EXTENDS ConfigFile, TLAPS

\* atoi returns a number for every word.
LEMMA AtoiType ==
  ASSUME NEW w \in Words
  PROVE  atoi(w) \in Int
  BY ConfigFileAssumption DEF atoi

\* A line has the words that it says it has.
LEMMA LineWords ==
  ASSUME NEW l \in Lines
  PROVE  /\ l.words \in {0, 1, 2}
         /\ l.words >= 1 => l.key \in Keys
         /\ l.words = 2 => l.value \in Words
  BY DEF Lines

\* One line, read over the buffers that the line before left.
LEMMA ReadLineType ==
  ASSUME TypeOK, NEW l \in Lines, ReadLine(l)
  PROVE  TypeOK'
<1>1. key' \in Keys /\ value' \in Words
  BY LineWords DEF TypeOK, ReadLine
<1>2. conf' \in [Settings -> Int]
  BY <1>1, AtoiType DEF TypeOK, ReadLine, Assign
<1>3. meant' \in [Settings -> Int]
  <2>1. CASE l.words = 2
    <3>1. l.value \in Words
      BY <2>1, LineWords
    <3> QED BY <3>1, AtoiType DEF TypeOK, ReadLine, Says
  <2>2. CASE l.words # 2
    BY <2>2 DEF TypeOK, ReadLine, Says
  <2> QED BY <2>1, <2>2
<1>4. line' \in 0 .. MaxLines
  BY ConfigFileAssumption DEF TypeOK, ReadLine
<1>5. clean' \in BOOLEAN
  BY DEF TypeOK, ReadLine, SaysAll
<1> QED BY <1>1, <1>2, <1>3, <1>4, <1>5 DEF TypeOK

\* Whatever the file holds and the stack held, parse_conf stores numbers.
THEOREM ConfigTypeCorrect == Spec => []TypeOK
<1>1. Init => TypeOK
  BY ConfigFileAssumption DEF Init, TypeOK, init_conf
<1>2. TypeOK /\ [Next]_vars => TypeOK'
  <2> SUFFICES ASSUME TypeOK, [Next]_vars PROVE TypeOK'
    OBVIOUS
  <2>1. CASE UNCHANGED vars
    BY <2>1 DEF vars, TypeOK
  <2> QED BY <2>1, ReadLineType DEF Next
<1> QED BY <1>1, <1>2, PTL DEF Spec

-----------------------------------------------------------------------------
(***************************************************************************)
(* LastLineWins is not inductive: an empty line stores again what is left  *)
(* in the buffers.  That changes nothing, because after a line was read    *)
(* the setting they name already has the value they hold.                  *)
(***************************************************************************)
BuffersStored ==
  clean /\ line > 0 /\ key \in Settings => conf[key] = atoi(value)

\* One line keeps both.
LEMMA ReadLineWins ==
  ASSUME TypeOK, BuffersStored, LastLineWins, NEW l \in Lines, ReadLine(l)
  PROVE  BuffersStored' /\ LastLineWins'
<1>1. conf \in [Settings -> Int] /\ meant \in [Settings -> Int]
  BY DEF TypeOK
<1>2. BuffersStored'
  <2> SUFFICES ASSUME key' \in Settings PROVE conf'[key'] = atoi(value')
    BY DEF BuffersStored
  <2>1. conf' = [conf EXCEPT ![key'] = atoi(value')]
    BY DEF ReadLine, Assign
  <2> QED BY <1>1, <2>1
<1>3. LastLineWins'
  <2> SUFFICES ASSUME clean' PROVE conf' = meant'
    BY DEF LastLineWins
  <2>1. clean /\ SaysAll(l) /\ conf = meant
    BY DEF ReadLine, LastLineWins
  <2>2. CASE l.words = 2
    <3>1. key' = l.key /\ value' = l.value
      BY <2>2 DEF ReadLine
    <3> QED BY <2>1, <2>2, <3>1 DEF ReadLine, Assign, Says
  <2>3. CASE l.words = 1 /\ l.key \notin Settings
    <3>1. key' = l.key
      BY <2>3 DEF ReadLine
    <3> QED BY <2>1, <2>3, <3>1 DEF ReadLine, Assign, Says
  <2>4. CASE l.words = 0 /\ line > 0
    <3>1. key' = key /\ value' = value /\ meant' = meant
      BY <2>4 DEF ReadLine, Says
    <3>2. key \in Settings => conf[key] = atoi(value)
      BY <2>1, <2>4 DEF BuffersStored
    <3>3. conf' = conf
      BY <1>1, <3>1, <3>2 DEF ReadLine, Assign
    <3> QED BY <2>1, <3>1, <3>3
  <2> QED BY <2>1, <2>2, <2>3, <2>4 DEF SaysAll
<1> QED BY <1>2, <1>3

(***************************************************************************)
(* In every file without a key that lacks its value and without an empty   *)
(* first line, the last line for a setting wins.                           *)
(***************************************************************************)
THEOREM LastLineWinsTheorem == Spec => []LastLineWins
<1>1. Init => BuffersStored /\ LastLineWins
  BY DEF Init, BuffersStored, LastLineWins
<1>2. TypeOK /\ BuffersStored /\ LastLineWins /\ [Next]_vars =>
        BuffersStored' /\ LastLineWins'
  <2> SUFFICES ASSUME TypeOK, BuffersStored, LastLineWins, [Next]_vars
               PROVE  BuffersStored' /\ LastLineWins'
    OBVIOUS
  <2>1. CASE UNCHANGED vars
    BY <2>1 DEF vars, BuffersStored, LastLineWins
  <2> QED BY <2>1, ReadLineWins DEF Next
<1> QED BY <1>1, <1>2, ConfigTypeCorrect, PTL DEF Spec

=============================================================================
