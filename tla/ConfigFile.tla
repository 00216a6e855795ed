----------------------------- MODULE ConfigFile -----------------------------
(***************************************************************************)
(* parse_conf of lib/src/config.c, line by line.  sscanf(line, "%s %s")    *)
(* writes the buffers key and value only as far as the line has words: a   *)
(* line with none, or with a key alone, is taken with what is left in them *)
(* from the line before (they are locals of the loop body, but stay in the *)
(* same place on the stack), and on the first line with whatever was there.*)
(***************************************************************************)
EXTENDS Integers

CONSTANTS
  Settings,   \* the keys that parse_conf knows
  Words,      \* second words
  NotANumber, \* stands for a word that is no number
  MaxLines    \* bound: lines of a file

ASSUME ConfigFileAssumption == /\ Words \ {NotANumber} \subseteq Int
                               /\ NotANumber \notin Int
                               /\ MaxLines \in Nat

Comment    == "//"
Unknown    == "?"     \* any other first word

Keys == Settings \cup {Comment, Unknown}

\* A line has no words, a key alone or a key and a value.
Lines == [words : {0}] \cup [words : {1}, key : Keys]
           \cup [words : {2}, key : Keys, value : Words]

VARIABLES
  key, value,  \* the buffers of the loop body
  conf,        \* struct Config
  line,        \* history: the lines read so far
  clean,       \* history: no line left its meaning to the buffers
  meant        \* history: the settings the lines spell out

vars == <<key, value, conf, line, clean, meant>>

TypeOK ==
  /\ key \in Keys /\ value \in Words
  /\ conf \in [Settings -> Int]
  /\ line \in 0 .. MaxLines
  /\ clean \in BOOLEAN
  /\ meant \in [Settings -> Int]

atoi(w) == IF w = NotANumber THEN 0 ELSE w

init_conf == [s \in Settings |-> 0]

Init ==
  /\ key \in Keys /\ value \in Words    \* uninitialised
  /\ conf = init_conf
  /\ line = 0 /\ clean = TRUE /\ meant = init_conf

\* Mutant: the word is stored as it is.
AssignRaw(k, v) == IF k \in Settings THEN [conf EXCEPT ![k] = v] ELSE conf

\* The chain of strcmp: a comment or an unknown key sets nothing.
Assign(k, v) == IF k \in Settings THEN [conf EXCEPT ![k] = atoi(v)] ELSE conf

\* What the line says by itself, and whether it says all that it sets.
Says(l) == IF l.words = 2 /\ l.key \in Settings
           THEN [meant EXCEPT ![l.key] = atoi(l.value)] ELSE meant
SaysAll(l) == \/ l.words = 2
              \/ l.words = 1 /\ l.key \notin Settings
              \/ l.words = 0 /\ line > 0

\* Mutant: the settings are initialised for every line.
ReadLineResets(l) ==
  /\ line < MaxLines
  /\ key' = IF l.words >= 1 THEN l.key ELSE key
  /\ value' = IF l.words = 2 THEN l.value ELSE value
  /\ conf' = IF key' \in Settings THEN [init_conf EXCEPT ![key'] = atoi(value')]
             ELSE init_conf
  /\ line' = line + 1
  /\ clean' = (clean /\ SaysAll(l))
  /\ meant' = Says(l)

\* One iteration of the loop.
ReadLine(l) ==
  /\ line < MaxLines
  /\ key' = IF l.words >= 1 THEN l.key ELSE key
  /\ value' = IF l.words = 2 THEN l.value ELSE value
  /\ conf' = Assign(key', value')
  /\ line' = line + 1
  /\ clean' = (clean /\ SaysAll(l))
  /\ meant' = Says(l)

Next == \E l \in Lines : ReadLine(l)

Spec == Init /\ [][Next]_vars

(***************************************************************************)
(* The last line for a setting wins and every other setting keeps its      *)
(* default, comments and empty lines notwithstanding: an empty line sets   *)
(* again what the line before it set.  It does not hold of a file that     *)
(* starts with an empty line or has a key without a value.                 *)
(***************************************************************************)
LastLineWins == clean => conf = meant

=============================================================================
