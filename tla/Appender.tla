------------------------------ MODULE Appender ------------------------------
(***************************************************************************)
(* The bounded output of src/core/export.c: a writer hands its text to     *)
(* append() piece by piece, append() goes on counting when the caller's    *)
(* buffer is full, and the writer returns the length of the whole text, as *)
(* snprintf does.                                                          *)
(*                                                                         *)
(* mem is the memory from the start of the caller's buffer up to some way  *)
(* past its end.  What a document is made of is left to Export.            *)
(***************************************************************************)
EXTENDS Integers, Sequences

CONSTANTS
  Char,      \* the characters of a text
  NUL,       \* the terminator
  Junk,      \* what the memory holds before the call
  Document,  \* what may be written: records with their text cut into pieces
  Top,       \* the last address of the memory
  BufSize    \* the buf_size a caller may pass

Text == Seq(Char)

ASSUME CharAssumption == NUL \notin Char
ASSUME DocumentAssumption ==
  \A d \in Document : d.pieces \in Seq(Text) /\ d.pieces # <<>>
ASSUME SizeAssumption == Top \in Nat /\ BufSize \subseteq Int /\ \A n \in BufSize : n <= Top

VARIABLES
  pc,       \* "idle", "appending" or "returned"
  doc,      \* the document being written
  todo,     \* its pieces that are still to be appended
  text,     \* history: what has been appended so far
  size,     \* size of appender_t
  needed,   \* needed of appender_t
  mem,      \* the memory
  ret       \* what the call returned

appenderVars == <<pc, doc, todo, text, size, needed, mem, ret>>

Address == 0 .. Top

AppenderTypeOK ==
  /\ pc \in {"idle", "appending", "returned"}
  /\ pc # "idle" => doc \in Document
  /\ todo \in Seq(Text)
  /\ text \in Text
  /\ size \in 0 .. Top
  /\ needed \in Nat
  /\ mem \in [Address -> Char \cup {NUL, Junk}]
  /\ ret \in Int

Blank == [i \in Address |-> Junk]

AppenderInit ==
  /\ pc = "idle"
  /\ doc = <<>>
  /\ todo = <<>>
  /\ text = <<>>
  /\ size = 0
  /\ needed = 0
  /\ mem = Blank
  /\ ret = 0

-----------------------------------------------------------------------------

Least(a, b) == IF a <= b THEN a ELSE b

\* vsnprintf(buf + at, room, ...) of the characters s, with room > 0: as many
\* as fit before a terminator, which is always written.
Vsnprintf(at, room, s) ==
  LET n == Least(Len(s), room - 1)
  IN  [i \in Address |->
         IF i \in at .. at + n - 1 THEN s[i - at + 1]
         ELSE IF i = at + n THEN NUL
         ELSE mem[i]]

\* Mutant: a negative size is converted to the unsigned type as it is.
BeginUnchecked(d, n) ==
  /\ pc = "idle"
  /\ pc' = "appending"
  /\ doc' = d
  /\ todo' = d.pieces
  /\ size' = n
  /\ needed' = 0
  /\ UNCHANGED <<text, mem, ret>>

\* A writer is called, with a buffer of n characters (none when n is 0).
Begin(d, n) ==
  /\ pc = "idle"
  /\ n >= 0
  /\ pc' = "appending"
  /\ doc' = d
  /\ todo' = d.pieces
  /\ size' = n
  /\ needed' = 0
  /\ UNCHANGED <<text, mem, ret>>

\* Arguments that are refused before anything is written: no data, a negative
\* size, or a size without a buffer.
Refuse(d) ==
  /\ pc = "idle"
  /\ pc' = "returned"
  /\ doc' = d
  /\ ret' = -1
  /\ UNCHANGED <<todo, text, size, needed, mem>>

\* Mutant: the terminator is left out of the room that remains.
AppendOneMore ==
  /\ pc = "appending" /\ todo # <<>>
  /\ LET piece == Head(todo)
         remaining == IF needed < size THEN size - needed + 1 ELSE 0
     IN  /\ mem' = IF remaining > 0 THEN Vsnprintf(needed, remaining, piece) ELSE mem
         /\ needed' = needed + Len(piece)
         /\ text' = text \o piece
  /\ todo' = Tail(todo)
  /\ UNCHANGED <<pc, doc, size, ret>>

AppendPiece ==
  /\ pc = "appending" /\ todo # <<>>
  /\ LET piece == Head(todo)
         remaining == IF needed < size THEN size - needed ELSE 0
     IN  /\ mem' = IF remaining > 0 THEN Vsnprintf(needed, remaining, piece) ELSE mem
         /\ needed' = needed + Len(piece)
         /\ text' = text \o piece
  /\ todo' = Tail(todo)
  /\ UNCHANGED <<pc, doc, size, ret>>

Return ==
  /\ pc = "appending" /\ todo = <<>>
  /\ pc' = "returned"
  /\ ret' = needed
  /\ UNCHANGED <<doc, todo, text, size, needed, mem>>

\* The next call has another buffer.
Leave ==
  /\ pc = "returned"
  /\ pc' = "idle"
  /\ doc' = <<>> /\ todo' = <<>> /\ text' = <<>>
  /\ size' = 0 /\ needed' = 0
  /\ mem' = Blank
  /\ ret' = 0

AppenderNext ==
  \/ \E d \in Document, n \in BufSize : Begin(d, n)
  \/ \E d \in Document : Refuse(d)
  \/ AppendPiece
  \/ Return
  \/ Leave

AppenderSpec == AppenderInit /\ [][AppenderNext]_appenderVars
-----------------------------------------------------------------------------
(* Properties. *)

\* Nothing past the end of the buffer is written, at any point of the text.
InBounds == \A i \in Address : i >= size => mem[i] = Junk

\* The buffer holds as much of the text as fits before the terminator.
HoldsPrefix ==
  LET kept == Least(Len(text), size - 1)
  IN  /\ \A i \in 0 .. kept - 1 : mem[i] = text[i + 1]
      /\ mem[kept] = NUL

\* The contract the header gives: the return value is the length of the whole
\* text whatever the size, so it is at least the size exactly when the text was
\* cut; the buffer holds a terminated prefix, the whole text when it fits; a
\* size of 0 writes nothing, and nothing is ever written past the end.
Contract ==
  /\ InBounds
  /\ pc = "returned" /\ ret # -1 =>
       /\ ret = Len(text)
       /\ size > 0 => HoldsPrefix
=============================================================================
